-------------------------- MODULE SyncEngine_proofs --------------------------
(* Theorems about the sync engine, for any number of machines, files and     *)
(* contents.                                                                 *)
EXTENDS SyncEngine, TLAPS

\* A file a command still has to handle has its place in the command's
\* snapshot; a file to be pulled was on the remote then.
Planned ==
    \A m \in Machine, f \in File :
        /\ (\E s \in Stages : f \in todo[m][s]) => plan[m][f] \in Plan
        /\ f \in todo[m]["pull"] => plan[m][f].drive # NoFile

\* Nothing is uploaded before the pulls and guard checks are through, no file
\* is uploaded while it is guarded, or twice at a time.
Ordered ==
    \A m \in Machine :
        /\ todo[m]["upload"] # {} => todo[m]["pull"] = {}
        /\ todo[m]["record"] # {} => todo[m]["pull"] = {} /\ todo[m]["guard"] = {}
        /\ todo[m]["guard"] \cap todo[m]["upload"] = {}
        /\ todo[m]["upload"] \cap todo[m]["record"] = {}

\* A file without a manifest entry that is to be guarded was not on the remote.
GuardBase ==
    \A m \in Machine, f \in File :
        f \in todo[m]["guard"] /\ mem[m][f] = NoEntry => plan[m][f].drive = NoFile

\* A file that is to be uploaded passed its guard, or its user was asked.
Checked ==
    \A m \in Machine, f \in File :
        f \in todo[m]["upload"] /\ cmd[m] # "force" =>
            \/ plan[m][f].drive = NoFile
            \/ mem[m][f] # NoEntry /\ plan[m][f].drive = mem[m][f].remote
            \/ shown[m][f] # None

IInv == TypeOK /\ Planned /\ Ordered /\ GuardBase /\ Checked

\* Classification answers one of the seven statuses.
LEMMA ClassifyType ==
    ASSUME NEW l \in Hash, NEW d \in Hash, NEW e \in Entry \cup {NoEntry}
    PROVE  Classify(l, d, e) \in Status
  BY DEF Classify, FirstSeen, SinceSync, Status

\* A file classified as ahead on the remote exists there; without a manifest
\* entry, a file classified as ahead locally does not.
LEMMA ClassifyFacts ==
    ASSUME NEW l \in Hash, NEW d \in Hash, NEW e \in Entry \cup {NoEntry}
    PROVE  /\ Classify(l, d, e) \in {"drive_ahead", "new_drive"} => d # NoFile
           /\ e = NoEntry /\ Classify(l, d, e) \in {"local_ahead", "new_local"} => d = NoFile
  BY DEF Classify, FirstSeen, SinceSync

LEMMA TextType == \A c \in Content : Text(c) \in Content
  BY DataAssumption DEF Text

\* The snapshot of a command is well typed.
LEMMA SnapshotType ==
    ASSUME TypeOK, NEW m \in Machine
    PROVE  Snapshot(m) \in [File -> Plan \cup {None}]
  BY ClassifyType DEF Snapshot, Plan, TypeOK

LEMMA HavingFacts ==
    ASSUME NEW P, NEW S
    PROVE  /\ Having(P, S) \subseteq File
           /\ \A f \in Having(P, S) : P[f] # None /\ P[f].status \in S
  BY DEF Having

LEMMA InitialTodoType ==
    ASSUME NEW m, NEW k \in {"sync", "push", "force", "pull"},
           NEW scope \in SUBSET File, NEW P
    PROVE  InitialTodo(m, k, scope, P) \in [Stages -> SUBSET File]
  <1> DEFINE ahead   == Having(P, {"local_ahead", "new_local"}) \cap scope
             behind  == Having(P, {"drive_ahead", "new_drive"}) \cap scope
             gone    == Having(P, {"deleted_local"}) \cap scope
             split   == Having(P, {"conflict"})
             clashes == split \cap scope
             late    == PendingFiles(m)
  <1>1. /\ ahead \subseteq File /\ behind \subseteq File /\ gone \subseteq File
        /\ split \subseteq File /\ clashes \subseteq File /\ late \subseteq File
    BY DEF Having, PendingFiles
  <1>2. NoTodo \in [Stages -> SUBSET File]
    BY DEF NoTodo
  <1> HIDE DEF ahead, behind, gone, split, clashes, late
  <1>3. QED
    BY <1>1, <1>2 DEF InitialTodo, Stages, ahead, behind, gone, split, clashes, late

\* What a file's move between stages does to every stage of every machine.
LEMMA MoveFacts ==
    ASSUME TypeOK, NEW m \in Machine, NEW s \in Stages, NEW t \in Stages, NEW f \in File,
           s # t, Drop(m, s, f) \/ Move(m, s, t, f)
    PROVE  /\ todo' \in [Machine -> [Stages -> SUBSET File]]
           /\ \A n \in Machine \ {m} : todo'[n] = todo[n]
           /\ \A u \in Stages \ {s, t} : todo'[m][u] = todo[m][u]
           /\ todo'[m][s] = todo[m][s] \ {f}
           /\ Drop(m, s, f) => todo'[m][t] = todo[m][t]
           /\ todo'[m][t] \subseteq todo[m][t] \cup {f}
  <1>1. todo \in [Machine -> [Stages -> SUBSET File]]
    BY DEF TypeOK
  <1>2. CASE Drop(m, s, f)
    <2> DEFINE T == [todo[m] EXCEPT ![s] = @ \ {f}]
    <2>1. /\ T \in [Stages -> SUBSET File]
          /\ \A u \in Stages \ {s} : T[u] = todo[m][u]
          /\ T[s] = todo[m][s] \ {f}
      BY <1>1
    <2>2. todo' = [todo EXCEPT ![m] = T]
      BY <1>2 DEF Drop
    <2> HIDE DEF T
    <2>3. QED BY <1>1, <2>1, <2>2
  <1>3. CASE Move(m, s, t, f) /\ ~Drop(m, s, f)
    <2> DEFINE T == [todo[m] EXCEPT ![s] = @ \ {f}, ![t] = @ \cup {f}]
    <2>1. /\ T \in [Stages -> SUBSET File]
          /\ \A u \in Stages \ {s, t} : T[u] = todo[m][u]
          /\ T[s] = todo[m][s] \ {f}
          /\ T[t] = todo[m][t] \cup {f}
      BY <1>1
    <2>2. todo' = [todo EXCEPT ![m] = T]
      BY <1>3 DEF Move
    <2> HIDE DEF T
    <2>3. QED BY <1>1, <1>3, <2>1, <2>2
  <1>4. QED
    BY <1>2, <1>3

LEMMA FaultType ==
    ASSUME TypeOK, NEW forced, Fault(forced)
    PROVE  faults' \in 0..MaxFaults
  BY ModeAssumption DEF TypeOK, Fault

LEMMA StopType ==
    ASSUME TypeOK, NEW m \in Machine, Stop(m)
    PROVE  /\ taken' \in [Machine -> SUBSET File]
           /\ cmd' \in [Machine -> Commands \cup {"idle"}]
           /\ mem' \in [Machine -> [File -> Entry \cup {NoEntry}]]
           /\ plan' \in [Machine -> [File -> Plan \cup {None}]]
           /\ todo' \in [Machine -> [Stages -> SUBSET File]]
           /\ shown' \in [Machine -> [File -> Shown \cup {None}]]
  BY DEF TypeOK, Stop, NoEntries, Nothing, NoTodo

LEMMA InitType == Init => TypeOK
  BY ModeAssumption DEF Init, TypeOK, Hash, NoEntries, Nothing, NoTodo

\* A move leaves plans in place for the files that still have to be handled.
LEMMA PlannedKept ==
    ASSUME IInv, NEW m \in Machine, NEW s \in Stages, NEW t \in Stages \ {"pull"},
           NEW f \in File, s # t, f \in todo[m][s], Drop(m, s, f) \/ Move(m, s, t, f),
           plan' = plan
    PROVE  Planned'
  <1>1. /\ \A n \in Machine \ {m} : todo'[n] = todo[n]
        /\ \A u \in Stages \ {s, t} : todo'[m][u] = todo[m][u]
        /\ todo'[m][s] = todo[m][s] \ {f}
        /\ Drop(m, s, f) => todo'[m][t] = todo[m][t]
        /\ todo'[m][t] \subseteq todo[m][t] \cup {f}
    BY MoveFacts DEF IInv
  <1>2. \A n \in Machine : todo'[n]["pull"] \subseteq todo[n]["pull"]
    BY <1>1 DEF Stages
  <1>3. ASSUME NEW n \in Machine, NEW g \in File, NEW u \in Stages, g \in todo'[n][u]
        PROVE  \E v \in Stages : g \in todo[n][v]
    BY <1>1, <1>3
  <1>4. QED
    BY <1>2, <1>3 DEF IInv, Planned

\* Stages that are left or entered late in a command keep the order.
LEMMA OrderedKept ==
    ASSUME IInv, NEW m \in Machine, NEW s \in Stages, NEW t \in Stages, NEW f \in File,
           s # t, f \in todo[m][s],
           \/ Drop(m, s, f)
           \/ Move(m, s, t, f) /\ t \notin {"pull", "guard", "upload", "record"}
    PROVE  Ordered'
  <1>1. /\ \A n \in Machine \ {m} : todo'[n] = todo[n]
        /\ \A u \in Stages \ {s, t} : todo'[m][u] = todo[m][u]
        /\ todo'[m][s] = todo[m][s] \ {f}
        /\ Drop(m, s, f) => todo'[m][t] = todo[m][t]
        /\ todo'[m][t] \subseteq todo[m][t] \cup {f}
    BY MoveFacts DEF IInv
  <1>2. ASSUME NEW n \in Machine, NEW u \in {"pull", "guard", "upload", "record"}
        PROVE  todo'[n][u] \subseteq todo[n][u]
    BY <1>1, <1>2 DEF Stages
  <1>3. QED
    BY <1>2 DEF IInv, Ordered

\* The end of a command, however it ends, leaves nothing to be done.
LEMMA StopKept ==
    ASSUME IInv, NEW m \in Machine, Stop(m)
    PROVE  Planned' /\ Ordered' /\ GuardBase' /\ Checked'
  <1>1. /\ todo' = [todo EXCEPT ![m] = NoTodo]
        /\ plan' = [plan EXCEPT ![m] = Nothing]
        /\ mem' = [mem EXCEPT ![m] = NoEntries]
        /\ shown' = [shown EXCEPT ![m] = Nothing]
        /\ cmd' = [cmd EXCEPT ![m] = "idle"]
    BY DEF Stop
  <1>2. \A s \in Stages : NoTodo[s] = {}
    BY DEF NoTodo
  <1>3. \A n \in Machine \ {m} : /\ todo'[n] = todo[n] /\ plan'[n] = plan[n]
                                 /\ mem'[n] = mem[n] /\ shown'[n] = shown[n]
                                 /\ cmd'[n] = cmd[n]
    BY <1>1 DEF IInv, TypeOK
  <1>4. \A s \in Stages : todo'[m][s] = {}
    BY <1>1, <1>2 DEF IInv, TypeOK
  <1>5. QED
    BY <1>3, <1>4 DEF IInv, Planned, Ordered, GuardBase, Checked, Stages

LEMMA UserKept ==
    ASSUME IInv, NEW m \in Machine, UserStep(m) PROVE IInv'
  <1>1. UNCHANGED <<remote, disk, mem, cmd, plan, todo, shown, ghosts, faults>>
    BY DEF UserStep, Edit, Remove, cmdVars
  <1>2. /\ local' \in [Machine -> [File -> Hash]]
        /\ used' \subseteq Content
    <2>1. PICK f \in File : Remove(m, f) \/ \E c \in Content : Edit(m, f, c)
      BY DEF UserStep
    <2>2. CASE Remove(m, f)
      BY <2>2 DEF Remove, IInv, TypeOK, Hash
    <2>3. ASSUME NEW c \in Content, Edit(m, f, c)
          PROVE  local' \in [Machine -> [File -> Hash]] /\ used' \subseteq Content
      BY <2>3 DEF Edit, IInv, TypeOK, Hash
    <2>4. QED BY <2>1, <2>2, <2>3
  <1>3. TypeOK'
    BY <1>1, <1>2 DEF IInv, TypeOK, ghosts
  <1>4. QED
    BY <1>1, <1>3 DEF IInv, Planned, Ordered, GuardBase, Checked

\* A command starts with a snapshot that covers its work; only a forced push
\* has uploads waiting at once.
LEMMA StartKept ==
    ASSUME IInv, NEW m \in Machine, StartStep(m) PROVE IInv'
  <1>1. PICK k \in Commands, scope \in SUBSET File : Start(m, k, scope)
    BY DEF StartStep
  <1> DEFINE P == Snapshot(m)
             T == InitialTodo(m, k, scope, P)
  <1>2. k \in {"sync", "push", "force", "pull"}
    BY ModeAssumption
  <1>3. P \in [File -> Plan \cup {None}]
    BY SnapshotType DEF IInv
  <1>4. T \in [Stages -> SUBSET File]
    BY <1>2, InitialTodoType
  <1>5. ASSUME NEW f \in File, NEW s \in Stages, f \in T[s]
        PROVE  P[f] # None \/ f \in PendingFiles(m)
    <2> DEFINE H(S) == Having(P, S)
    <2>1. /\ f \in H({"local_ahead", "new_local"}) => P[f] # None
          /\ f \in H({"drive_ahead", "new_drive"}) => P[f] # None
          /\ f \in H({"deleted_local"}) => P[f] # None
          /\ f \in H({"conflict"}) => P[f] # None
      BY HavingFacts
    <2> HIDE DEF P
    <2>2. QED
      BY <1>2, <1>5, <2>1 DEF InitialTodo, NoTodo, Stages
  <1>6. \A f \in PendingFiles(m) : f \in File /\ disk[m][f] # NoEntry /\ P[f] # None
    <2>1. \A f \in File : disk[m][f] # NoEntry => Tracked(local[m][f], remote[f], disk[m][f])
      BY DEF Tracked
    <2>2. \A f \in File : Tracked(local[m][f], remote[f], disk[m][f]) => P[f] # None
      BY <1>3, ClassifyType, NullAssumption DEF Snapshot, IInv, TypeOK, Plan
    <2>3. QED
      BY <2>1, <2>2 DEF PendingFiles
  <1>7. /\ cmd' = [cmd EXCEPT ![m] = k]
        /\ mem' = [mem EXCEPT ![m] = disk[m]]
        /\ plan' = [plan EXCEPT ![m] = P]
        /\ todo' = [todo EXCEPT ![m] = T]
        /\ UNCHANGED <<local, used, remote, disk, shown, ghosts, faults>>
    BY <1>1 DEF Start, userVars
  <1>8. /\ T["record"] = {}
        /\ k = "force" => T["pull"] = {} /\ T["guard"] = {}
        /\ k # "force" => T["upload"] = {}
    BY <1>2 DEF InitialTodo, NoTodo, Stages
  <1>9. ASSUME NEW f \in T["pull"] PROVE P[f].drive # NoFile
    <2>1. f \in Having(P, {"drive_ahead", "new_drive"})
      BY <1>2, <1>9 DEF InitialTodo, NoTodo, Stages
    <2>2. f \in File /\ P[f] # None /\ P[f].status \in {"drive_ahead", "new_drive"}
      BY <2>1, HavingFacts
    <2>3. P[f].drive = remote[f] /\ P[f].status = Classify(local[m][f], remote[f], disk[m][f])
      BY <2>2 DEF Snapshot
    <2>4. QED
      BY <2>2, <2>3, ClassifyFacts DEF IInv, TypeOK
  <1>10. ASSUME NEW f \in T["guard"], disk[m][f] = NoEntry PROVE P[f].drive = NoFile
    <2>1. f \in Having(P, {"local_ahead", "new_local"})
      BY <1>2, <1>6, <1>10 DEF InitialTodo, NoTodo, Stages
    <2>2. f \in File /\ P[f] # None /\ P[f].status \in {"local_ahead", "new_local"}
      BY <2>1, HavingFacts
    <2>3. P[f].drive = remote[f] /\ P[f].status = Classify(local[m][f], remote[f], disk[m][f])
      BY <2>2 DEF Snapshot
    <2>4. QED
      BY <1>10, <2>2, <2>3, ClassifyFacts DEF IInv, TypeOK
  <1> HIDE DEF P, T
  <1>11. TypeOK'
    BY <1>3, <1>4, <1>7 DEF IInv, TypeOK, ghosts
  <1>12. Planned'
    BY <1>3, <1>4, <1>5, <1>6, <1>7, <1>9 DEF IInv, TypeOK, Planned, Stages
  <1>13. Ordered'
    BY <1>4, <1>7, <1>8 DEF IInv, TypeOK, Ordered
  <1>14. GuardBase'
    BY <1>4, <1>7, <1>10 DEF IInv, TypeOK, GuardBase, Stages
  <1>15. Checked'
    BY <1>4, <1>7, <1>8 DEF IInv, TypeOK, Checked
  <1>16. QED
    BY <1>11, <1>12, <1>13, <1>14, <1>15 DEF IInv

\* A file that is dropped disappears from one stage and from no other.
LEMMA DropShrinks ==
    ASSUME IInv, NEW m \in Machine, NEW s \in Stages, NEW f \in File, Drop(m, s, f)
    PROVE  \A n \in Machine, u \in Stages : todo'[n][u] \subseteq todo[n][u]
  <1>1. PICK t \in Stages : s # t
    BY DEF Stages
  <1>2. /\ \A n \in Machine \ {m} : todo'[n] = todo[n]
        /\ \A u \in Stages \ {s, t} : todo'[m][u] = todo[m][u]
        /\ todo'[m][s] = todo[m][s] \ {f}
        /\ todo'[m][t] = todo[m][t]
    BY <1>1, MoveFacts DEF IInv
  <1>3. QED
    BY <1>2

\* So a step that drops a file and writes no plan keeps what is said of plans
\* and of the order of stages.
LEMMA DropKept ==
    ASSUME IInv, NEW m \in Machine, NEW s \in Stages, NEW f \in File,
           f \in todo[m][s], Drop(m, s, f), plan' = plan
    PROVE  /\ todo' \in [Machine -> [Stages -> SUBSET File]]
           /\ Planned'
           /\ Ordered'
  <1>1. PICK t \in Stages \ {"pull"} : s # t
    BY DEF Stages
  <1>2. todo' \in [Machine -> [Stages -> SUBSET File]]
    BY <1>1, MoveFacts DEF IInv
  <1>3. Planned'
    BY <1>1, PlannedKept
  <1>4. Ordered'
    BY <1>1, OrderedKept
  <1>5. QED
    BY <1>2, <1>3, <1>4

\* The file a stage works on has its plan.
LEMMA PlanAtHand ==
    ASSUME IInv, NEW m \in Machine, NEW s \in Stages, NEW f \in File, At(m, s, f)
    PROVE  f \in todo[m][s] /\ plan[m][f] \in Plan
  BY DEF At, IInv, Planned

LEMMA PullFileKept ==
    ASSUME IInv, NEW m \in Machine, NEW f \in File, PullFile(m, f) PROVE IInv'
  <1> "pull" \in Stages
    BY DEF Stages
  <1>1. f \in todo[m]["pull"] /\ plan[m][f] \in Plan /\ plan[m][f].drive \in Content
    BY PlanAtHand DEF PullFile, At, IInv, Planned, Plan, Hash
  <1> DEFINE e == [synced |-> remote[f], remote |-> plan[m][f].drive, pending |-> Mirrored]
  <1>2. e \in Entry /\ e # NoEntry
    BY <1>1, ModeAssumption, NullAssumption DEF PullFile, Entry, IInv, TypeOK, Hash
  <1>3. /\ mem' = [mem EXCEPT ![m][f] = e]
        /\ Drop(m, "pull", f)
        /\ local' = [local EXCEPT ![m][f] = remote[f]]
        /\ taken' = [taken EXCEPT ![m] = @ \cup {f}]
        /\ UNCHANGED <<used, remote, disk, cmd, plan, shown, published, lost, faults>>
    BY DEF PullFile, Remember, Take
  <1>4. /\ todo' \in [Machine -> [Stages -> SUBSET File]]
        /\ Planned' /\ Ordered'
    BY <1>1, <1>3, DropKept
  <1>5. \A n \in Machine, u \in Stages : todo'[n][u] \subseteq todo[n][u]
    BY <1>3, DropShrinks
  <1> HIDE DEF e
  <1>6. TypeOK'
    BY <1>2, <1>3, <1>4 DEF IInv, TypeOK
  <1>7. GuardBase'
    BY <1>2, <1>3, <1>5 DEF IInv, TypeOK, GuardBase, Stages
  <1>8. Checked'
    <2>1. e.remote = plan[m][f].drive
      BY DEF e
    <2>2. QED
      BY <1>2, <1>3, <1>5, <2>1 DEF IInv, TypeOK, Checked, Stages
  <1>9. QED
    BY <1>4, <1>6, <1>7, <1>8 DEF IInv

LEMMA GuardKept ==
    ASSUME IInv, NEW m \in Machine, NEW f \in File, Guard(m, f) PROVE IInv'
  <1> "guard" \in Stages /\ "again" \in Stages /\ "upload" \in Stages
    BY DEF Stages
  <1>1. /\ f \in todo[m]["guard"] /\ plan[m][f] \in Plan
        /\ todo[m]["pull"] = {}
        /\ f \notin todo[m]["upload"] /\ todo[m]["record"] = {}
    BY PlanAtHand DEF Guard, At, Reached, IInv, Ordered
  <1>2. UNCHANGED <<local, used, remote, disk, mem, cmd, shown, ghosts, faults>>
    BY DEF Guard, userVars
  <1>3. GuardHash(m, f) \in Hash
    BY <1>1 DEF GuardHash, IInv, TypeOK, Plan
  <1>4. CASE Clashes(m, f)
    <2> DEFINE p == [plan[m][f] EXCEPT !.status = "conflict", !.drive = GuardHash(m, f)]
    <2>1. p \in Plan /\ p.drive = GuardHash(m, f)
      BY <1>1, <1>3 DEF Plan, Status
    <2>2. plan' = [plan EXCEPT ![m][f] = p] /\ Move(m, "guard", "again", f)
      BY <1>4 DEF Guard, IInv, TypeOK
    <2>3. /\ todo' \in [Machine -> [Stages -> SUBSET File]]
          /\ \A n \in Machine \ {m} : todo'[n] = todo[n]
          /\ \A u \in Stages \ {"guard", "again"} : todo'[m][u] = todo[m][u]
          /\ todo'[m]["guard"] = todo[m]["guard"] \ {f}
          /\ todo'[m]["again"] \subseteq todo[m]["again"] \cup {f}
      BY <2>2, MoveFacts DEF IInv
    <2> HIDE DEF p
    <2>4. TypeOK'
      BY <1>2, <2>1, <2>2, <2>3 DEF IInv, TypeOK, ghosts
    <2>5. Planned'
      BY <1>1, <2>1, <2>2, <2>3 DEF IInv, TypeOK, Planned, Stages
    <2>6. Ordered'
      BY <2>2, OrderedKept, <1>1
    <2>7. GuardBase' /\ Checked'
      BY <1>1, <1>2, <2>1, <2>2, <2>3 DEF IInv, TypeOK, GuardBase, Checked, Stages
    <2>8. QED
      BY <2>4, <2>5, <2>6, <2>7 DEF IInv
  <1>5. CASE ~Clashes(m, f)
    <2>1. plan' = plan /\ Move(m, "guard", "upload", f)
      BY <1>5 DEF Guard
    <2>2. /\ todo' \in [Machine -> [Stages -> SUBSET File]]
          /\ \A n \in Machine \ {m} : todo'[n] = todo[n]
          /\ \A u \in Stages \ {"guard", "upload"} : todo'[m][u] = todo[m][u]
          /\ todo'[m]["guard"] = todo[m]["guard"] \ {f}
          /\ todo'[m]["upload"] \subseteq todo[m]["upload"] \cup {f}
      BY <2>1, MoveFacts DEF IInv
    <2>3. TypeOK'
      BY <1>2, <2>1, <2>2 DEF IInv, TypeOK, ghosts
    <2>4. Planned'
      BY <1>1, <2>1, PlannedKept DEF Stages
    <2>5. Ordered'
      BY <1>1, <2>2 DEF IInv, Ordered, Stages
    <2>6. GuardBase'
      BY <1>2, <2>1, <2>2 DEF IInv, GuardBase, Stages
    <2>7. \/ plan[m][f].drive = NoFile
          \/ mem[m][f] # NoEntry /\ plan[m][f].drive = mem[m][f].remote
      <3>1. mem[m][f] = NoEntry => plan[m][f].drive = NoFile
        BY <1>1 DEF IInv, GuardBase
      <3>2. plan[m][f].drive # NoFile => GuardHash(m, f) = plan[m][f].drive
        BY DEF GuardHash
      <3>3. mem[m][f] = NoEntry \/ GuardHash(m, f) = NoFile \/ GuardHash(m, f) = mem[m][f].remote
        BY <1>5 DEF Clashes
      <3>4. CASE plan[m][f].drive = NoFile
        BY <3>4
      <3>5. CASE plan[m][f].drive # NoFile
        BY <3>1, <3>2, <3>3, <3>5
      <3>6. QED
        BY <3>4, <3>5
    <2>8. Checked'
      BY <1>2, <2>1, <2>2, <2>7 DEF IInv, Checked, Stages
    <2>9. QED
      BY <2>3, <2>4, <2>5, <2>6, <2>8 DEF IInv
  <1>6. QED
    BY <1>4, <1>5

\* The backend cannot be asked: nothing but the file's stage changes.
LEMMA GuardFailKept ==
    ASSUME IInv, NEW m \in Machine, NEW f \in File, GuardFail(m, f) PROVE IInv'
  <1> "guard" \in Stages /\ "again" \in Stages
    BY DEF Stages
  <1>1. /\ f \in todo[m]["guard"]
        /\ Move(m, "guard", "again", f)
        /\ UNCHANGED <<local, used, remote, disk, mem, cmd, plan, shown, ghosts>>
        /\ faults' \in 0..MaxFaults
    BY FaultType DEF GuardFail, At, userVars, IInv
  <1>2. /\ todo' \in [Machine -> [Stages -> SUBSET File]]
        /\ \A n \in Machine \ {m} : todo'[n] = todo[n]
        /\ \A u \in Stages \ {"guard", "again"} : todo'[m][u] = todo[m][u]
        /\ todo'[m]["guard"] = todo[m]["guard"] \ {f}
    BY <1>1, MoveFacts DEF IInv
  <1>3. TypeOK'
    BY <1>1, <1>2 DEF IInv, TypeOK, ghosts
  <1>4. Planned'
    BY <1>1, PlannedKept DEF Stages
  <1>5. Ordered'
    BY <1>1, OrderedKept
  <1>6. GuardBase' /\ Checked'
    BY <1>1, <1>2 DEF IInv, GuardBase, Checked, Stages
  <1>7. QED
    BY <1>3, <1>4, <1>5, <1>6 DEF IInv

LEMMA UploadKept ==
    ASSUME IInv, NEW m \in Machine, NEW f \in File, Upload(m, f) PROVE IInv'
  <1> "upload" \in Stages /\ "record" \in Stages
    BY DEF Stages
  <1>1. /\ f \in todo[m]["upload"] /\ local[m][f] \in Content
        /\ todo[m]["pull"] = {} /\ todo[m]["guard"] = {}
        /\ Move(m, "upload", "record", f)
        /\ remote' = [remote EXCEPT ![f] = local[m][f]]
        /\ published' = published \cup {local[m][f]}
        /\ UNCHANGED <<local, used, disk, mem, cmd, plan, shown, taken, lost, faults>>
    BY DEF Upload, At, Reached, userVars, IInv, TypeOK, Hash
  <1>2. /\ todo' \in [Machine -> [Stages -> SUBSET File]]
        /\ \A n \in Machine \ {m} : todo'[n] = todo[n]
        /\ \A u \in Stages \ {"upload", "record"} : todo'[m][u] = todo[m][u]
        /\ todo'[m]["upload"] = todo[m]["upload"] \ {f}
        /\ todo'[m]["record"] \subseteq todo[m]["record"] \cup {f}
    BY <1>1, MoveFacts DEF IInv
  <1>3. TypeOK'
    BY <1>1, <1>2 DEF IInv, TypeOK, Hash
  <1>4. Planned'
    BY <1>1, PlannedKept DEF Stages
  <1>5. Ordered'
    BY <1>1, <1>2 DEF IInv, Ordered, Stages
  <1>6. GuardBase' /\ Checked'
    BY <1>1, <1>2 DEF IInv, GuardBase, Checked, Stages
  <1>7. QED
    BY <1>3, <1>4, <1>5, <1>6 DEF IInv

\* A step that finishes with a file whose guard and upload are over, and sets
\* its manifest entry.
LEMMA FinishKept ==
    ASSUME IInv, NEW m \in Machine, NEW s \in Stages, NEW f \in File,
           NEW e \in Entry \cup {NoEntry},
           f \in todo[m][s], f \notin todo[m]["guard"], f \notin todo[m]["upload"],
           Drop(m, s, f), mem' = [mem EXCEPT ![m][f] = e],
           shown' = shown \/ shown' = [shown EXCEPT ![m][f] = None],
           UNCHANGED <<disk, cmd, plan>>,
           local' \in [Machine -> [File -> Hash]], remote' \in [File -> Hash],
           taken' \in [Machine -> SUBSET File], lost' \in [Machine -> SUBSET File],
           used' \subseteq Content, published' \subseteq Content, faults' \in 0..MaxFaults
    PROVE  IInv'
  <1>1. /\ todo' \in [Machine -> [Stages -> SUBSET File]]
        /\ Planned' /\ Ordered'
    BY DropKept
  <1>2. \A n \in Machine, u \in Stages : todo'[n][u] \subseteq todo[n][u]
    BY DropShrinks
  <1>3. TypeOK'
    <2>1. mem' \in [Machine -> [File -> Entry \cup {NoEntry}]]
      BY DEF IInv, TypeOK
    <2>2. shown' \in [Machine -> [File -> Shown \cup {None}]]
      <3>1. CASE shown' = shown
        BY <3>1 DEF IInv, TypeOK
      <3>2. CASE shown' = [shown EXCEPT ![m][f] = None]
        BY <3>2 DEF IInv, TypeOK
      <3>3. QED
        BY <3>1, <3>2
    <2>3. QED
      BY <1>1, <2>1, <2>2 DEF IInv, TypeOK
  <1>4. ASSUME NEW n \in Machine, NEW g \in File, n # m \/ g # f
        PROVE  mem'[n][g] = mem[n][g] /\ shown'[n][g] = shown[n][g]
    <2>1. mem'[n][g] = mem[n][g]
      BY <1>4 DEF IInv, TypeOK
    <2>2. CASE shown' = shown
      BY <2>1, <2>2
    <2>3. CASE shown' = [shown EXCEPT ![m][f] = None]
      BY <1>4, <2>1, <2>3 DEF IInv, TypeOK
    <2>4. QED
      BY <2>2, <2>3
  <1>5. f \notin todo'[m]["guard"] /\ f \notin todo'[m]["upload"]
    BY <1>2 DEF Stages
  <1>6. ASSUME NEW n \in Machine, NEW g \in File, g \in todo'[n]["guard"]
        PROVE  g \in todo[n]["guard"] /\ mem'[n][g] = mem[n][g]
    BY <1>2, <1>4, <1>5, <1>6 DEF Stages
  <1>7. GuardBase'
    BY <1>6 DEF IInv, GuardBase
  <1>8. ASSUME NEW n \in Machine, NEW g \in File, g \in todo'[n]["upload"]
        PROVE  /\ g \in todo[n]["upload"] /\ mem'[n][g] = mem[n][g]
               /\ shown'[n][g] = shown[n][g]
    BY <1>2, <1>4, <1>5, <1>8 DEF Stages
  <1>9. Checked'
    BY <1>8 DEF IInv, Checked
  <1>10. QED
    BY <1>1, <1>3, <1>7, <1>9 DEF IInv

LEMMA RecordKept ==
    ASSUME IInv, NEW m \in Machine, NEW f \in File, NEW late \in BOOLEAN, Record(m, f, late)
    PROVE  IInv'
  <1> DEFINE e == Recorded(m, f, late)
  <1> "record" \in Stages
    BY DEF Stages
  <1>1. f \in todo[m]["record"] /\ plan[m][f] \in Plan /\ plan[m][f].local \in Content
    BY PlanAtHand DEF Record, Plan, Hash
  <1>2. e \in Entry
    BY <1>1 DEF Recorded, Entry, IInv, TypeOK, Hash
  <1>3. f \notin todo[m]["guard"] /\ f \notin todo[m]["upload"]
    BY <1>1 DEF IInv, Ordered
  <1>4. faults' \in 0..MaxFaults
    BY FaultType DEF Record, FanOut, IInv, TypeOK
  <1>5. /\ Drop(m, "record", f) /\ mem' = [mem EXCEPT ![m][f] = e]
        /\ shown' = [shown EXCEPT ![m][f] = None]
        /\ UNCHANGED <<local, used, remote, disk, cmd, plan, ghosts>>
    BY DEF Record, Remember, userVars
  <1> HIDE DEF e
  <1>6. QED
    BY <1>1, <1>2, <1>3, <1>4, <1>5, FinishKept DEF IInv, TypeOK, ghosts

LEMMA DeleteRemoteKept ==
    ASSUME IInv, NEW m \in Machine, NEW f \in File, DeleteRemote(m, f)
    PROVE  IInv'
  <1> "delete" \in Stages
    BY DEF Stages
  <1>1. f \in todo[m]["delete"] /\ f \notin todo[m]["guard"] /\ f \notin todo[m]["upload"]
    BY DEF DeleteRemote, At, Reached
  <1>2. /\ Drop(m, "delete", f) /\ mem' = [mem EXCEPT ![m][f] = NoEntry]
        /\ remote' = [remote EXCEPT ![f] = NoFile]
        /\ UNCHANGED <<local, used, disk, cmd, plan, shown, ghosts, faults>>
    BY DEF DeleteRemote, Remember, userVars
  <1>3. remote' \in [File -> Hash]
    BY <1>2 DEF IInv, TypeOK, Hash
  <1>4. QED
    BY <1>1, <1>2, <1>3, FinishKept DEF IInv, TypeOK, ghosts

LEMMA AnswerDriveKept ==
    ASSUME IInv, NEW m \in Machine, NEW s \in {"conflict", "again"}, NEW f \in File,
           NEW late \in BOOLEAN, AnswerDrive(m, s, f, late)
    PROVE  IInv'
  <1> DEFINE kept == Text(shown[m][f].drive)
             e == [synced  |-> kept,
                   remote  |-> IF plan[m][f].drive # NoFile THEN plan[m][f].drive ELSE kept,
                   pending |-> late]
  <1> s \in Stages
    BY DEF Stages
  <1>1. /\ f \in todo[m][s] /\ plan[m][f] \in Plan
        /\ f \notin todo[m]["guard"] /\ f \notin todo[m]["upload"]
    BY PlanAtHand DEF AnswerDrive, InConflict, At, Reached
  <1>2. kept \in Content
    BY TextType DEF AnswerDrive, Shown, IInv, TypeOK
  <1>3. e \in Entry
    BY <1>1, <1>2 DEF Entry, Plan, Hash
  <1>4. faults' \in 0..MaxFaults
    BY FaultType DEF AnswerDrive, FanOut, IInv, TypeOK
  <1>5. /\ Drop(m, s, f) /\ mem' = [mem EXCEPT ![m][f] = e]
        /\ local' = [local EXCEPT ![m][f] = kept]
        /\ used' = used \cup {kept}
        /\ shown' = [shown EXCEPT ![m][f] = None]
        /\ taken' = [taken EXCEPT ![m] = @ \cup {f}]
        /\ lost' \in {lost, [lost EXCEPT ![m] = @ \cup {f}]}
        /\ UNCHANGED <<remote, disk, cmd, plan, published>>
    BY DEF AnswerDrive, Remember, Take
  <1> HIDE DEF e, kept
  <1>6. local' \in [Machine -> [File -> Hash]] /\ used' \subseteq Content
    BY <1>2, <1>5 DEF IInv, TypeOK, Hash
  <1>7. taken' \in [Machine -> SUBSET File] /\ lost' \in [Machine -> SUBSET File]
    <2>1. /\ taken' \in [Machine -> SUBSET File]
          /\ [lost EXCEPT ![m] = @ \cup {f}] \in [Machine -> SUBSET File]
      BY <1>5 DEF IInv, TypeOK
    <2>2. QED
      BY <1>5, <2>1 DEF IInv, TypeOK
  <1>8. QED
    BY <1>1, <1>3, <1>4, <1>5, <1>6, <1>7, FinishKept DEF IInv, TypeOK

\* A conflict is shown: nothing else changes.
LEMMA ShowConflictKept ==
    ASSUME IInv, NEW m \in Machine, NEW s \in {"conflict", "again"}, NEW f \in File,
           ShowConflict(m, s, f)
    PROVE  IInv'
  <1> DEFINE sides == [local |-> local[m][f], drive |-> remote[f]]
  <1>1. /\ shown' = [shown EXCEPT ![m][f] = sides]
        /\ UNCHANGED <<local, used, remote, disk, mem, cmd, plan, todo, ghosts, faults>>
    BY DEF ShowConflict, userVars
  <1>2. sides \in Shown /\ sides # None
    BY NullAssumption DEF ShowConflict, Shown, IInv, TypeOK, Hash
  <1> HIDE DEF sides
  <1>3. TypeOK'
    BY <1>1, <1>2 DEF IInv, TypeOK, ghosts
  <1>4. Planned' /\ Ordered' /\ GuardBase'
    BY <1>1 DEF IInv, Planned, Ordered, GuardBase
  <1>5. \A n \in Machine, g \in File : shown[n][g] # None => shown'[n][g] # None
    BY <1>1, <1>2 DEF IInv, TypeOK
  <1>6. Checked'
    BY <1>1, <1>5 DEF IInv, Checked
  <1>7. QED
    BY <1>3, <1>4, <1>6 DEF IInv

LEMMA AnswerSkipKept ==
    ASSUME IInv, NEW m \in Machine, NEW s \in {"conflict", "again"}, NEW f \in File,
           AnswerSkip(m, s, f)
    PROVE  IInv'
  <1> s \in Stages
    BY DEF Stages
  <1>1. /\ f \in todo[m][s]
        /\ f \notin todo[m]["guard"] /\ f \notin todo[m]["upload"]
    BY DEF AnswerSkip, InConflict, At, Reached
  <1>2. /\ Drop(m, s, f)
        /\ shown' = [shown EXCEPT ![m][f] = None]
        /\ UNCHANGED <<local, used, remote, disk, mem, cmd, plan, ghosts, faults>>
    BY DEF AnswerSkip, userVars
  <1>3. mem[m][f] \in Entry \cup {NoEntry} /\ mem' = [mem EXCEPT ![m][f] = mem[m][f]]
    BY <1>2 DEF IInv, TypeOK
  <1>4. QED
    BY <1>1, <1>2, <1>3, FinishKept DEF IInv, TypeOK, ghosts

\* The local or the merged side wins: the file goes to upload with its question
\* still on record.
LEMMA AnswerPushKept ==
    ASSUME IInv, NEW m \in Machine, NEW s \in {"conflict", "again"}, NEW f \in File,
           NEW c \in Content, AnswerPush(m, s, f, c)
    PROVE  IInv'
  <1> s \in Stages /\ "upload" \in Stages
    BY DEF Stages
  <1> DEFINE p == [plan[m][f] EXCEPT !.local = c]
  <1>1. /\ f \in todo[m][s] /\ plan[m][f] \in Plan /\ shown[m][f] # None
        /\ todo[m]["pull"] = {} /\ todo[m]["guard"] = {} /\ todo[m]["record"] = {}
    BY PlanAtHand DEF AnswerPush, InConflict, At, Reached
  <1>2. p \in Plan
    BY <1>1 DEF Plan, Hash
  <1>3. /\ plan' = [plan EXCEPT ![m][f] = p]
        /\ local' = [local EXCEPT ![m][f] = c]
        /\ used' = used \cup {c}
        /\ Move(m, s, "upload", f)
        /\ UNCHANGED <<remote, disk, mem, cmd, shown, ghosts, faults>>
    BY DEF AnswerPush, IInv, TypeOK
  <1>4. /\ todo' \in [Machine -> [Stages -> SUBSET File]]
        /\ \A n \in Machine \ {m} : todo'[n] = todo[n]
        /\ \A u \in Stages \ {s, "upload"} : todo'[m][u] = todo[m][u]
        /\ todo'[m][s] = todo[m][s] \ {f}
        /\ todo'[m]["upload"] \subseteq todo[m]["upload"] \cup {f}
    BY <1>3, MoveFacts DEF IInv
  <1> HIDE DEF p
  <1>5. TypeOK'
    BY <1>2, <1>3, <1>4 DEF IInv, TypeOK, Hash, ghosts
  <1>6. ASSUME NEW n \in Machine, NEW g \in File, n # m \/ g # f
        PROVE  plan'[n][g] = plan[n][g]
    BY <1>3, <1>6 DEF IInv, TypeOK
  <1>7. plan'[m][f] = p
    BY <1>3 DEF IInv, TypeOK
  <1>8. todo'[m]["pull"] = {} /\ todo'[m]["guard"] = {} /\ todo'[m]["record"] = {}
    BY <1>1, <1>4 DEF Stages
  <1>9. Planned'
    <2>1. ASSUME NEW n \in Machine, NEW g \in File, NEW u \in Stages, g \in todo'[n][u]
          PROVE  plan'[n][g] \in Plan
      <3>1. CASE n = m /\ g = f
        BY <1>2, <1>7, <3>1
      <3>2. CASE n # m \/ g # f
        <4>1. \E v \in Stages : g \in todo[n][v]
          BY <1>4, <2>1, <3>2
        <4>2. QED BY <1>6, <3>2, <4>1 DEF IInv, Planned
      <3>3. QED BY <3>1, <3>2
    <2>2. ASSUME NEW n \in Machine, NEW g \in File, g \in todo'[n]["pull"]
          PROVE  plan'[n][g].drive # NoFile
      <3>1. n # m
        BY <1>8, <2>2
      <3>2. QED BY <1>4, <1>6, <2>2, <3>1 DEF IInv, Planned
    <2>3. QED BY <2>1, <2>2 DEF Planned
  <1>10. Ordered'
    BY <1>4, <1>8 DEF IInv, Ordered, Stages
  <1>11. GuardBase'
    <2>1. ASSUME NEW n \in Machine, NEW g \in File, g \in todo'[n]["guard"]
          PROVE  n # m
      BY <1>8, <2>1
    <2>2. QED BY <1>3, <1>4, <1>6, <2>1 DEF IInv, GuardBase
  <1>12. Checked'
    <2>1. ASSUME NEW n \in Machine, NEW g \in File, n # m \/ g # f, g \in todo'[n]["upload"]
          PROVE  g \in todo[n]["upload"] /\ plan'[n][g] = plan[n][g]
      BY <1>4, <1>6, <2>1
    <2>2. QED BY <1>1, <1>3, <2>1 DEF IInv, Checked
  <1>13. QED
    BY <1>5, <1>9, <1>10, <1>11, <1>12 DEF IInv

\* Commands end by saving, by being killed or by an exception.
LEMMA SaveKept ==
    ASSUME IInv, NEW m \in Machine, Save(m) PROVE IInv'
  <1>1. /\ Stop(m) /\ disk' = [disk EXCEPT ![m] = mem[m]]
        /\ lost' = [lost EXCEPT ![m] = {f \in @ : Torn(mem[m][f])}]
        /\ UNCHANGED <<local, used, remote, published, faults>>
    BY DEF Save, userVars
  <1>2. TypeOK'
    BY <1>1, StopType DEF IInv, TypeOK
  <1>3. QED
    BY <1>1, <1>2, StopKept DEF IInv

LEMMA AbortKept ==
    ASSUME IInv, NEW m \in Machine, Abandon(m), faults' \in 0..MaxFaults,
           UNCHANGED <<local, used, remote>>
    PROVE  IInv'
  <1>1. TypeOK'
    BY StopType DEF Abandon, IInv, TypeOK
  <1>2. QED
    BY <1>1, StopKept DEF Abandon, IInv

LEMMA CrashKept ==
    ASSUME IInv, NEW m \in Machine, Crash(m) PROVE IInv'
  BY AbortKept, FaultType DEF Crash, userVars, IInv

LEMMA ConflictUnreadableKept ==
    ASSUME IInv, NEW m \in Machine, NEW s, NEW f \in File, ConflictUnreadable(m, s, f)
    PROVE  IInv'
  BY AbortKept, FaultType DEF ConflictUnreadable, userVars, IInv

\* A failed transfer drops the file and changes nothing else.
LEMMA GiveUpKept ==
    ASSUME IInv, NEW m \in Machine, NEW s \in Stages, NEW f \in File,
           f \in todo[m][s], Drop(m, s, f), faults' \in 0..MaxFaults,
           UNCHANGED <<local, used, remote, disk, mem, cmd, plan, shown, ghosts>>
    PROVE  IInv'
  <1>1. /\ todo' \in [Machine -> [Stages -> SUBSET File]]
        /\ Planned' /\ Ordered'
    BY DropKept
  <1>2. \A n \in Machine, u \in Stages : todo'[n][u] \subseteq todo[n][u]
    BY DropShrinks
  <1>3. TypeOK'
    BY <1>1 DEF IInv, TypeOK, ghosts
  <1>4. GuardBase' /\ Checked'
    BY <1>2 DEF IInv, GuardBase, Checked, Stages
  <1>5. QED
    BY <1>1, <1>3, <1>4 DEF IInv

LEMMA PullFailKept ==
    ASSUME IInv, NEW m \in Machine, NEW f \in File, PullFail(m, f) PROVE IInv'
  <1>1. "pull" \in Stages
    BY DEF Stages
  <1>2. QED
    BY <1>1, GiveUpKept, FaultType DEF PullFail, At, userVars, IInv

LEMMA DeleteFailKept ==
    ASSUME IInv, NEW m \in Machine, NEW f \in File, DeleteFail(m, f) PROVE IInv'
  <1>1. "delete" \in Stages
    BY DEF Stages
  <1>2. QED
    BY <1>1, GiveUpKept, FaultType DEF DeleteFail, At, userVars, IInv

LEMMA PushFailsKept ==
    ASSUME IInv, NEW m \in Machine, NEW s \in Stages, NEW f \in File,
           f \in todo[m][s], PushFails(m, f, s), faults' \in 0..MaxFaults
    PROVE  IInv'
  <1>1. UNCHANGED <<local, used, remote>>
    BY DEF PushFails, userVars
  <1>2. CASE Abandon(m)
    BY <1>1, <1>2, AbortKept
  <1>3. CASE ~Abandon(m)
    <2>1. Drop(m, s, f) /\ UNCHANGED <<disk, mem, cmd, plan, shown, ghosts>>
      BY <1>3 DEF PushFails
    <2>2. QED
      BY <1>1, <2>1, GiveUpKept
  <1>4. QED
    BY <1>2, <1>3

LEMMA UploadFailKept ==
    ASSUME IInv, NEW m \in Machine, NEW f \in File, UploadFail(m, f) PROVE IInv'
  <1>1. "upload" \in Stages
    BY DEF Stages
  <1>2. QED
    BY <1>1, PushFailsKept, FaultType DEF UploadFail, At, IInv

LEMMA RecordFailKept ==
    ASSUME IInv, NEW m \in Machine, NEW f \in File, RecordFail(m, f) PROVE IInv'
  <1>1. "record" \in Stages
    BY DEF Stages
  <1>2. QED
    BY <1>1, PushFailsKept, FaultType DEF RecordFail, At, IInv

LEMMA WorkKept ==
    ASSUME IInv, NEW m \in Machine, WorkStep(m) PROVE IInv'
  <1>1. CASE Save(m)
    BY <1>1, SaveKept
  <1>2. CASE ~Save(m)
    <2>1. PICK f \in File :
            \/ PullFile(m, f) \/ Guard(m, f) \/ Upload(m, f)
            \/ \E late \in BOOLEAN : Record(m, f, late)
            \/ DeleteRemote(m, f)
            \/ \E s \in {"conflict", "again"} : ConflictStep(m, s, f)
      BY <1>2 DEF WorkStep
    <2>2. ASSUME NEW s \in {"conflict", "again"}, ConflictStep(m, s, f)
          PROVE  IInv'
      BY <2>2, ShowConflictKept, AnswerSkipKept, AnswerDriveKept, AnswerPushKept
         DEF ConflictStep
    <2>3. QED
      BY <2>1, <2>2, PullFileKept, GuardKept, UploadKept, RecordKept, DeleteRemoteKept
  <1>3. QED
    BY <1>1, <1>2

LEMMA FaultKept ==
    ASSUME IInv, NEW m \in Machine, FaultStep(m) PROVE IInv'
  BY PullFailKept, GuardFailKept, UploadFailKept, RecordFailKept, DeleteFailKept,
     ConflictUnreadableKept, CrashKept DEF FaultStep

LEMMA StutterKept ==
    ASSUME IInv, UNCHANGED vars PROVE IInv'
  BY DEF vars, userVars, cmdVars, IInv, TypeOK, Planned, Ordered, GuardBase, Checked, ghosts

\* The invariant is inductive.
LEMMA InitKept == Init => IInv
  <1> SUFFICES ASSUME Init PROVE IInv
    OBVIOUS
  <1>1. \A m \in Machine, s \in Stages : todo[m][s] = {}
    BY DEF Init, NoTodo
  <1>2. QED
    BY <1>1, InitType DEF IInv, Planned, Ordered, GuardBase, Checked, Stages

LEMMA NextKept == IInv /\ [Next]_vars => IInv'
  <1> SUFFICES ASSUME IInv, [Next]_vars PROVE IInv'
    OBVIOUS
  <1>1. ASSUME NEW m \in Machine,
               UserStep(m) \/ StartStep(m) \/ WorkStep(m) \/ FaultStep(m)
        PROVE  IInv'
    BY <1>1, UserKept, StartKept, WorkKept, FaultKept
  <1>2. QED
    BY <1>1, StutterKept DEF Next

\* Every value a command or a user can bring about is well typed: in
\* particular no command ever records an entry or acts upon a snapshot
\* with a hash that is missing.
THEOREM TypeCorrect == Spec => []TypeOK
  <1>1. IInv => TypeOK
    BY DEF IInv
  <1>2. QED
    BY InitKept, NextKept, <1>1, PTL DEF Spec

\* No command other than push --force-local replaces a version that its own
\* snapshot shows to be foreign, unless the user was asked first: whatever the
\* number of machines, and however their commands, the users' edits, failures
\* and crashes interleave.
THEOREM GuardedOverwriteHolds == Spec => GuardedOverwrite
  <1> DEFINE Safe == \A m \in Machine, f \in File :
                        Upload(m, f) /\ cmd[m] # "force" =>
                            \/ plan[m][f].drive = NoFile
                            \/ mem[m][f] # NoEntry /\ plan[m][f].drive = mem[m][f].remote
                            \/ shown[m][f] # None
  <1>1. IInv => Safe
    BY DEF IInv, Checked, Upload, At
  <1>2. IInv /\ [Next]_vars => [Safe]_vars
    BY <1>1
  <1>3. QED
    BY InitKept, NextKept, <1>2, PTL DEF Spec, GuardedOverwrite

-----------------------------------------------------------------------------
(* What a step about one file changes, and what it leaves alone.            *)

\* Only file f of machine m is affected, and no earlier stage gets it back.
About(m, f) ==
    /\ \A n \in Machine, g \in File : n # m \/ g # f =>
          /\ local'[n][g] = local[n][g] /\ disk'[n][g] = disk[n][g] /\ mem'[n][g] = mem[n][g]
          /\ plan'[n][g] = plan[n][g] /\ shown'[n][g] = shown[n][g]
          /\ g \in taken'[n] <=> g \in taken[n]
          /\ g \in lost'[n] <=> g \in lost[n]
          /\ \A s \in Stages : g \in todo'[n][s] <=> g \in todo[n][s]
    /\ \A s \in {"pull", "guard", "delete"} : todo'[m][s] \subseteq todo[m][s]
    /\ disk'[m][f] = disk[m][f]
    /\ \A g \in File \ {f} : remote'[g] = remote[g]
    /\ cmd' = cmd

\* The file leaves stage s, and is otherwise where it was.
Left(m, s, f) ==
    \A u \in Stages : f \in todo'[m][u] <=> f \in todo[m][u] /\ u # s

\* The file goes from stage s to stage t.
Moved(m, s, t, f) ==
    \A u \in Stages : f \in todo'[m][u] <=> u = t \/ (f \in todo[m][u] /\ u # s)

LEMMA DropLeft ==
    ASSUME IInv, NEW m \in Machine, NEW s \in Stages, NEW f \in File, Drop(m, s, f)
    PROVE  /\ Left(m, s, f)
           /\ \A n \in Machine, g \in File : n # m \/ g # f =>
                 \A u \in Stages : g \in todo'[n][u] <=> g \in todo[n][u]
           /\ \A u \in Stages : todo'[m][u] \subseteq todo[m][u]
  <1>1. PICK t \in Stages : s # t
    BY DEF Stages
  <1>2. /\ \A n \in Machine \ {m} : todo'[n] = todo[n]
        /\ \A u \in Stages \ {s, t} : todo'[m][u] = todo[m][u]
        /\ todo'[m][s] = todo[m][s] \ {f}
        /\ todo'[m][t] = todo[m][t]
    BY <1>1, MoveFacts DEF IInv
  <1>3. \A u \in Stages : todo'[m][u] = IF u = s THEN todo[m][u] \ {f} ELSE todo[m][u]
    BY <1>2
  <1> QED
    BY <1>2, <1>3 DEF Left

LEMMA MoveLeft ==
    ASSUME IInv, NEW m \in Machine, NEW s \in Stages, NEW t \in Stages, NEW f \in File,
           s # t, Move(m, s, t, f)
    PROVE  /\ Moved(m, s, t, f)
           /\ \A n \in Machine, g \in File : n # m \/ g # f =>
                 \A u \in Stages : g \in todo'[n][u] <=> g \in todo[n][u]
           /\ \A u \in Stages \ {t} : todo'[m][u] \subseteq todo[m][u]
  <1>1. todo' = [todo EXCEPT ![m] = [todo[m] EXCEPT ![s] = @ \ {f}, ![t] = @ \cup {f}]]
    BY DEF Move
  <1>2. /\ \A n \in Machine \ {m} : todo'[n] = todo[n]
        /\ \A u \in Stages : todo'[m][u] = IF u = t THEN todo[m][u] \cup {f}
                                           ELSE IF u = s THEN todo[m][u] \ {f} ELSE todo[m][u]
    BY <1>1 DEF IInv, TypeOK
  <1> QED
    BY <1>2 DEF Moved

LEMMA EditAbout ==
    ASSUME IInv, NEW m \in Machine, NEW f \in File, NEW c \in Content, Edit(m, f, c)
    PROVE  /\ About(m, f) /\ local'[m][f] = c /\ mem'[m][f] = mem[m][f]
           /\ used' = used \cup {c}
           /\ UNCHANGED <<remote, plan, shown, todo, ghosts>>
  BY DEF Edit, About, IInv, TypeOK, cmdVars, ghosts

LEMMA RemoveAbout ==
    ASSUME IInv, NEW m \in Machine, NEW f \in File, Remove(m, f)
    PROVE  /\ About(m, f) /\ local'[m][f] = NoFile /\ mem'[m][f] = mem[m][f]
           /\ UNCHANGED <<used, remote, plan, shown, todo, ghosts>>
  BY DEF Remove, About, IInv, TypeOK, cmdVars, ghosts

LEMMA PullFileAbout ==
    ASSUME IInv, NEW m \in Machine, NEW f \in File, PullFile(m, f)
    PROVE  /\ About(m, f) /\ Left(m, "pull", f) /\ f \in todo[m]["pull"] /\ remote[f] \in Content
           /\ local'[m][f] = remote[f]
           /\ mem'[m][f] = [synced |-> remote[f], remote |-> plan[m][f].drive, pending |-> Mirrored]
           /\ f \in taken'[m]
           /\ UNCHANGED <<used, remote, plan, shown, published, lost>>
  <1>1. /\ "pull" \in Stages /\ Drop(m, "pull", f) /\ f \in todo[m]["pull"] /\ remote[f] \in Content
        /\ local' = [local EXCEPT ![m][f] = remote[f]]
        /\ mem' = [mem EXCEPT ![m][f] = [synced |-> remote[f], remote |-> plan[m][f].drive,
                                         pending |-> Mirrored]]
        /\ taken' = [taken EXCEPT ![m] = @ \cup {f}]
        /\ UNCHANGED <<used, remote, disk, cmd, plan, shown, published, lost>>
    BY DEF PullFile, At, Remember, Take, Stages, IInv, TypeOK, Hash
  <1>2. /\ Left(m, "pull", f)
        /\ \A n \in Machine, g \in File : n # m \/ g # f =>
              \A u \in Stages : g \in todo'[n][u] <=> g \in todo[n][u]
        /\ \A u \in Stages : todo'[m][u] \subseteq todo[m][u]
    BY <1>1, DropLeft
  <1> QED
    BY <1>1, <1>2 DEF About, IInv, TypeOK, Stages

\* A file is given up, or put off until the conflicts: no data change.
LEMMA PutOffAbout ==
    ASSUME IInv, NEW m \in Machine, NEW s \in Stages \ {"again"}, NEW f \in File,
           Drop(m, s, f) \/ Move(m, s, "again", f),
           UNCHANGED <<userVars, remote, disk, mem, cmd, plan, shown, ghosts>>
    PROVE  /\ About(m, f) /\ (Left(m, s, f) \/ Moved(m, s, "again", f))
           /\ UNCHANGED <<local, used, remote, mem, plan, shown, ghosts>>
  <1>1. /\ \A u \in Stages \ {"again"} : todo'[m][u] \subseteq todo[m][u]
        /\ \A n \in Machine, g \in File : n # m \/ g # f =>
              \A u \in Stages : g \in todo'[n][u] <=> g \in todo[n][u]
        /\ Left(m, s, f) \/ Moved(m, s, "again", f)
    <2>1. CASE Drop(m, s, f)
      BY <2>1, DropLeft
    <2>2. CASE Move(m, s, "again", f)
      <3>1. "again" \in Stages /\ s # "again"
        BY DEF Stages
      <3> QED
        BY <2>2, <3>1, MoveLeft
    <2> QED
      BY <2>1, <2>2
  <1> QED
    BY <1>1 DEF About, userVars, ghosts, Stages

LEMMA GuardAbout ==
    ASSUME IInv, NEW m \in Machine, NEW f \in File, Guard(m, f)
    PROVE  /\ About(m, f) /\ f \in todo[m]["guard"] /\ todo[m]["pull"] = {}
           /\ \/ Moved(m, "guard", "again", f)
              \/ Moved(m, "guard", "upload", f) /\ plan'[m][f] = plan[m][f]
           /\ plan'[m][f] # None /\ plan'[m][f].local = plan[m][f].local
           /\ UNCHANGED <<local, used, remote, mem, shown, ghosts>>
  <1>1. /\ {"guard", "again", "upload"} \subseteq Stages
        /\ f \in todo[m]["guard"] /\ plan[m][f] \in Plan /\ todo[m]["pull"] = {}
        /\ UNCHANGED <<local, used, remote, disk, mem, cmd, shown, ghosts>>
    BY PlanAtHand DEF Guard, At, Reached, Stages, userVars
  <1>2. CASE Clashes(m, f)
    <2>1. /\ plan' = [plan EXCEPT ![m][f].status = "conflict", ![m][f].drive = GuardHash(m, f)]
          /\ Move(m, "guard", "again", f)
      BY <1>2 DEF Guard
    <2>2. /\ plan'[m][f] = [plan[m][f] EXCEPT !.status = "conflict", !.drive = GuardHash(m, f)]
          /\ \A n \in Machine, g \in File : n # m \/ g # f => plan'[n][g] = plan[n][g]
      BY <2>1 DEF IInv, TypeOK
    <2>3. GuardHash(m, f) \in Hash
      BY <1>1 DEF GuardHash, Plan, IInv, TypeOK
    <2>4. plan'[m][f] \in Plan /\ plan'[m][f].local = plan[m][f].local
      BY <1>1, <2>2, <2>3 DEF Plan, Status
    <2>5. /\ Moved(m, "guard", "again", f)
          /\ \A n \in Machine, g \in File : n # m \/ g # f =>
                \A u \in Stages : g \in todo'[n][u] <=> g \in todo[n][u]
          /\ \A u \in Stages \ {"again"} : todo'[m][u] \subseteq todo[m][u]
      BY <1>1, <2>1, MoveLeft
    <2> QED
      BY <1>1, <2>2, <2>4, <2>5, NullAssumption DEF About, ghosts, Stages
  <1>3. CASE ~Clashes(m, f)
    <2>1. plan' = plan /\ Move(m, "guard", "upload", f)
      BY <1>3 DEF Guard
    <2>2. /\ Moved(m, "guard", "upload", f)
          /\ \A n \in Machine, g \in File : n # m \/ g # f =>
                \A u \in Stages : g \in todo'[n][u] <=> g \in todo[n][u]
          /\ \A u \in Stages \ {"upload"} : todo'[m][u] \subseteq todo[m][u]
      BY <1>1, <2>1, MoveLeft
    <2> QED
      BY <1>1, <2>1, <2>2, NullAssumption DEF About, ghosts, Stages
  <1> QED
    BY <1>2, <1>3

LEMMA UploadAbout ==
    ASSUME IInv, NEW m \in Machine, NEW f \in File, Upload(m, f)
    PROVE  /\ About(m, f) /\ Moved(m, "upload", "record", f) /\ f \in todo[m]["upload"]
           /\ todo[m]["pull"] = {} /\ todo[m]["guard"] = {} /\ cmd[m] # "idle"
           /\ local[m][f] \in Content /\ remote'[f] = local[m][f]
           /\ published' = published \cup {local[m][f]}
           /\ UNCHANGED <<local, used, mem, plan, shown, taken, lost>>
  <1>1. /\ {"upload", "record"} \subseteq Stages /\ Move(m, "upload", "record", f)
        /\ f \in todo[m]["upload"] /\ todo[m]["pull"] = {} /\ todo[m]["guard"] = {}
        /\ cmd[m] # "idle" /\ local[m][f] \in Content
        /\ remote' = [remote EXCEPT ![f] = local[m][f]]
        /\ published' = published \cup {local[m][f]}
        /\ UNCHANGED <<local, used, disk, mem, cmd, plan, shown, taken, lost>>
    BY DEF Upload, At, Reached, Stages, userVars, IInv, TypeOK, Hash
  <1>2. /\ Moved(m, "upload", "record", f)
        /\ \A n \in Machine, g \in File : n # m \/ g # f =>
              \A u \in Stages : g \in todo'[n][u] <=> g \in todo[n][u]
        /\ \A u \in Stages \ {"record"} : todo'[m][u] \subseteq todo[m][u]
    BY <1>1, MoveLeft
  <1> QED
    BY <1>1, <1>2 DEF About, IInv, TypeOK, Stages

LEMMA RecordAbout ==
    ASSUME IInv, NEW m \in Machine, NEW f \in File, NEW late \in BOOLEAN, Record(m, f, late)
    PROVE  /\ About(m, f) /\ Left(m, "record", f) /\ f \in todo[m]["record"]
           /\ cmd[m] # "idle" /\ plan[m][f] # None /\ plan[m][f].local \in Content
           /\ mem'[m][f] = Recorded(m, f, late)
           /\ shown'[m][f] = None
           /\ UNCHANGED <<local, used, remote, plan, ghosts>>
  <1>1. /\ "record" \in Stages /\ Drop(m, "record", f) /\ f \in todo[m]["record"]
        /\ cmd[m] # "idle" /\ plan[m][f] \in Plan /\ plan[m][f].local \in Content
        /\ mem' = [mem EXCEPT ![m][f] = Recorded(m, f, late)]
        /\ shown' = [shown EXCEPT ![m][f] = None]
        /\ UNCHANGED <<local, used, remote, disk, cmd, plan, ghosts>>
    BY PlanAtHand DEF Record, At, Remember, Stages, userVars, Plan, Hash
  <1>2. /\ Left(m, "record", f)
        /\ \A n \in Machine, g \in File : n # m \/ g # f =>
              \A u \in Stages : g \in todo'[n][u] <=> g \in todo[n][u]
        /\ \A u \in Stages : todo'[m][u] \subseteq todo[m][u]
    BY <1>1, DropLeft
  <1> QED
    BY <1>1, <1>2, NullAssumption DEF About, IInv, TypeOK, Stages, ghosts

LEMMA DeleteRemoteAbout ==
    ASSUME IInv, NEW m \in Machine, NEW f \in File, DeleteRemote(m, f)
    PROVE  /\ About(m, f) /\ Left(m, "delete", f) /\ f \in todo[m]["delete"] /\ cmd[m] # "idle"
           /\ \A s \in {"pull", "guard", "upload", "record"} : todo[m][s] = {}
           /\ mem'[m][f] = NoEntry /\ remote'[f] = NoFile
           /\ UNCHANGED <<local, used, plan, shown, ghosts>>
  <1>1. /\ "delete" \in Stages /\ Drop(m, "delete", f) /\ f \in todo[m]["delete"] /\ cmd[m] # "idle"
        /\ \A s \in {"pull", "guard", "upload", "record"} : todo[m][s] = {}
        /\ mem' = [mem EXCEPT ![m][f] = NoEntry]
        /\ remote' = [remote EXCEPT ![f] = NoFile]
        /\ UNCHANGED <<local, used, disk, cmd, plan, shown, ghosts>>
    BY DEF DeleteRemote, At, Reached, Remember, Stages, userVars
  <1>2. /\ Left(m, "delete", f)
        /\ \A n \in Machine, g \in File : n # m \/ g # f =>
              \A u \in Stages : g \in todo'[n][u] <=> g \in todo[n][u]
        /\ \A u \in Stages : todo'[m][u] \subseteq todo[m][u]
    BY <1>1, DropLeft
  <1> QED
    BY <1>1, <1>2 DEF About, IInv, TypeOK, Stages, ghosts

\* While a conflict is asked about, only conflicts are left.
OnlyConflicts(m) == \A s \in {"pull", "guard", "upload", "record", "delete"} : todo[m][s] = {}

LEMMA ShowConflictAbout ==
    ASSUME IInv, NEW m \in Machine, NEW s \in {"conflict", "again"}, NEW f \in File,
           ShowConflict(m, s, f)
    PROVE  /\ About(m, f) /\ OnlyConflicts(m) /\ cmd[m] # "idle"
           /\ local[m][f] \in Content /\ remote[f] \in Content
           /\ shown'[m][f] = [local |-> local[m][f], drive |-> remote[f]]
           /\ UNCHANGED <<local, used, remote, mem, plan, todo, ghosts>>
  <1>1. /\ OnlyConflicts(m) /\ cmd[m] # "idle"
        /\ shown' = [shown EXCEPT ![m][f] = [local |-> local[m][f], drive |-> remote[f]]]
        /\ UNCHANGED <<local, used, remote, disk, mem, cmd, plan, todo, ghosts>>
    BY DEF ShowConflict, InConflict, At, Reached, OnlyConflicts, userVars
  <1>2. local[m][f] \in Content /\ remote[f] \in Content
    BY DEF ShowConflict, IInv, TypeOK, Hash
  <1> QED
    BY <1>1, <1>2 DEF About, IInv, TypeOK, ghosts

LEMMA AnswerSkipAbout ==
    ASSUME IInv, NEW m \in Machine, NEW s \in {"conflict", "again"}, NEW f \in File,
           AnswerSkip(m, s, f)
    PROVE  /\ About(m, f) /\ Left(m, s, f) /\ OnlyConflicts(m) /\ cmd[m] # "idle"
           /\ shown'[m][f] = None
           /\ UNCHANGED <<local, used, remote, mem, plan, ghosts>>
  <1>1. /\ s \in Stages /\ OnlyConflicts(m) /\ cmd[m] # "idle" /\ Drop(m, s, f)
        /\ shown' = [shown EXCEPT ![m][f] = None]
        /\ UNCHANGED <<local, used, remote, disk, mem, cmd, plan, ghosts>>
    BY DEF AnswerSkip, InConflict, At, Reached, OnlyConflicts, userVars, Stages
  <1>2. /\ Left(m, s, f)
        /\ \A n \in Machine, g \in File : n # m \/ g # f =>
              \A u \in Stages : g \in todo'[n][u] <=> g \in todo[n][u]
        /\ \A u \in Stages : todo'[m][u] \subseteq todo[m][u]
    BY <1>1, DropLeft
  <1> QED
    BY <1>1, <1>2 DEF About, IInv, TypeOK, ghosts, Stages

LEMMA AnswerDriveAbout ==
    ASSUME IInv, NEW m \in Machine, NEW s \in {"conflict", "again"}, NEW f \in File,
           NEW late \in BOOLEAN, AnswerDrive(m, s, f, late)
    PROVE  /\ About(m, f) /\ Left(m, s, f) /\ OnlyConflicts(m) /\ cmd[m] # "idle"
           /\ shown[m][f] # None /\ local'[m][f] = Text(shown[m][f].drive)
           /\ used' = used \cup {Text(shown[m][f].drive)}
           /\ mem'[m][f] = [synced  |-> Text(shown[m][f].drive),
                            remote  |-> IF plan[m][f].drive # NoFile THEN plan[m][f].drive
                                        ELSE Text(shown[m][f].drive),
                            pending |-> late]
           /\ shown'[m][f] = None /\ f \in taken'[m]
           /\ f \in lost[m] \/ plan[m][f].drive \notin {NoFile, shown[m][f].drive} => f \in lost'[m]
           /\ UNCHANGED <<remote, plan, published>>
  <1> DEFINE kept == Text(shown[m][f].drive)
             e == [synced  |-> kept,
                   remote  |-> IF plan[m][f].drive # NoFile THEN plan[m][f].drive ELSE kept,
                   pending |-> late]
  <1>1. /\ s \in Stages /\ OnlyConflicts(m) /\ cmd[m] # "idle" /\ Drop(m, s, f) /\ shown[m][f] # None
        /\ local' = [local EXCEPT ![m][f] = kept] /\ used' = used \cup {kept}
        /\ mem' = [mem EXCEPT ![m][f] = e]
        /\ shown' = [shown EXCEPT ![m][f] = None]
        /\ taken' = [taken EXCEPT ![m] = @ \cup {f}]
        /\ lost' = IF plan[m][f].drive \in {NoFile, shown[m][f].drive} THEN lost
                   ELSE [lost EXCEPT ![m] = @ \cup {f}]
        /\ UNCHANGED <<remote, disk, cmd, plan, published>>
    BY DEF AnswerDrive, InConflict, At, Reached, OnlyConflicts, Remember, Take, Stages
  <1>2. /\ Left(m, s, f)
        /\ \A n \in Machine, g \in File : n # m \/ g # f =>
              \A u \in Stages : g \in todo'[n][u] <=> g \in todo[n][u]
        /\ \A u \in Stages : todo'[m][u] \subseteq todo[m][u]
    BY <1>1, DropLeft
  <1> HIDE DEF e, kept
  <1>3. /\ \A n \in Machine, g \in File : n # m \/ g # f =>
              /\ local'[n][g] = local[n][g] /\ mem'[n][g] = mem[n][g] /\ shown'[n][g] = shown[n][g]
              /\ g \in taken'[n] <=> g \in taken[n]
        /\ local'[m][f] = kept /\ mem'[m][f] = e /\ shown'[m][f] = None /\ f \in taken'[m]
    BY <1>1 DEF IInv, TypeOK
  <1>4. /\ \A n \in Machine, g \in File : n # m \/ g # f => (g \in lost'[n] <=> g \in lost[n])
        /\ f \in lost[m] \/ plan[m][f].drive \notin {NoFile, shown[m][f].drive} => f \in lost'[m]
    BY <1>1 DEF IInv, TypeOK
  <1>5. About(m, f)
    BY <1>1, <1>2, <1>3, <1>4 DEF About, Stages
  <1> QED
    BY <1>1, <1>2, <1>3, <1>4, <1>5 DEF e, kept

LEMMA AnswerPushAbout ==
    ASSUME IInv, NEW m \in Machine, NEW s \in {"conflict", "again"},
           NEW f \in File, NEW c \in Content, AnswerPush(m, s, f, c)
    PROVE  /\ About(m, f) /\ Moved(m, s, "upload", f) /\ OnlyConflicts(m) /\ cmd[m] # "idle"
           /\ shown[m][f] # None /\ c \in Resolved(m, f)
           /\ local'[m][f] = c /\ used' = used \cup {c}
           /\ plan'[m][f] # None /\ plan'[m][f].local = c
           /\ UNCHANGED <<remote, mem, shown, ghosts>>
  <1>1. /\ s \in Stages /\ "upload" \in Stages /\ s # "upload" /\ OnlyConflicts(m) /\ cmd[m] # "idle"
        /\ Move(m, s, "upload", f) /\ shown[m][f] # None /\ plan[m][f] \in Plan
        /\ local' = [local EXCEPT ![m][f] = c] /\ used' = used \cup {c}
        /\ plan' = [plan EXCEPT ![m][f].local = c]
        /\ UNCHANGED <<remote, disk, mem, cmd, shown, ghosts>>
    BY PlanAtHand DEF AnswerPush, InConflict, At, Reached, OnlyConflicts, Stages
  <1>2. c \in Resolved(m, f)
    BY DEF AnswerPush
  <1>3. /\ Moved(m, s, "upload", f)
        /\ \A n \in Machine, g \in File : n # m \/ g # f =>
              \A u \in Stages : g \in todo'[n][u] <=> g \in todo[n][u]
        /\ \A u \in Stages \ {"upload"} : todo'[m][u] \subseteq todo[m][u]
    BY <1>1, MoveLeft
  <1>4. /\ \A n \in Machine, g \in File : n # m \/ g # f =>
              local'[n][g] = local[n][g] /\ plan'[n][g] = plan[n][g]
        /\ local'[m][f] = c /\ plan'[m][f] = [plan[m][f] EXCEPT !.local = c]
    BY <1>1 DEF IInv, TypeOK
  <1>5. plan'[m][f] \in Plan /\ plan'[m][f].local = c
    BY <1>1, <1>4 DEF Plan, Hash
  <1>6. About(m, f)
    BY <1>1, <1>3, <1>4 DEF About, ghosts, Stages
  <1> QED
    BY <1>1, <1>2, <1>3, <1>4, <1>5, <1>6, NullAssumption DEF ghosts

\* Where files are text and edits are new, the remote side is kept as it was
\* shown, and what is pushed is the local side as shown, or new.
LEMMA TextKept == ASSUME Binary = {}, NEW c PROVE Text(c) = c
  BY DEF Text

LEMMA ResolvedFacts ==
    ASSUME Binary = {}, FreshEdits, NEW m, NEW f, NEW c \in Resolved(m, f)
    PROVE  c \notin used \/ c = shown[m][f].local
  BY DEF Resolved, Text

-----------------------------------------------------------------------------
(* A pull spares edits, and what is in sync has been published.  Where every *)
(* edit is a new content and files are text, for commands that overlap.      *)

\* Where contents come from.
Sources ==
    /\ published \subseteq used
    /\ \A f \in File : remote[f] \in published \cup {NoFile}
    /\ \A m \in Machine, f \in File :
          /\ local[m][f] \in used \cup {NoFile}
          /\ plan[m][f] # None => plan[m][f].local \in used \cup {NoFile}
          /\ shown[m][f] # None => shown[m][f].local \in used /\ shown[m][f].drive \in published

\* c has existed, and comes back to the working copy of m only from the primary.
Gone(m, f, c) ==
    /\ c \in used \ {local[m][f]}
    /\ shown[m][f] # None => c # shown[m][f].local

\* What an entry calls the local content at the last sync, and a plan to pull or
\* to record calls that at the start of the command, is published or gone.
Known(m, f) ==
    /\ disk[m][f] # NoEntry => disk[m][f].synced \in published \/ Gone(m, f, disk[m][f].synced)
    /\ mem[m][f] # NoEntry => mem[m][f].synced \in published \/ Gone(m, f, mem[m][f].synced)
    /\ f \in todo[m]["pull"] \cup todo[m]["record"] =>
          plan[m][f].local \in published \cup {NoFile} \/ plan[m][f].local # local[m][f]

KInv == IInv /\ Sources /\ \A m \in Machine, f \in File : Known(m, f)

\* A step brings to the working copy what is published, what is new, or what the
\* user was shown as the local side.
Brings(m, f) ==
    /\ \/ local'[m][f] = local[m][f]
       \/ local'[m][f] \in published \cup {NoFile}
       \/ local'[m][f] \in used' \ used
       \/ /\ shown[m][f] # None /\ local'[m][f] = shown[m][f].local
          /\ f \notin todo'[m]["pull"] \cup todo'[m]["record"]
    /\ \/ shown'[m][f] \in {shown[m][f], None}
       \/ local'[m][f] # NoFile /\ remote[f] # NoFile
          /\ shown'[m][f] = [local |-> local'[m][f], drive |-> remote[f]]
    /\ plan'[m][f] # None => \/ plan'[m][f].local \in {local[m][f], local'[m][f]}
                             \/ plan[m][f] # None /\ plan'[m][f].local = plan[m][f].local

\* A step writes an entry about what is published, or one that says what was
\* planned; what is planned is published, unless it is not there any more.
Writes(m, f) ==
    /\ disk'[m][f] \in {disk[m][f], mem[m][f]}
    /\ \/ mem'[m][f] \in {disk[m][f], mem[m][f], NoEntry}
       \/ mem'[m][f].synced \in published
       \/ /\ f \in todo[m]["record"] /\ mem'[m][f].synced = plan[m][f].local
          /\ plan[m][f] # None /\ plan[m][f].local # NoFile
          /\ shown'[m][f] = None /\ local'[m][f] = local[m][f]
    /\ f \in todo'[m]["pull"] \cup todo'[m]["record"] =>
          \/ /\ f \in todo[m]["pull"] \cup todo[m]["record"]
             /\ plan[m][f] # None /\ plan'[m][f].local = plan[m][f].local
          \/ plan'[m][f].local \in published' \cup {NoFile}
          \/ plan'[m][f].local # local'[m][f]

LEMMA KnownKept ==
    ASSUME KInv, used \subseteq used', published \subseteq published',
           NEW m \in Machine, NEW f \in File, Brings(m, f), Writes(m, f)
    PROVE  Known(m, f)'
  <1>1. TypeOK /\ Known(m, f)
    BY DEF KInv, IInv
  <1> DEFINE Fine(c) == \/ c \in published'
                         \/ /\ c \in used' \ {local'[m][f]}
                            /\ shown'[m][f] # None => c # shown'[m][f].local
  <1>2. ASSUME NEW c \in Content, c \in published \/ Gone(m, f, c)
        PROVE  Fine(c)
    <2>1. c \notin published => c # local'[m][f]
      BY <1>2, DataAssumption DEF Brings, Gone
    <2>2. c \notin published /\ shown'[m][f] # None => c # shown'[m][f].local
      BY <1>2, <2>1 DEF Brings, Gone
    <2> QED
      BY <1>2, <2>1, <2>2 DEF Gone
  <1>3. /\ disk[m][f] # NoEntry => disk[m][f].synced \in Content /\ Fine(disk[m][f].synced)
        /\ mem[m][f] # NoEntry => mem[m][f].synced \in Content /\ Fine(mem[m][f].synced)
    BY <1>1, <1>2 DEF Known, TypeOK, Entry
  <1>4. disk'[m][f] # NoEntry => Fine(disk'[m][f].synced)
    BY <1>3 DEF Writes
  <1>5. ASSUME f \in todo[m]["record"], plan[m][f] # None, plan[m][f].local # NoFile,
               shown'[m][f] = None, local'[m][f] = local[m][f]
        PROVE  Fine(plan[m][f].local)
    BY <1>1, <1>5 DEF Known, KInv, Sources
  <1>6. mem'[m][f] # NoEntry => Fine(mem'[m][f].synced)
    BY <1>3, <1>5 DEF Writes
  <1>7. ASSUME f \in todo'[m]["pull"] \cup todo'[m]["record"],
               plan[m][f] # None, plan'[m][f].local = plan[m][f].local,
               f \in todo[m]["pull"] \cup todo[m]["record"]
        PROVE  plan'[m][f].local \in published' \cup {NoFile} \/ plan'[m][f].local # local'[m][f]
    <2>1. plan[m][f].local \in published \cup {NoFile} \/ plan[m][f].local # local[m][f]
      BY <1>1, <1>7 DEF Known
    <2>2. plan[m][f].local \in used \cup {NoFile}
      BY <1>7 DEF KInv, Sources
    <2> QED
      BY <1>7, <2>1, <2>2 DEF Brings
  <1>8. f \in todo'[m]["pull"] \cup todo'[m]["record"] =>
            plan'[m][f].local \in published' \cup {NoFile} \/ plan'[m][f].local # local'[m][f]
    BY <1>7 DEF Writes
  <1> QED
    BY <1>4, <1>6, <1>8 DEF Known, Gone

\* It is enough to look at the file a step is about.
LEMMA StepKnown ==
    ASSUME KInv, IInv', used \subseteq used', published \subseteq published', published' \subseteq used',
           \A g \in File : remote'[g] \in published' \cup {NoFile},
           \A m \in Machine, f \in File : Brings(m, f) /\ Writes(m, f)
    PROVE  KInv'
  <1>1. ASSUME NEW m \in Machine, NEW f \in File
        PROVE  /\ local'[m][f] \in used' \cup {NoFile}
               /\ plan'[m][f] # None => plan'[m][f].local \in used' \cup {NoFile}
               /\ shown'[m][f] # None => /\ shown'[m][f].local \in used'
                                         /\ shown'[m][f].drive \in published'
    <2>1. Brings(m, f)
      OBVIOUS
    <2>2. /\ remote[f] \in published \cup {NoFile} /\ published \subseteq used
          /\ local[m][f] \in used \cup {NoFile}
          /\ plan[m][f] # None => plan[m][f].local \in used \cup {NoFile}
          /\ shown[m][f] # None => shown[m][f].local \in used /\ shown[m][f].drive \in published
      BY DEF KInv, Sources
    <2>3. local'[m][f] \in used' \cup {NoFile}
      BY <2>1, <2>2 DEF Brings
    <2>4. plan'[m][f] # None => plan'[m][f].local \in used' \cup {NoFile}
      BY <2>1, <2>2, <2>3 DEF Brings
    <2>5. shown'[m][f] # None => shown'[m][f].local \in used' /\ shown'[m][f].drive \in published'
      BY <2>1, <2>2, <2>3 DEF Brings
    <2> QED
      BY <2>3, <2>4, <2>5
  <1>2. Sources'
    BY <1>1 DEF Sources
  <1>3. \A m \in Machine, f \in File : Known(m, f)'
    BY KnownKept
  <1> QED
    BY <1>2, <1>3 DEF KInv

LEMMA AboutKnown ==
    ASSUME KInv, IInv', used \subseteq used', published \subseteq published', published' \subseteq used',
           NEW m \in Machine, NEW f \in File, About(m, f),
           remote'[f] \in published' \cup {NoFile}, Brings(m, f), Writes(m, f)
    PROVE  KInv'
  <1>1. ASSUME NEW n \in Machine, NEW g \in File, n # m \/ g # f
        PROVE  Brings(n, g) /\ Writes(n, g)
    <2>1. /\ local'[n][g] = local[n][g] /\ disk'[n][g] = disk[n][g] /\ mem'[n][g] = mem[n][g]
          /\ plan'[n][g] = plan[n][g] /\ shown'[n][g] = shown[n][g]
          /\ \A s \in Stages : g \in todo'[n][s] <=> g \in todo[n][s]
      BY <1>1 DEF About
    <2>2. g \in todo[n]["pull"] \cup todo[n]["record"] => plan[n][g] # None
      BY NullAssumption DEF KInv, IInv, Planned, Stages
    <2> QED
      BY <2>1, <2>2 DEF Brings, Writes, Stages
  <1>2. \A g \in File : remote'[g] \in published' \cup {NoFile}
    BY DEF About, KInv, Sources
  <1> QED
    BY <1>1, <1>2, StepKnown

LEMMA UserKnown ==
    ASSUME KInv, FreshEdits, NEW m \in Machine, UserStep(m) PROVE KInv'
  <1>1. IInv /\ IInv'
    BY UserKept DEF KInv
  <1>2. PICK f \in File : Remove(m, f) \/ \E c \in Content : Edit(m, f, c)
    BY DEF UserStep
  <1>3. f \in todo[m]["pull"] \cup todo[m]["record"] => plan[m][f] # None
    BY NullAssumption DEF KInv, IInv, Planned, Stages
  <1>4. CASE Remove(m, f)
    <2>1. /\ About(m, f) /\ local'[m][f] = NoFile /\ mem'[m][f] = mem[m][f]
          /\ UNCHANGED <<used, remote, plan, shown, todo, published>>
      BY <1>1, <1>4, RemoveAbout DEF ghosts
    <2>2. Brings(m, f) /\ Writes(m, f)
      BY <1>3, <2>1 DEF Brings, Writes, About
    <2> QED
      BY <1>1, <2>1, <2>2, AboutKnown DEF KInv, Sources
  <1>5. ASSUME NEW c \in Content, Edit(m, f, c) PROVE KInv'
    <2>1. /\ About(m, f) /\ local'[m][f] = c /\ mem'[m][f] = mem[m][f]
          /\ used' = used \cup {c}
          /\ UNCHANGED <<remote, plan, shown, todo, published>>
      BY <1>1, <1>5, EditAbout DEF ghosts
    <2>2. c \notin used
      BY <1>5 DEF Edit
    <2>3. Brings(m, f) /\ Writes(m, f)
      BY <1>3, <2>1, <2>2 DEF Brings, Writes, About
    <2> QED
      BY <1>1, <2>1, <2>3, AboutKnown DEF KInv, Sources
  <1> QED
    BY <1>2, <1>4, <1>5

LEMMA PullFileKnown ==
    ASSUME KInv, NEW m \in Machine, NEW f \in File, PullFile(m, f) PROVE KInv'
  <1>1. IInv /\ IInv'
    BY PullFileKept DEF KInv
  <1>2. /\ About(m, f) /\ Left(m, "pull", f) /\ f \in todo[m]["pull"] /\ remote[f] \in Content
        /\ local'[m][f] = remote[f]
        /\ mem'[m][f] = [synced |-> remote[f], remote |-> plan[m][f].drive, pending |-> Mirrored]
        /\ UNCHANGED <<used, remote, plan, shown, published>>
    BY <1>1, PullFileAbout
  <1>3. remote[f] \in published
    BY <1>2, DataAssumption DEF KInv, Sources
  <1>4. plan[m][f] # None
    BY <1>2, NullAssumption DEF KInv, IInv, Planned, Stages
  <1>5. Brings(m, f) /\ Writes(m, f)
    BY <1>2, <1>3, <1>4 DEF Brings, Writes, About, Left, Stages
  <1> QED
    BY <1>1, <1>2, <1>5, AboutKnown DEF KInv, Sources

LEMMA GuardKnown ==
    ASSUME KInv, NEW m \in Machine, NEW f \in File, Guard(m, f) PROVE KInv'
  <1>1. IInv /\ IInv'
    BY GuardKept DEF KInv
  <1>2. /\ About(m, f) /\ f \in todo[m]["guard"]
        /\ Moved(m, "guard", "again", f) \/ Moved(m, "guard", "upload", f)
        /\ plan'[m][f] # None /\ plan'[m][f].local = plan[m][f].local
        /\ UNCHANGED <<local, used, remote, mem, shown, published>>
    BY <1>1, GuardAbout DEF ghosts
  <1>3. plan[m][f] # None
    BY <1>2, NullAssumption DEF KInv, IInv, Planned, Stages
  <1>4. Brings(m, f) /\ Writes(m, f)
    BY <1>2, <1>3 DEF Brings, Writes, About, Moved, Stages
  <1> QED
    BY <1>1, <1>2, <1>4, AboutKnown DEF KInv, Sources

LEMMA UploadKnown ==
    ASSUME KInv, NEW m \in Machine, NEW f \in File, Upload(m, f) PROVE KInv'
  <1>1. IInv /\ IInv'
    BY UploadKept DEF KInv
  <1>2. /\ About(m, f) /\ Moved(m, "upload", "record", f) /\ f \in todo[m]["upload"]
        /\ local[m][f] \in Content /\ remote'[f] = local[m][f]
        /\ published' = published \cup {local[m][f]}
        /\ UNCHANGED <<local, used, mem, plan, shown>>
    BY <1>1, UploadAbout
  <1>3. plan[m][f] # None
    BY <1>2, NullAssumption DEF KInv, IInv, Planned, Stages
  <1>4. Brings(m, f) /\ Writes(m, f)
    BY <1>2, <1>3 DEF Brings, Writes, About, Moved, Stages
  <1>5. local[m][f] \in used
    BY <1>2, DataAssumption DEF KInv, Sources
  <1> QED
    BY <1>1, <1>2, <1>4, <1>5, AboutKnown DEF KInv, Sources

LEMMA RecordKnown ==
    ASSUME KInv, NEW m \in Machine, NEW f \in File, NEW late \in BOOLEAN, Record(m, f, late)
    PROVE  KInv'
  <1>1. IInv /\ IInv'
    BY RecordKept DEF KInv
  <1>2. /\ About(m, f) /\ Left(m, "record", f) /\ f \in todo[m]["record"]
        /\ plan[m][f] # None /\ plan[m][f].local \in Content
        /\ mem'[m][f] = Recorded(m, f, late)
        /\ shown'[m][f] = None
        /\ UNCHANGED <<local, used, remote, plan, published>>
    BY <1>1, RecordAbout DEF ghosts
  <1> mem'[m][f].synced = plan[m][f].local
    BY <1>2 DEF Recorded
  <1>3. Brings(m, f) /\ Writes(m, f)
    BY <1>2, DataAssumption DEF Brings, Writes, About, Left, Stages
  <1> QED
    BY <1>1, <1>2, <1>3, AboutKnown DEF KInv, Sources

LEMMA DeleteRemoteKnown ==
    ASSUME KInv, NEW m \in Machine, NEW f \in File, DeleteRemote(m, f) PROVE KInv'
  <1>1. IInv /\ IInv'
    BY DeleteRemoteKept DEF KInv
  <1>2. /\ About(m, f) /\ Left(m, "delete", f) /\ f \in todo[m]["delete"]
        /\ mem'[m][f] = NoEntry /\ remote'[f] = NoFile
        /\ UNCHANGED <<local, used, plan, shown, published>>
    BY <1>1, DeleteRemoteAbout DEF ghosts
  <1>3. plan[m][f] # None
    BY <1>2, NullAssumption DEF KInv, IInv, Planned, Stages
  <1>4. Brings(m, f) /\ Writes(m, f)
    BY <1>2, <1>3 DEF Brings, Writes, About, Left, Stages
  <1> QED
    BY <1>1, <1>2, <1>4, AboutKnown DEF KInv, Sources

LEMMA ConflictKnown ==
    ASSUME KInv, FreshEdits, Binary = {}, NEW m \in Machine, NEW s \in {"conflict", "again"},
           NEW f \in File, ConflictStep(m, s, f)
    PROVE  KInv'
  <1>1. IInv
    BY DEF KInv
  <1>2. f \in todo[m]["pull"] \cup todo[m]["record"] => plan[m][f] # None
    BY NullAssumption DEF KInv, IInv, Planned, Stages
  <1>3. CASE ShowConflict(m, s, f)
    <2>1. /\ IInv' /\ About(m, f) /\ local[m][f] # NoFile /\ remote[f] # NoFile
          /\ shown'[m][f] = [local |-> local[m][f], drive |-> remote[f]]
          /\ UNCHANGED <<local, used, remote, mem, plan, todo, published>>
      BY <1>1, <1>3, ShowConflictKept, ShowConflictAbout, DataAssumption DEF ghosts
    <2>2. Brings(m, f) /\ Writes(m, f)
      BY <1>2, <2>1 DEF Brings, Writes, About
    <2> QED
      BY <2>1, <2>2, AboutKnown DEF KInv, Sources
  <1>4. CASE AnswerSkip(m, s, f)
    <2>1. /\ IInv' /\ About(m, f) /\ Left(m, s, f) /\ shown'[m][f] = None
          /\ UNCHANGED <<local, used, remote, mem, plan, published>>
      BY <1>1, <1>4, AnswerSkipKept, AnswerSkipAbout DEF ghosts
    <2>2. Brings(m, f) /\ Writes(m, f)
      BY <1>2, <2>1 DEF Brings, Writes, About, Left, Stages
    <2> QED
      BY <2>1, <2>2, AboutKnown DEF KInv, Sources
  <1>5. ASSUME NEW late \in BOOLEAN, AnswerDrive(m, s, f, late) PROVE KInv'
    <2>1. /\ IInv' /\ About(m, f) /\ Left(m, s, f)
          /\ shown[m][f] # None /\ local'[m][f] = shown[m][f].drive
          /\ used' = used \cup {shown[m][f].drive}
          /\ mem'[m][f] = [synced  |-> shown[m][f].drive,
                           remote  |-> IF plan[m][f].drive # NoFile THEN plan[m][f].drive
                                       ELSE shown[m][f].drive,
                           pending |-> late]
          /\ shown'[m][f] = None
          /\ UNCHANGED <<remote, plan, published>>
      BY <1>1, <1>5, AnswerDriveKept, AnswerDriveAbout, TextKept
    <2>2. shown[m][f].drive \in published
      BY <2>1 DEF KInv, Sources
    <2>3. Brings(m, f) /\ Writes(m, f)
      BY <1>2, <2>1, <2>2 DEF Brings, Writes, About, Left, Stages
    <2> QED
      BY <2>1, <2>2, <2>3, AboutKnown DEF KInv, Sources
  <1>6. ASSUME NEW c \in Content, AnswerPush(m, s, f, c) PROVE KInv'
    <2>1. /\ IInv' /\ About(m, f) /\ Moved(m, s, "upload", f) /\ OnlyConflicts(m)
          /\ shown[m][f] # None /\ c \in Resolved(m, f)
          /\ local'[m][f] = c /\ used' = used \cup {c}
          /\ plan'[m][f] # None /\ plan'[m][f].local = c
          /\ UNCHANGED <<remote, mem, shown, published>>
      BY <1>1, <1>6, AnswerPushKept, AnswerPushAbout DEF ghosts
    <2>2. f \notin todo'[m]["pull"] \cup todo'[m]["record"]
      <3>1. /\ f \in todo'[m]["pull"] => f \in todo[m]["pull"]
            /\ f \in todo'[m]["record"] => f \in todo[m]["record"]
        BY <2>1 DEF Moved, Stages
      <3>2. todo[m]["pull"] = {} /\ todo[m]["record"] = {}
        BY <2>1 DEF OnlyConflicts
      <3> QED
        BY <3>1, <3>2
    <2>3. c \notin used \/ c = shown[m][f].local
      BY <2>1, ResolvedFacts
    <2>4. Brings(m, f) /\ Writes(m, f)
      BY <2>1, <2>2, <2>3 DEF Brings, Writes, About
    <2> QED
      BY <2>1, <2>4, AboutKnown DEF KInv, Sources
  <1> QED
    BY <1>3, <1>4, <1>5, <1>6 DEF ConflictStep

\* A file is pulled over local content only when the last sync left it there.
LEMMA StartKnown ==
    ASSUME KInv, NEW m \in Machine, StartStep(m) PROVE KInv'
  <1>1. IInv /\ IInv' /\ TypeOK /\ TypeOK'
    BY StartKept DEF KInv, IInv
  <1>2. PICK k \in Commands, scope \in SUBSET File : Start(m, k, scope)
    BY DEF StartStep
  <1> DEFINE P == Snapshot(m)
             T == InitialTodo(m, k, scope, P)
  <1>3. /\ mem' = [mem EXCEPT ![m] = disk[m]]
        /\ plan' = [plan EXCEPT ![m] = P]
        /\ todo' = [todo EXCEPT ![m] = T]
        /\ UNCHANGED <<local, used, remote, disk, shown, published>>
    BY <1>2 DEF Start, userVars, ghosts
  <1>4. k \in {"sync", "push", "force", "pull"}
    BY ModeAssumption
  <1>5. T["record"] = {} /\ T["pull"] \subseteq Having(P, {"drive_ahead", "new_drive"})
    BY <1>4 DEF InitialTodo, NoTodo, Stages
  <1>6. \A f \in File : P[f] # None =>
           /\ P[f].local = local[m][f]
           /\ P[f].status = Classify(local[m][f], remote[f], disk[m][f])
    BY DEF Snapshot
  <1>7. ASSUME NEW f \in File, f \in T["pull"]
        PROVE  P[f].local \in published \cup {NoFile}
    <2>1. P[f] # None /\ Classify(local[m][f], remote[f], disk[m][f]) \in {"drive_ahead", "new_drive"}
      BY <1>5, <1>6, <1>7, HavingFacts
    <2>2. local[m][f] = NoFile \/ (disk[m][f] # NoEntry /\ local[m][f] = disk[m][f].synced)
      BY <2>1 DEF Classify, FirstSeen, SinceSync
    <2>3. disk[m][f] # NoEntry => disk[m][f].synced \in published \/ disk[m][f].synced # local[m][f]
      BY DEF KInv, Known, Gone
    <2> QED
      BY <1>6, <2>1, <2>2, <2>3
  <1> HIDE DEF P, T
  <1>8. ASSUME NEW n \in Machine, NEW f \in File
        PROVE  Brings(n, f) /\ Writes(n, f)
    <2>1. CASE n = m
      <3>1. /\ plan'[n][f] = P[f] /\ mem'[n][f] = disk[n][f]
            /\ todo'[n]["pull"] = T["pull"] /\ todo'[n]["record"] = T["record"]
        BY <1>1, <1>3, <2>1 DEF TypeOK
      <3> QED
        BY <1>3, <1>5, <1>6, <1>7, <2>1, <3>1 DEF Brings, Writes
    <2>2. CASE n # m
      <3>1. plan'[n] = plan[n] /\ mem'[n] = mem[n] /\ todo'[n] = todo[n]
        BY <1>1, <1>3, <2>2 DEF TypeOK
      <3>2. f \in todo[n]["pull"] \cup todo[n]["record"] => plan[n][f] # None
        BY NullAssumption DEF KInv, IInv, Planned, Stages
      <3> QED
        BY <1>3, <3>1, <3>2 DEF Brings, Writes
    <2> QED
      BY <2>1, <2>2
  <1> QED
    BY <1>1, <1>3, <1>8, StepKnown DEF KInv, Sources

LEMMA StopKnown ==
    ASSUME KInv, IInv', NEW m \in Machine, Stop(m),
           UNCHANGED <<local, used, remote, published>>,
           disk' = disk \/ disk' = [disk EXCEPT ![m] = mem[m]]
    PROVE  KInv'
  <1>1. TypeOK
    BY DEF KInv, IInv
  <1>2. ASSUME NEW n \in Machine, NEW f \in File
        PROVE  Brings(n, f) /\ Writes(n, f)
    <2>1. disk'[n][f] \in {disk[n][f], mem[n][f]}
      <3>1. CASE disk' = disk
        BY <3>1
      <3>2. CASE disk' = [disk EXCEPT ![m] = mem[m]]
        BY <1>1, <3>2 DEF TypeOK
      <3> QED
        BY <3>1, <3>2
    <2>2. CASE n = m
      <3>1. /\ mem'[n][f] = NoEntry /\ plan'[n][f] = None /\ shown'[n][f] = None
            /\ \A s \in Stages : todo'[n][s] = {}
        BY <1>1, <2>2 DEF Stop, TypeOK, NoEntries, Nothing, NoTodo
      <3> QED
        BY <2>1, <3>1 DEF Brings, Writes, Stages
    <2>3. CASE n # m
      <3>1. plan'[n] = plan[n] /\ mem'[n] = mem[n] /\ todo'[n] = todo[n] /\ shown'[n] = shown[n]
        BY <1>1, <2>3 DEF Stop, TypeOK
      <3>2. f \in todo[n]["pull"] \cup todo[n]["record"] => plan[n][f] # None
        BY NullAssumption DEF KInv, IInv, Planned, Stages
      <3> QED
        BY <2>1, <3>1, <3>2 DEF Brings, Writes
    <2> QED
      BY <2>2, <2>3
  <1> QED
    BY <1>2, StepKnown DEF KInv, Sources

\* A failed transfer of a file costs the file its stage, or ends the command.
LEMMA PutOffKnown ==
    ASSUME KInv, IInv', NEW m \in Machine, NEW s \in Stages \ {"again"}, NEW f \in File,
           f \in todo[m][s], Drop(m, s, f) \/ Move(m, s, "again", f),
           UNCHANGED <<userVars, remote, disk, mem, cmd, plan, shown, ghosts>>
    PROVE  KInv'
  <1>1. /\ About(m, f) /\ (Left(m, s, f) \/ Moved(m, s, "again", f))
        /\ UNCHANGED <<local, used, remote, disk, mem, plan, shown, published>>
    BY PutOffAbout DEF KInv, userVars, ghosts
  <1>2. f \in todo'[m]["pull"] \cup todo'[m]["record"] => f \in todo[m]["pull"] \cup todo[m]["record"]
    BY <1>1 DEF Left, Moved, Stages
  <1>3. plan[m][f] # None
    BY NullAssumption DEF KInv, IInv, Planned
  <1>4. Brings(m, f) /\ Writes(m, f)
    BY <1>1, <1>2, <1>3 DEF Brings, Writes
  <1> QED
    BY <1>1, <1>4, AboutKnown DEF KInv, Sources

LEMMA FaultKnown ==
    ASSUME KInv, NEW m \in Machine, FaultStep(m) PROVE KInv'
  <1>1. IInv'
    BY FaultKept DEF KInv
  <1>2. Abandon(m) /\ UNCHANGED <<userVars, remote>> => KInv'
    BY <1>1, StopKnown DEF Abandon, userVars
  <1>3. ASSUME NEW f \in File, NEW s \in {"upload", "record"}, f \in todo[m][s], PushFails(m, f, s)
        PROVE  KInv'
    <2>1. CASE Abandon(m)
      BY <1>2, <1>3, <2>1 DEF PushFails
    <2>2. CASE ~Abandon(m)
      <3>1. /\ Drop(m, s, f)
            /\ UNCHANGED <<userVars, remote, disk, mem, cmd, plan, shown, ghosts>>
        BY <1>3, <2>2 DEF PushFails
      <3>2. s \in Stages \ {"again"}
        BY DEF Stages
      <3> QED
        BY <1>1, <1>3, <3>1, <3>2, PutOffKnown
    <2> QED
      BY <2>1, <2>2
  <1>4. CASE Crash(m)
    BY <1>2, <1>4 DEF Crash
  <1>5. ASSUME NEW f \in File,
               \/ PullFail(m, f) \/ GuardFail(m, f) \/ UploadFail(m, f)
               \/ RecordFail(m, f) \/ DeleteFail(m, f)
               \/ \E s \in {"conflict", "again"} : ConflictUnreadable(m, s, f)
        PROVE  KInv'
    <2> {"pull", "guard", "delete"} \subseteq Stages \ {"again"}
      BY DEF Stages
    <2>1. CASE PullFail(m, f)
      BY <1>1, <2>1, PutOffKnown DEF PullFail, At
    <2>2. CASE GuardFail(m, f)
      BY <1>1, <2>2, PutOffKnown DEF GuardFail, At
    <2>3. CASE UploadFail(m, f)
      BY <1>3, <2>3 DEF UploadFail, At
    <2>4. CASE RecordFail(m, f)
      BY <1>3, <2>4 DEF RecordFail, At
    <2>5. CASE DeleteFail(m, f)
      BY <1>1, <2>5, PutOffKnown DEF DeleteFail, At
    <2>6. CASE \E s \in {"conflict", "again"} : ConflictUnreadable(m, s, f)
      BY <1>2, <2>6 DEF ConflictUnreadable
    <2> QED
      BY <1>5, <2>1, <2>2, <2>3, <2>4, <2>5, <2>6
  <1> QED
    BY <1>4, <1>5 DEF FaultStep

LEMMA WorkKnown ==
    ASSUME KInv, FreshEdits, Binary = {}, NEW m \in Machine, WorkStep(m) PROVE KInv'
  <1>1. CASE Save(m)
    <2>1. IInv'
      BY <1>1, SaveKept DEF KInv
    <2> QED
      BY <1>1, <2>1, StopKnown DEF Save, userVars
  <1>2. CASE ~Save(m)
    <2>1. PICK f \in File :
            \/ PullFile(m, f) \/ Guard(m, f) \/ Upload(m, f)
            \/ \E late \in BOOLEAN : Record(m, f, late)
            \/ DeleteRemote(m, f)
            \/ \E s \in {"conflict", "again"} : ConflictStep(m, s, f)
      BY <1>2 DEF WorkStep
    <2> QED
      BY <2>1, PullFileKnown, GuardKnown, UploadKnown, RecordKnown, DeleteRemoteKnown, ConflictKnown
  <1> QED
    BY <1>1, <1>2

LEMMA InitKnown == Init => KInv
  <1> SUFFICES ASSUME Init PROVE KInv
    OBVIOUS
  <1>1. IInv
    BY InitKept
  <1>2. ASSUME NEW m \in Machine, NEW f \in File
        PROVE  /\ local[m][f] = NoFile /\ disk[m][f] = NoEntry /\ mem[m][f] = NoEntry
               /\ plan[m][f] = None /\ shown[m][f] = None /\ remote[f] = NoFile
               /\ \A s \in Stages : todo[m][s] = {}
    BY DEF Init, NoEntries, Nothing, NoTodo
  <1>3. Sources
    <2>1. published = {} /\ used = {} /\ \A f \in File : remote[f] = NoFile
      BY DEF Init
    <2> QED
      BY <1>2, <2>1 DEF Sources
  <1>4. ASSUME NEW m \in Machine, NEW f \in File PROVE Known(m, f)
    BY <1>2 DEF Known, Stages
  <1> QED
    BY <1>1, <1>3, <1>4 DEF KInv

LEMMA NextKnown ==
    ASSUME FreshEdits, Binary = {} PROVE KInv /\ [Next]_vars => KInv'
  <1> SUFFICES ASSUME KInv, [Next]_vars PROVE KInv'
    OBVIOUS
  <1>1. CASE UNCHANGED vars
    <2>1. IInv'
      BY <1>1, StutterKept DEF KInv
    <2> QED
      BY <1>1, <2>1 DEF KInv, Sources, Known, Gone, vars, userVars, cmdVars, ghosts
  <1>2. ASSUME NEW m \in Machine,
               UserStep(m) \/ StartStep(m) \/ WorkStep(m) \/ FaultStep(m)
        PROVE  KInv'
    BY <1>2, UserKnown, StartKnown, WorkKnown, FaultKnown
  <1> QED
    BY <1>1, <1>2 DEF Next

\* A pull never replaces work that exists nowhere else, however commands of any
\* number of machines overlap, transfers fail and commands are killed, where
\* every edit yields a content never seen before and files are text.  (A content
\* that comes back, by an edit or by the text conversion of a conflict, may be
\* taken for the one of the last sync although it was never published.)
THEOREM PullSparesEditsHolds ==
    ASSUME FreshEdits, Binary = {} PROVE Spec => PullSparesEdits
  <1> DEFINE Spares == \A m \in Machine, f \in File :
                          PullFile(m, f) => \/ local[m][f] \in published \cup {NoFile}
                                            \/ local[m][f] # plan[m][f].local
  <1>1. KInv => Spares
    BY DEF KInv, Known, PullFile, At
  <1>2. KInv /\ [Next]_vars => [Spares]_vars
    BY <1>1
  <1>3. KInv /\ [Next]_vars => KInv'
    BY NextKnown
  <1> QED
    BY InitKnown, <1>2, <1>3, PTL DEF Spec, PullSparesEdits

-----------------------------------------------------------------------------
(* No silent overwrites, where the commands of different machines take turns. *)

\* Commands take turns, and leave nothing behind.
Turns ==
    /\ \A m, n \in Machine : cmd[m] # "idle" /\ cmd[n] # "idle" => m = n
    /\ \A m \in Machine, f \in File : cmd[m] = "idle" =>
          /\ shown[m][f] = None /\ f \notin taken[m]
          /\ \A s \in Stages : f \notin todo[m][s]

\* The running command knows the primary: from its snapshot, until it has pushed
\* the file, from what the user was shown, or because it has just uploaded it.
Current(m, f) ==
    /\ f \in todo[m]["pull"] \cup todo[m]["guard"] => plan[m][f].drive = remote[f]
    /\ f \in todo[m]["upload"] /\ shown[m][f] = None => plan[m][f].drive = remote[f]
    /\ f \in todo[m]["record"] => remote[f] # NoFile
    /\ shown[m][f] # None =>
          /\ todo[m]["pull"] = {} /\ todo[m]["guard"] = {} /\ todo[m]["delete"] = {}
          /\ f \notin todo[m]["record"] => remote[f] = shown[m][f].drive

SInv == IInv /\ Turns /\ \A m \in Machine, f \in File : Current(m, f)

\* A machine without a command has no file to be current about.
LEMMA IdleCurrent ==
    ASSUME Turns, NEW m \in Machine, cmd[m] = "idle", NEW f \in File
    PROVE  Current(m, f)
  BY DEF Turns, Current, Stages

\* It is enough to look at the file the running command works on.
LEMMA AboutCurrent ==
    ASSUME SInv, IInv', NEW m \in Machine, NEW f \in File, About(m, f),
           cmd[m] # "idle", Current(m, f)'
    PROVE  SInv'
  <1>1. cmd' = cmd
    BY DEF About
  <1>2. ASSUME NEW n \in Machine, NEW g \in File, n # m \/ g # f
        PROVE  /\ plan'[n][g] = plan[n][g] /\ shown'[n][g] = shown[n][g]
               /\ g \in taken'[n] <=> g \in taken[n]
               /\ \A s \in Stages : g \in todo'[n][s] <=> g \in todo[n][s]
    BY <1>2 DEF About
  <1>3. Turns'
    BY <1>1, <1>2 DEF SInv, Turns
  <1>4. ASSUME NEW n \in Machine, n # m, NEW g \in File PROVE Current(n, g)'
    <2>1. cmd'[n] = "idle"
      BY <1>1, <1>4 DEF SInv, Turns
    <2> QED
      BY <1>3, <2>1 DEF Turns, Current, Stages
  <1>5. ASSUME NEW g \in File \ {f} PROVE Current(m, g)'
    <2>1. Current(m, g)
      BY DEF SInv
    <2>2. /\ remote'[g] = remote[g]
          /\ \A s \in {"pull", "guard", "delete"} : todo'[m][s] \subseteq todo[m][s]
      BY DEF About
    <2>3. /\ plan'[m][g] = plan[m][g] /\ shown'[m][g] = shown[m][g]
          /\ \A s \in {"pull", "guard", "upload", "record"} : g \in todo'[m][s] <=> g \in todo[m][s]
      BY <1>2 DEF Stages
    <2> QED
      BY <2>1, <2>2, <2>3 DEF Current
  <1> QED
    BY <1>3, <1>4, <1>5 DEF SInv

LEMMA UserCurrent ==
    ASSUME SInv, NEW m \in Machine, UserStep(m) PROVE SInv'
  <1>1. IInv'
    BY UserKept DEF SInv
  <1>2. UNCHANGED <<remote, cmd, plan, todo, shown, taken>>
    BY DEF UserStep, Edit, Remove, cmdVars, ghosts
  <1> QED
    BY <1>1, <1>2 DEF SInv, Turns, Current

\* A command starts alone, with a snapshot that shows the primary as it is.
LEMMA StartCurrent ==
    ASSUME SInv, ~Overlap, NEW m \in Machine, StartStep(m) PROVE SInv'
  <1>1. IInv /\ IInv' /\ TypeOK
    BY StartKept DEF SInv, IInv
  <1>2. PICK k \in Commands, scope \in SUBSET File : Start(m, k, scope)
    BY DEF StartStep
  <1> DEFINE P == Snapshot(m)
             T == InitialTodo(m, k, scope, P)
  <1>3. /\ \A n \in Machine : cmd[n] = "idle"
        /\ cmd' = [cmd EXCEPT ![m] = k]
        /\ plan' = [plan EXCEPT ![m] = P]
        /\ todo' = [todo EXCEPT ![m] = T]
        /\ UNCHANGED <<remote, shown, taken>>
    BY <1>2 DEF Start, userVars, ghosts
  <1>4. T["record"] = {}
    BY ModeAssumption DEF InitialTodo, NoTodo, Stages
  <1>5. \A f \in File : P[f] # None => P[f].drive = remote[f]
    BY DEF Snapshot
  <1> HIDE DEF P, T
  <1>6. \A n \in Machine \ {m} : cmd'[n] = cmd[n] /\ plan'[n] = plan[n] /\ todo'[n] = todo[n]
    BY <1>1, <1>3 DEF TypeOK
  <1>7. plan'[m] = P /\ todo'[m] = T
    BY <1>1, <1>3 DEF TypeOK
  <1> cmd'[m] # "idle"
    BY <1>1, <1>3, ModeAssumption DEF TypeOK
  <1>8. Turns'
    BY <1>3, <1>6 DEF SInv, Turns
  <1>9. ASSUME NEW n \in Machine \ {m}, NEW f \in File PROVE Current(n, f)'
    BY <1>3, <1>6, <1>8 DEF Turns, Current, Stages
  <1>10. ASSUME NEW f \in File PROVE Current(m, f)'
    <2>1. shown'[m][f] = None /\ f \notin todo'[m]["record"]
      BY <1>3, <1>4, <1>7 DEF SInv, Turns
    <2>2. ASSUME NEW s \in Stages, f \in todo'[m][s] PROVE plan'[m][f].drive = remote'[f]
      <3>1. plan'[m][f] # None
        BY <1>1, <2>2, NullAssumption DEF IInv, Planned
      <3> QED
        BY <1>3, <1>5, <1>7, <3>1
    <2> QED
      BY <2>1, <2>2 DEF Current, Stages
  <1> QED
    BY <1>1, <1>8, <1>9, <1>10 DEF SInv

LEMMA StopCurrent ==
    ASSUME SInv, IInv', NEW m \in Machine, Stop(m), UNCHANGED remote
    PROVE  SInv'
  <1>1. TypeOK
    BY DEF SInv, IInv
  <1>2. /\ cmd'[m] = "idle" /\ taken'[m] = {}
        /\ \A f \in File : shown'[m][f] = None /\ \A s \in Stages : f \notin todo'[m][s]
    BY <1>1 DEF Stop, TypeOK, Nothing, NoTodo
  <1>3. \A n \in Machine \ {m} : /\ cmd'[n] = cmd[n] /\ taken'[n] = taken[n] /\ shown'[n] = shown[n]
                                 /\ plan'[n] = plan[n] /\ todo'[n] = todo[n]
    BY <1>1 DEF Stop, TypeOK
  <1>4. Turns'
    BY <1>2, <1>3 DEF SInv, Turns
  <1>5. ASSUME NEW n \in Machine \ {m}, NEW f \in File PROVE Current(n, f)'
    BY <1>3 DEF SInv, Current
  <1>6. ASSUME NEW f \in File PROVE Current(m, f)'
    BY <1>2 DEF Current, Stages
  <1> QED
    BY <1>4, <1>5, <1>6 DEF SInv

LEMMA PullFileCurrent ==
    ASSUME SInv, NEW m \in Machine, NEW f \in File, PullFile(m, f) PROVE SInv'
  <1>1. IInv /\ IInv' /\ Current(m, f)
    BY PullFileKept DEF SInv
  <1>2. /\ About(m, f) /\ Left(m, "pull", f) /\ f \in todo[m]["pull"] /\ cmd[m] # "idle"
        /\ UNCHANGED <<remote, plan, shown>>
    BY <1>1, PullFileAbout DEF PullFile, At
  <1>3. Current(m, f)'
    BY <1>1, <1>2 DEF Current, Left, Stages
  <1> QED
    BY <1>1, <1>2, <1>3, AboutCurrent

LEMMA GuardCurrent ==
    ASSUME SInv, NEW m \in Machine, NEW f \in File, Guard(m, f) PROVE SInv'
  <1>1. IInv /\ IInv' /\ Current(m, f)
    BY GuardKept DEF SInv
  <1>2. /\ About(m, f) /\ f \in todo[m]["guard"] /\ todo[m]["pull"] = {} /\ cmd[m] # "idle"
        /\ \/ Moved(m, "guard", "again", f)
           \/ Moved(m, "guard", "upload", f) /\ plan'[m][f] = plan[m][f]
        /\ UNCHANGED <<remote, shown>>
    BY <1>1, GuardAbout DEF Guard, At
  <1>3. f \notin todo[m]["upload"] /\ shown[m][f] = None
    BY <1>1, <1>2 DEF IInv, Ordered, Current
  <1>4. CASE Moved(m, "guard", "again", f)
    <2>1. /\ f \notin todo'[m]["pull"] \cup todo'[m]["guard"] \cup todo'[m]["upload"]
          /\ f \in todo'[m]["record"] => f \in todo[m]["record"]
      BY <1>2, <1>3, <1>4 DEF Moved, Stages
    <2> QED
      BY <1>1, <1>2, <1>3, <2>1, AboutCurrent DEF Current
  <1>5. CASE Moved(m, "guard", "upload", f) /\ plan'[m][f] = plan[m][f]
    <2>1. /\ f \notin todo'[m]["pull"] \cup todo'[m]["guard"]
          /\ f \in todo'[m]["record"] => f \in todo[m]["record"]
      BY <1>2, <1>5 DEF Moved, Stages
    <2>2. plan'[m][f].drive = remote'[f]
      BY <1>1, <1>2, <1>5 DEF Current
    <2> QED
      BY <1>1, <1>2, <1>3, <2>1, <2>2, AboutCurrent DEF Current
  <1> QED
    BY <1>2, <1>4, <1>5

LEMMA UploadCurrent ==
    ASSUME SInv, NEW m \in Machine, NEW f \in File, Upload(m, f) PROVE SInv'
  <1>1. IInv /\ IInv' /\ Current(m, f)
    BY UploadKept DEF SInv
  <1>2. /\ About(m, f) /\ Moved(m, "upload", "record", f)
        /\ todo[m]["pull"] = {} /\ todo[m]["guard"] = {} /\ cmd[m] # "idle"
        /\ local[m][f] \in Content /\ remote'[f] = local[m][f]
        /\ UNCHANGED <<plan, shown>>
    BY <1>1, UploadAbout
  <1>3. /\ f \in todo'[m]["record"] /\ f \notin todo'[m]["upload"]
        /\ \A s \in {"pull", "guard", "delete"} : todo'[m][s] \subseteq todo[m][s]
    BY <1>2 DEF Moved, About, Stages
  <1>4. Current(m, f)'
    BY <1>1, <1>2, <1>3, DataAssumption DEF Current
  <1> QED
    BY <1>1, <1>2, <1>4, AboutCurrent

LEMMA RecordCurrent ==
    ASSUME SInv, NEW m \in Machine, NEW f \in File, NEW late \in BOOLEAN, Record(m, f, late)
    PROVE  SInv'
  <1>1. IInv /\ IInv'
    BY RecordKept DEF SInv
  <1>2. /\ About(m, f) /\ Left(m, "record", f) /\ f \in todo[m]["record"] /\ cmd[m] # "idle"
        /\ shown'[m][f] = None
    BY <1>1, RecordAbout
  <1>3. \A s \in {"pull", "guard", "upload"} : f \notin todo[m][s]
    BY <1>1, <1>2 DEF IInv, Ordered
  <1>4. \A s \in {"pull", "guard", "upload", "record"} : f \notin todo'[m][s]
    BY <1>2, <1>3 DEF Left, Stages
  <1> QED
    BY <1>1, <1>2, <1>4, AboutCurrent DEF Current

LEMMA DeleteRemoteCurrent ==
    ASSUME SInv, NEW m \in Machine, NEW f \in File, DeleteRemote(m, f) PROVE SInv'
  <1>1. IInv /\ IInv' /\ Current(m, f)
    BY DeleteRemoteKept DEF SInv
  <1>2. /\ About(m, f) /\ Left(m, "delete", f) /\ f \in todo[m]["delete"] /\ cmd[m] # "idle"
        /\ \A s \in {"pull", "guard", "upload", "record"} : todo[m][s] = {}
        /\ UNCHANGED shown
    BY <1>1, DeleteRemoteAbout
  <1>3. \A s \in {"pull", "guard", "upload", "record"} : f \notin todo'[m][s]
    BY <1>2 DEF Left, Stages
  <1>4. shown'[m][f] = None
    BY <1>1, <1>2 DEF Current
  <1> QED
    BY <1>1, <1>2, <1>3, <1>4, AboutCurrent DEF Current

LEMMA ConflictCurrent ==
    ASSUME SInv, NEW m \in Machine, NEW s \in {"conflict", "again"}, NEW f \in File,
           ConflictStep(m, s, f)
    PROVE  SInv'
  <1>1. IInv /\ Current(m, f)
    BY DEF SInv
  <1>2. CASE ShowConflict(m, s, f)
    <2>1. /\ IInv' /\ About(m, f) /\ OnlyConflicts(m) /\ cmd[m] # "idle"
          /\ shown'[m][f] = [local |-> local[m][f], drive |-> remote[f]]
          /\ UNCHANGED <<remote, plan, todo>>
      BY <1>1, <1>2, ShowConflictKept, ShowConflictAbout
    <2>2. Current(m, f)'
      BY <2>1 DEF Current, OnlyConflicts
    <2> QED
      BY <2>1, <2>2, AboutCurrent
  <1>3. CASE AnswerSkip(m, s, f) \/ \E late \in BOOLEAN : AnswerDrive(m, s, f, late)
    <2>1. IInv'
      BY <1>1, <1>3, AnswerSkipKept, AnswerDriveKept
    <2>2. /\ About(m, f) /\ Left(m, s, f) /\ OnlyConflicts(m) /\ cmd[m] # "idle"
          /\ shown'[m][f] = None
      <3>1. CASE AnswerSkip(m, s, f)
        BY <1>1, <3>1, AnswerSkipAbout
      <3>2. CASE \E late \in BOOLEAN : AnswerDrive(m, s, f, late)
        BY <1>1, <3>2, AnswerDriveAbout
      <3> QED
        BY <1>3, <3>1, <3>2
    <2>3. \A u \in {"pull", "guard", "upload", "record"} : f \notin todo'[m][u]
      BY <2>2 DEF Left, OnlyConflicts, Stages
    <2> QED
      BY <2>1, <2>2, <2>3, AboutCurrent DEF Current
  <1>4. ASSUME NEW c \in Content, AnswerPush(m, s, f, c) PROVE SInv'
    <2>1. /\ IInv' /\ About(m, f) /\ Moved(m, s, "upload", f) /\ OnlyConflicts(m) /\ cmd[m] # "idle"
          /\ shown[m][f] # None
          /\ UNCHANGED <<remote, shown>>
      BY <1>1, <1>4, AnswerPushKept, AnswerPushAbout
    <2>2. /\ f \notin todo'[m]["record"]
          /\ todo'[m]["pull"] = {} /\ todo'[m]["guard"] = {} /\ todo'[m]["delete"] = {}
      BY <2>1 DEF Moved, OnlyConflicts, About, Stages
    <2>3. remote[f] = shown[m][f].drive
      BY <1>1, <2>1 DEF Current, OnlyConflicts
    <2>4. Current(m, f)'
      BY <2>1, <2>2, <2>3 DEF Current
    <2> QED
      BY <2>1, <2>4, AboutCurrent
  <1> QED
    BY <1>2, <1>3, <1>4 DEF ConflictStep

\* A file given up after its upload is not one the user was asked about: that
\* failure ends the command.
LEMMA PutOffCurrent ==
    ASSUME SInv, IInv', NEW m \in Machine, NEW s \in Stages \ {"again"}, NEW f \in File,
           cmd[m] # "idle", s = "record" => shown[m][f] = None,
           Drop(m, s, f) \/ Move(m, s, "again", f),
           UNCHANGED <<userVars, remote, disk, mem, cmd, plan, shown, ghosts>>
    PROVE  SInv'
  <1>1. /\ About(m, f) /\ (Left(m, s, f) \/ Moved(m, s, "again", f))
        /\ UNCHANGED <<remote, plan, shown>> /\ Current(m, f)
    BY PutOffAbout DEF SInv
  <1>2. /\ \A u \in {"pull", "guard", "upload", "record"} : f \in todo'[m][u] => f \in todo[m][u]
        /\ \A u \in {"pull", "guard", "delete"} : todo'[m][u] \subseteq todo[m][u]
    BY <1>1 DEF Left, Moved, About, Stages
  <1>3. s # "record" /\ f \in todo[m]["record"] => f \in todo'[m]["record"]
    BY <1>1 DEF Left, Moved, Stages
  <1>4. Current(m, f)'
    BY <1>1, <1>2, <1>3 DEF Current
  <1> QED
    BY <1>1, <1>4, AboutCurrent

LEMMA FaultCurrent ==
    ASSUME SInv, NEW m \in Machine, FaultStep(m) PROVE SInv'
  <1>1. IInv'
    BY FaultKept DEF SInv
  <1>2. Abandon(m) /\ UNCHANGED <<userVars, remote>> => SInv'
    BY <1>1, StopCurrent DEF Abandon
  <1>3. ASSUME NEW f \in File, NEW s \in {"upload", "record"}, At(m, s, f), PushFails(m, f, s)
        PROVE  SInv'
    <2>1. CASE Abandon(m)
      BY <1>2, <1>3, <2>1 DEF PushFails
    <2>2. CASE ~Abandon(m)
      <3>1. /\ Drop(m, s, f) /\ shown[m][f] = None
            /\ UNCHANGED <<userVars, remote, disk, mem, cmd, plan, shown, ghosts>>
        BY <1>3, <2>2 DEF PushFails
      <3>2. s \in Stages \ {"again"}
        BY DEF Stages
      <3> QED
        BY <1>1, <1>3, <3>1, <3>2, PutOffCurrent DEF At
    <2> QED
      BY <2>1, <2>2
  <1>4. CASE Crash(m)
    BY <1>2, <1>4 DEF Crash
  <1>5. ASSUME NEW f \in File,
               \/ PullFail(m, f) \/ GuardFail(m, f) \/ UploadFail(m, f)
               \/ RecordFail(m, f) \/ DeleteFail(m, f)
               \/ \E s \in {"conflict", "again"} : ConflictUnreadable(m, s, f)
        PROVE  SInv'
    <2> {"pull", "guard", "delete"} \subseteq Stages \ {"again"}
      BY DEF Stages
    <2>1. CASE PullFail(m, f)
      BY <1>1, <2>1, PutOffCurrent DEF PullFail, At
    <2>2. CASE GuardFail(m, f)
      BY <1>1, <2>2, PutOffCurrent DEF GuardFail, At
    <2>3. CASE UploadFail(m, f)
      BY <1>3, <2>3 DEF UploadFail
    <2>4. CASE RecordFail(m, f)
      BY <1>3, <2>4 DEF RecordFail
    <2>5. CASE DeleteFail(m, f)
      BY <1>1, <2>5, PutOffCurrent DEF DeleteFail, At
    <2>6. CASE \E s \in {"conflict", "again"} : ConflictUnreadable(m, s, f)
      BY <1>2, <2>6 DEF ConflictUnreadable
    <2> QED
      BY <1>5, <2>1, <2>2, <2>3, <2>4, <2>5, <2>6
  <1> QED
    BY <1>4, <1>5 DEF FaultStep

LEMMA WorkCurrent ==
    ASSUME SInv, NEW m \in Machine, WorkStep(m) PROVE SInv'
  <1>1. CASE Save(m)
    <2>1. IInv'
      BY <1>1, SaveKept DEF SInv
    <2> QED
      BY <1>1, <2>1, StopCurrent DEF Save
  <1>2. CASE ~Save(m)
    <2>1. PICK f \in File :
            \/ PullFile(m, f) \/ Guard(m, f) \/ Upload(m, f)
            \/ \E late \in BOOLEAN : Record(m, f, late)
            \/ DeleteRemote(m, f)
            \/ \E s \in {"conflict", "again"} : ConflictStep(m, s, f)
      BY <1>2 DEF WorkStep
    <2> QED
      BY <2>1, PullFileCurrent, GuardCurrent, UploadCurrent, RecordCurrent,
         DeleteRemoteCurrent, ConflictCurrent
  <1> QED
    BY <1>1, <1>2

LEMMA InitCurrent == Init => SInv
  <1> SUFFICES ASSUME Init PROVE SInv
    OBVIOUS
  <1>1. IInv
    BY InitKept
  <1>2. \A m \in Machine : cmd[m] = "idle"
    BY DEF Init
  <1>3. \A m \in Machine, f \in File : /\ shown[m][f] = None /\ f \notin taken[m]
                                       /\ \A s \in Stages : f \notin todo[m][s]
    BY DEF Init, Nothing, NoTodo
  <1>4. Turns
    BY <1>2, <1>3 DEF Turns
  <1> QED
    BY <1>1, <1>2, <1>4, IdleCurrent DEF SInv

LEMMA NextCurrent ==
    ASSUME ~Overlap PROVE SInv /\ [Next]_vars => SInv'
  <1> SUFFICES ASSUME SInv, [Next]_vars PROVE SInv'
    OBVIOUS
  <1>1. CASE UNCHANGED vars
    <2>1. IInv'
      BY <1>1, StutterKept DEF SInv
    <2> QED
      BY <1>1, <2>1 DEF SInv, Turns, Current, vars, cmdVars, ghosts
  <1>2. ASSUME NEW m \in Machine,
               UserStep(m) \/ StartStep(m) \/ WorkStep(m) \/ FaultStep(m)
        PROVE  SInv'
    BY <1>2, UserCurrent, StartCurrent, WorkCurrent, FaultCurrent
  <1> QED
    BY <1>1, <1>2 DEF Next

\* No command other than push --force-local replaces a version on the primary
\* that its machine has not synchronised and its user was not just shown, when
\* the commands of different machines take turns: whatever is edited meanwhile,
\* whatever was pushed, deleted or force-pushed before, and however transfers
\* fail and commands are killed.
THEOREM NoSilentOverwriteHolds ==
    ASSUME ~Overlap PROVE Spec => NoSilentOverwrite
  <1> DEFINE Safe == \A m \in Machine, f \in File :
                        Upload(m, f) /\ cmd[m] # "force" =>
                            \/ remote[f] \in {NoFile, local[m][f]}
                            \/ mem[m][f] # NoEntry /\ remote[f] = mem[m][f].remote
                            \/ shown[m][f] # None /\ remote[f] = shown[m][f].drive
  <1>1. SInv => Safe
    <2> SUFFICES ASSUME SInv, NEW m \in Machine, NEW f \in File, Upload(m, f), cmd[m] # "force"
                 PROVE  \/ remote[f] \in {NoFile, local[m][f]}
                        \/ mem[m][f] # NoEntry /\ remote[f] = mem[m][f].remote
                        \/ shown[m][f] # None /\ remote[f] = shown[m][f].drive
      OBVIOUS
    <2>1. f \in todo[m]["upload"] /\ f \notin todo[m]["record"]
      BY DEF Upload, At, SInv, IInv, Ordered
    <2>2. \/ plan[m][f].drive = NoFile
          \/ mem[m][f] # NoEntry /\ plan[m][f].drive = mem[m][f].remote
          \/ shown[m][f] # None
      BY <2>1 DEF SInv, IInv, Checked
    <2>3. Current(m, f)
      BY DEF SInv
    <2> QED
      BY <2>1, <2>2, <2>3 DEF Current
  <1>2. SInv /\ [Next]_vars => [Safe]_vars
    BY <1>1
  <1>3. SInv /\ [Next]_vars => SInv'
    BY NextCurrent
  <1> QED
    BY InitCurrent, <1>2, <1>3, PTL DEF Spec, NoSilentOverwrite

-----------------------------------------------------------------------------
(* What status calls in sync agrees, where commands take turns, every edit is *)
(* a new content and files are text.                                         *)

\* A torn entry names a local content that is gone, and so is what is about to
\* be recorded for an upload of something else.
Healthy(m, f) ==
    /\ Torn(disk[m][f]) => f \in lost[m] \cup taken[m] \/ Gone(m, f, disk[m][f].synced)
    /\ Torn(mem[m][f]) => f \in lost[m] \/ Gone(m, f, mem[m][f].synced)
    /\ f \in todo[m]["record"] =>
          plan[m][f].local \in {NoFile, remote[f]} \/ plan[m][f].local # local[m][f]

HInv == SInv /\ KInv /\ \A m \in Machine, f \in File : Healthy(m, f)

\* It is enough to look at the file a step is about; a machine without a command
\* has nothing to record, whatever happens to the primary.
LEMMA AboutHealthy ==
    ASSUME HInv, SInv', KInv', used \subseteq used', NEW m \in Machine, NEW f \in File,
           About(m, f), cmd[m] # "idle" \/ remote' = remote, Healthy(m, f)'
    PROVE  HInv'
  <1>1. ASSUME NEW n \in Machine, NEW g \in File, n # m \/ g # f
        PROVE  Healthy(n, g)'
    <2>1. Healthy(n, g)
      BY DEF HInv
    <2>2. /\ local'[n][g] = local[n][g] /\ disk'[n][g] = disk[n][g] /\ mem'[n][g] = mem[n][g]
          /\ plan'[n][g] = plan[n][g] /\ shown'[n][g] = shown[n][g]
          /\ g \in taken'[n] <=> g \in taken[n]
          /\ g \in lost'[n] <=> g \in lost[n]
          /\ g \in todo'[n]["record"] <=> g \in todo[n]["record"]
      BY <1>1 DEF About, Stages
    <2>3. g \notin todo[n]["record"] \/ remote'[g] = remote[g]
      <3>1. CASE remote' = remote
        BY <3>1
      <3>2. CASE remote' # remote /\ n # m
        BY <3>2 DEF HInv, SInv, Turns, Stages
      <3>3. CASE n = m
        BY <1>1, <3>3 DEF About
      <3> QED
        BY <3>1, <3>2, <3>3
    <2> QED
      BY <2>1, <2>2, <2>3 DEF Healthy, Gone
  <1> QED
    BY <1>1 DEF HInv

LEMMA UserHealthy ==
    ASSUME HInv, SInv', KInv', FreshEdits, NEW m \in Machine, UserStep(m) PROVE HInv'
  <1>1. PICK f \in File : Remove(m, f) \/ \E c \in Content : Edit(m, f, c)
    BY DEF UserStep
  <1>2. IInv /\ Healthy(m, f) /\ disk[m][f] \in Entry \cup {NoEntry} /\ mem[m][f] \in Entry \cup {NoEntry}
    BY DEF HInv, SInv, IInv, TypeOK
  <1>3. f \in todo[m]["record"] => plan[m][f].local \in used \cup {NoFile}
    BY NullAssumption DEF HInv, KInv, Sources, IInv, Planned, Stages
  <1>4. CASE Remove(m, f)
    <2>1. /\ About(m, f) /\ local'[m][f] = NoFile /\ mem'[m][f] = mem[m][f]
          /\ UNCHANGED <<used, remote, plan, shown, todo, taken, lost>>
      BY <1>2, <1>4, RemoveAbout DEF ghosts
    <2>2. Healthy(m, f)'
      BY <1>2, <2>1, DataAssumption DEF Healthy, Gone, About, Torn, Entry
    <2> QED
      BY <2>1, <2>2, AboutHealthy
  <1>5. ASSUME NEW c \in Content, Edit(m, f, c) PROVE HInv'
    <2>1. /\ About(m, f) /\ local'[m][f] = c /\ mem'[m][f] = mem[m][f]
          /\ used' = used \cup {c}
          /\ UNCHANGED <<remote, plan, shown, todo, taken, lost>>
      BY <1>2, <1>5, EditAbout DEF ghosts
    <2>2. c \notin used
      BY <1>5 DEF Edit
    <2>3. Healthy(m, f)'
      BY <1>2, <1>3, <2>1, <2>2 DEF Healthy, Gone, About
    <2> QED
      BY <2>1, <2>3, AboutHealthy
  <1> QED
    BY <1>1, <1>4, <1>5

LEMMA PullFileHealthy ==
    ASSUME HInv, SInv', KInv', NEW m \in Machine, NEW f \in File, PullFile(m, f) PROVE HInv'
  <1>1. IInv /\ Current(m, f)
    BY DEF HInv, SInv
  <1>2. /\ About(m, f) /\ Left(m, "pull", f) /\ f \in todo[m]["pull"]
        /\ mem'[m][f] = [synced |-> remote[f], remote |-> plan[m][f].drive, pending |-> Mirrored]
        /\ f \in taken'[m]
        /\ UNCHANGED <<used, remote>>
    BY <1>1, PullFileAbout
  <1>3. f \notin todo'[m]["record"] /\ plan[m][f].drive = remote[f]
    BY <1>1, <1>2 DEF IInv, Ordered, Left, Current, Stages
  <1>4. Healthy(m, f)'
    BY <1>2, <1>3 DEF Healthy, Torn
  <1> QED
    BY <1>2, <1>4, AboutHealthy

LEMMA GuardHealthy ==
    ASSUME HInv, SInv', KInv', NEW m \in Machine, NEW f \in File, Guard(m, f) PROVE HInv'
  <1>1. IInv /\ Healthy(m, f)
    BY DEF HInv, SInv
  <1>2. /\ About(m, f)
        /\ Moved(m, "guard", "again", f) \/ Moved(m, "guard", "upload", f)
        /\ plan'[m][f].local = plan[m][f].local
        /\ UNCHANGED <<local, used, remote, mem, shown, taken, lost>>
    BY <1>1, GuardAbout DEF ghosts
  <1>3. f \in todo'[m]["record"] => f \in todo[m]["record"]
    BY <1>2 DEF Moved, Stages
  <1>4. Healthy(m, f)'
    BY <1>1, <1>2, <1>3 DEF Healthy, Gone, About
  <1> QED
    BY <1>2, <1>4, AboutHealthy

LEMMA UploadHealthy ==
    ASSUME HInv, SInv', KInv', NEW m \in Machine, NEW f \in File, Upload(m, f) PROVE HInv'
  <1>1. IInv /\ Healthy(m, f)
    BY DEF HInv, SInv
  <1>2. /\ About(m, f) /\ cmd[m] # "idle" /\ remote'[f] = local[m][f]
        /\ UNCHANGED <<local, used, mem, plan, shown, taken, lost>>
    BY <1>1, UploadAbout
  <1>3. Healthy(m, f)'
    BY <1>1, <1>2 DEF Healthy, Gone, About
  <1> QED
    BY <1>2, <1>3, AboutHealthy

\* The entry is torn only when the file was edited between the snapshot and its
\* upload, and then the content of the snapshot does not come back.
LEMMA RecordHealthy ==
    ASSUME HInv, SInv', KInv', NEW m \in Machine, NEW f \in File, NEW late \in BOOLEAN,
           Record(m, f, late)
    PROVE  HInv'
  <1>1. IInv /\ Current(m, f) /\ Healthy(m, f)
    BY DEF HInv, SInv
  <1>2. /\ About(m, f) /\ Left(m, "record", f) /\ f \in todo[m]["record"]
        /\ plan[m][f] # None /\ plan[m][f].local \in Content
        /\ mem'[m][f] = Recorded(m, f, late) /\ shown'[m][f] = None
        /\ UNCHANGED <<local, used, remote, taken, lost>>
    BY <1>1, RecordAbout DEF ghosts
  <1>3. /\ mem'[m][f].synced = plan[m][f].local
        /\ Torn(mem'[m][f]) => plan[m][f].local # remote[f]
    BY <1>1, <1>2 DEF Recorded, Torn, Current
  <1>4. plan[m][f].local \in used
    BY <1>2, DataAssumption DEF HInv, KInv, Sources
  <1>5. Torn(mem'[m][f]) => plan[m][f].local # local[m][f]
    BY <1>1, <1>2, <1>3, DataAssumption DEF Healthy
  <1>6. f \notin todo'[m]["record"]
    BY <1>2 DEF Left, Stages
  <1>7. Healthy(m, f)'
    BY <1>1, <1>2, <1>3, <1>4, <1>5, <1>6 DEF Healthy, Gone, About
  <1> QED
    BY <1>2, <1>7, AboutHealthy

LEMMA DeleteRemoteHealthy ==
    ASSUME HInv, SInv', KInv', NEW m \in Machine, NEW f \in File, DeleteRemote(m, f) PROVE HInv'
  <1>1. IInv /\ Healthy(m, f)
    BY DEF HInv, SInv
  <1>2. /\ About(m, f) /\ Left(m, "delete", f) /\ cmd[m] # "idle" /\ todo[m]["record"] = {}
        /\ mem'[m][f] = NoEntry
        /\ UNCHANGED <<local, used, shown, taken, lost>>
    BY <1>1, DeleteRemoteAbout DEF ghosts
  <1>3. f \notin todo'[m]["record"]
    BY <1>2 DEF Left, Stages
  <1>4. Healthy(m, f)'
    BY <1>1, <1>2, <1>3 DEF Healthy, Gone, Torn, About
  <1> QED
    BY <1>2, <1>4, AboutHealthy

LEMMA ConflictHealthy ==
    ASSUME HInv, SInv', KInv', FreshEdits, Binary = {}, NEW m \in Machine,
           NEW s \in {"conflict", "again"}, NEW f \in File, ConflictStep(m, s, f)
    PROVE  HInv'
  <1>1. IInv /\ Healthy(m, f)
    BY DEF HInv, SInv
  <1>2. CASE ShowConflict(m, s, f)
    <2>1. /\ About(m, f) /\ OnlyConflicts(m)
          /\ shown'[m][f] = [local |-> local[m][f], drive |-> remote[f]]
          /\ UNCHANGED <<local, used, remote, mem, todo, taken, lost>>
      BY <1>1, <1>2, ShowConflictAbout DEF ghosts
    <2>2. f \notin todo'[m]["record"]
      BY <2>1 DEF OnlyConflicts
    <2>3. Healthy(m, f)'
      BY <1>1, <2>1, <2>2 DEF Healthy, Gone, About
    <2> QED
      BY <2>1, <2>3, AboutHealthy
  <1>3. CASE AnswerSkip(m, s, f)
    <2>1. /\ About(m, f) /\ Left(m, s, f) /\ OnlyConflicts(m) /\ shown'[m][f] = None
          /\ UNCHANGED <<local, used, remote, mem, taken, lost>>
      BY <1>1, <1>3, AnswerSkipAbout DEF ghosts
    <2>2. f \notin todo'[m]["record"]
      BY <2>1 DEF Left, OnlyConflicts, Stages
    <2>3. Healthy(m, f)'
      BY <1>1, <2>1, <2>2 DEF Healthy, Gone, About
    <2> QED
      BY <2>1, <2>3, AboutHealthy
  <1>4. ASSUME NEW late \in BOOLEAN, AnswerDrive(m, s, f, late) PROVE HInv'
    <2> DEFINE kept == shown[m][f].drive
    <2>1. /\ About(m, f) /\ Left(m, s, f) /\ OnlyConflicts(m)
          /\ used' = used \cup {kept}
          /\ mem'[m][f] = [synced  |-> kept,
                           remote  |-> IF plan[m][f].drive # NoFile THEN plan[m][f].drive ELSE kept,
                           pending |-> late]
          /\ f \in taken'[m]
          /\ plan[m][f].drive \notin {NoFile, kept} => f \in lost'[m]
          /\ UNCHANGED remote
      BY <1>1, <1>4, AnswerDriveAbout, TextKept
    <2>2. f \notin todo'[m]["record"]
      BY <2>1 DEF Left, OnlyConflicts, Stages
    <2> HIDE DEF kept
    <2>3. Torn(mem'[m][f]) => f \in lost'[m]
      BY <2>1 DEF Torn
    <2>4. Healthy(m, f)'
      BY <2>1, <2>2, <2>3 DEF Healthy
    <2> QED
      BY <2>1, <2>4, AboutHealthy
  <1>5. ASSUME NEW c \in Content, AnswerPush(m, s, f, c) PROVE HInv'
    <2>1. /\ About(m, f) /\ Moved(m, s, "upload", f) /\ OnlyConflicts(m)
          /\ shown[m][f] # None /\ c \in Resolved(m, f)
          /\ local'[m][f] = c /\ used' = used \cup {c}
          /\ UNCHANGED <<remote, mem, shown, taken, lost>>
      BY <1>1, <1>5, AnswerPushAbout DEF ghosts
    <2>2. c \notin used \/ c = shown[m][f].local
      BY <2>1, ResolvedFacts
    <2>3. f \notin todo'[m]["record"]
      BY <2>1 DEF Moved, OnlyConflicts, Stages
    <2>4. Healthy(m, f)'
      BY <1>1, <2>1, <2>2, <2>3 DEF Healthy, Gone, About
    <2> QED
      BY <2>1, <2>4, AboutHealthy
  <1> QED
    BY <1>2, <1>3, <1>4, <1>5 DEF ConflictStep

LEMMA StartHealthy ==
    ASSUME HInv, SInv', KInv', NEW m \in Machine, StartStep(m) PROVE HInv'
  <1>1. TypeOK /\ Turns
    BY DEF HInv, SInv, IInv
  <1>2. PICK k \in Commands, scope \in SUBSET File : Start(m, k, scope)
    BY DEF StartStep
  <1> DEFINE P == Snapshot(m)
             T == InitialTodo(m, k, scope, P)
  <1>3. /\ cmd[m] = "idle"
        /\ mem' = [mem EXCEPT ![m] = disk[m]]
        /\ plan' = [plan EXCEPT ![m] = P]
        /\ todo' = [todo EXCEPT ![m] = T]
        /\ UNCHANGED <<local, used, remote, disk, shown, taken, lost>>
    BY <1>2 DEF Start, userVars, ghosts
  <1>4. T["record"] = {}
    BY ModeAssumption DEF InitialTodo, NoTodo, Stages
  <1> HIDE DEF P, T
  <1>5. ASSUME NEW n \in Machine, NEW f \in File PROVE Healthy(n, f)'
    <2>1. Healthy(n, f)
      BY DEF HInv
    <2>2. CASE n = m
      <3>1. mem'[n] = disk[n] /\ f \notin todo'[n]["record"] /\ f \notin taken[n]
        BY <1>1, <1>3, <1>4, <2>2 DEF TypeOK, Turns
      <3> QED
        BY <1>3, <2>1, <3>1 DEF Healthy, Gone
    <2>3. CASE n # m
      <3>1. mem'[n] = mem[n] /\ plan'[n] = plan[n] /\ todo'[n] = todo[n]
        BY <1>1, <1>3, <2>3 DEF TypeOK
      <3> QED
        BY <1>3, <2>1, <3>1 DEF Healthy, Gone
    <2> QED
      BY <2>2, <2>3
  <1> QED
    BY <1>5 DEF HInv

LEMMA StopHealthy ==
    ASSUME HInv, SInv', KInv', NEW m \in Machine, Save(m) \/ Abandon(m), UNCHANGED <<local, used, remote>>
    PROVE  HInv'
  <1>1. TypeOK
    BY DEF HInv, SInv, IInv
  <1>2. Stop(m)
    BY DEF Save, Abandon
  <1>3. ASSUME NEW n \in Machine \ {m}, NEW f \in File PROVE Healthy(n, f)'
    <2>1. /\ mem'[n] = mem[n] /\ plan'[n] = plan[n] /\ todo'[n] = todo[n]
          /\ shown'[n] = shown[n] /\ taken'[n] = taken[n]
      BY <1>1, <1>2 DEF Stop, TypeOK
    <2>2. disk'[n] = disk[n] /\ lost'[n] = lost[n]
      BY <1>1 DEF Save, Abandon, TypeOK
    <2>3. Healthy(n, f)
      BY DEF HInv
    <2> QED
      BY <2>1, <2>2, <2>3 DEF Healthy, Gone
  <1>4. ASSUME NEW f \in File PROVE Healthy(m, f)'
    <2>1. mem'[m][f] = NoEntry /\ shown'[m][f] = None /\ f \notin todo'[m]["record"]
      BY <1>1, <1>2 DEF Stop, TypeOK, NoEntries, Nothing, NoTodo, Stages
    <2>2. Healthy(m, f)
      BY DEF HInv
    <2>3. CASE Save(m)
      <3>1. disk'[m][f] = mem[m][f] /\ lost'[m] = {g \in lost[m] : Torn(mem[m][g])}
        BY <1>1, <2>3 DEF Save, TypeOK
      <3> QED
        BY <2>1, <2>2, <3>1 DEF Healthy, Gone, Torn
    <2>4. CASE Abandon(m)
      <3>1. disk'[m][f] = disk[m][f] /\ lost'[m] = lost[m] \cup taken[m]
        BY <1>1, <2>4 DEF Abandon, TypeOK
      <3> QED
        BY <2>1, <2>2, <3>1 DEF Healthy, Gone, Torn
    <2> QED
      BY <2>3, <2>4
  <1> QED
    BY <1>3, <1>4 DEF HInv

LEMMA PutOffHealthy ==
    ASSUME HInv, SInv', KInv', NEW m \in Machine, NEW s \in Stages \ {"again"}, NEW f \in File,
           Drop(m, s, f) \/ Move(m, s, "again", f),
           UNCHANGED <<userVars, remote, disk, mem, cmd, plan, shown, ghosts>>
    PROVE  HInv'
  <1>1. /\ About(m, f) /\ (Left(m, s, f) \/ Moved(m, s, "again", f))
        /\ UNCHANGED <<local, used, remote, disk, mem, plan, shown, taken, lost>> /\ Healthy(m, f)
    BY PutOffAbout DEF HInv, SInv, userVars, ghosts
  <1>2. f \in todo'[m]["record"] => f \in todo[m]["record"]
    BY <1>1 DEF Left, Moved, Stages
  <1>3. Healthy(m, f)'
    BY <1>1, <1>2 DEF Healthy, Gone
  <1> QED
    BY <1>1, <1>3, AboutHealthy

LEMMA FaultHealthy ==
    ASSUME HInv, SInv', KInv', NEW m \in Machine, FaultStep(m) PROVE HInv'
  <1>1. Abandon(m) /\ UNCHANGED <<userVars, remote>> => HInv'
    BY StopHealthy DEF userVars
  <1>2. ASSUME NEW f \in File, NEW s \in {"upload", "record"}, PushFails(m, f, s) PROVE HInv'
    <2>1. CASE Abandon(m)
      BY <1>1, <1>2, <2>1 DEF PushFails
    <2>2. CASE ~Abandon(m)
      <3>1. /\ Drop(m, s, f)
            /\ UNCHANGED <<userVars, remote, disk, mem, cmd, plan, shown, ghosts>>
        BY <1>2, <2>2 DEF PushFails
      <3>2. s \in Stages \ {"again"}
        BY DEF Stages
      <3> QED
        BY <3>1, <3>2, PutOffHealthy
    <2> QED
      BY <2>1, <2>2
  <1>3. CASE Crash(m)
    BY <1>1, <1>3 DEF Crash
  <1>4. ASSUME NEW f \in File,
               \/ PullFail(m, f) \/ GuardFail(m, f) \/ UploadFail(m, f)
               \/ RecordFail(m, f) \/ DeleteFail(m, f)
               \/ \E s \in {"conflict", "again"} : ConflictUnreadable(m, s, f)
        PROVE  HInv'
    <2> {"pull", "guard", "delete"} \subseteq Stages \ {"again"}
      BY DEF Stages
    <2>1. CASE PullFail(m, f)
      BY <2>1, PutOffHealthy DEF PullFail
    <2>2. CASE GuardFail(m, f)
      BY <2>2, PutOffHealthy DEF GuardFail
    <2>3. CASE UploadFail(m, f)
      BY <1>2, <2>3 DEF UploadFail
    <2>4. CASE RecordFail(m, f)
      BY <1>2, <2>4 DEF RecordFail
    <2>5. CASE DeleteFail(m, f)
      BY <2>5, PutOffHealthy DEF DeleteFail
    <2>6. CASE \E s \in {"conflict", "again"} : ConflictUnreadable(m, s, f)
      BY <1>1, <2>6 DEF ConflictUnreadable
    <2> QED
      BY <1>4, <2>1, <2>2, <2>3, <2>4, <2>5, <2>6
  <1> QED
    BY <1>3, <1>4 DEF FaultStep

LEMMA WorkHealthy ==
    ASSUME HInv, SInv', KInv', FreshEdits, Binary = {}, NEW m \in Machine, WorkStep(m) PROVE HInv'
  <1>1. CASE Save(m)
    BY <1>1, StopHealthy DEF Save, userVars
  <1>2. CASE ~Save(m)
    <2>1. PICK f \in File :
            \/ PullFile(m, f) \/ Guard(m, f) \/ Upload(m, f)
            \/ \E late \in BOOLEAN : Record(m, f, late)
            \/ DeleteRemote(m, f)
            \/ \E s \in {"conflict", "again"} : ConflictStep(m, s, f)
      BY <1>2 DEF WorkStep
    <2> QED
      BY <2>1, PullFileHealthy, GuardHealthy, UploadHealthy, RecordHealthy,
         DeleteRemoteHealthy, ConflictHealthy
  <1> QED
    BY <1>1, <1>2

LEMMA InitHealthy == Init => HInv
  <1> SUFFICES ASSUME Init PROVE HInv
    OBVIOUS
  <1>1. SInv /\ KInv
    BY InitCurrent, InitKnown
  <1>2. \A m \in Machine, f \in File :
           disk[m][f] = NoEntry /\ mem[m][f] = NoEntry /\ f \notin todo[m]["record"]
    BY DEF Init, NoEntries, NoTodo, Stages
  <1> QED
    BY <1>1, <1>2 DEF HInv, Healthy, Torn

LEMMA NextHealthy ==
    ASSUME ~Overlap, FreshEdits, Binary = {} PROVE HInv /\ [Next]_vars => HInv'
  <1> SUFFICES ASSUME HInv, [Next]_vars PROVE HInv'
    OBVIOUS
  <1>1. SInv' /\ KInv'
    BY NextCurrent, NextKnown DEF HInv
  <1>2. CASE UNCHANGED vars
    BY <1>1, <1>2 DEF HInv, Healthy, Gone, vars, userVars, cmdVars, ghosts
  <1>3. ASSUME NEW m \in Machine,
               UserStep(m) \/ StartStep(m) \/ WorkStep(m) \/ FaultStep(m)
        PROVE  HInv'
    BY <1>1, <1>3, UserHealthy, StartHealthy, WorkHealthy, FaultHealthy
  <1> QED
    BY <1>2, <1>3 DEF Next

\* What status reports as in sync has the same content on this machine and on
\* the primary, for any number of machines whose commands take turns: an entry
\* whose two hashes are of different contents, as an edit during the command
\* leaves it, names a local content that does not come back.  The files a killed
\* command had taken, and those answered twice, are left out (lost).
THEOREM InSyncAgreesHolds ==
    ASSUME ~Overlap, FreshEdits, Binary = {} PROVE Spec => []InSyncAgrees
  <1>1. HInv => InSyncAgrees
    <2> SUFFICES ASSUME HInv, \A n \in Machine : cmd[n] = "idle",
                        NEW m \in Machine, NEW f \in File \ lost[m],
                        NoFile \notin {local[m][f], remote[f]},
                        Classify(local[m][f], remote[f], disk[m][f]) = "in_sync"
                 PROVE  local[m][f] = remote[f]
      BY DEF InSyncAgrees
    <2>1. disk[m][f] # NoEntry /\ local[m][f] = disk[m][f].synced /\ remote[f] = disk[m][f].remote
      BY DEF Classify, FirstSeen, SinceSync
    <2>2. Healthy(m, f) /\ f \notin taken[m]
      BY DEF HInv, SInv, Turns
    <2>3. ~Torn(disk[m][f])
      BY <2>1, <2>2 DEF Healthy, Gone
    <2> QED
      BY <2>1, <2>3 DEF Torn
  <1>2. HInv /\ [Next]_vars => HInv'
    BY NextHealthy
  <1> QED
    BY InitHealthy, <1>1, <1>2, PTL DEF Spec

=============================================================================
