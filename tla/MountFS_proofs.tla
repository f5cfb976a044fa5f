---------------------------- MODULE MountFS_proofs ----------------------------
(* Proofs about MountFS: type correctness, and that an open hands out the   *)
(* bytes it should.                                                         *)
EXTENDS MountFS, SequenceTheorems, TLAPS

PC == {"off", "idle", "inspect", "locate", "refresh", "lookup", "purge", "ids", "download",
       "tmp", "write", "replace", "evict"}

Fetching == {"lookup", "purge", "ids", "download", "tmp", "write", "replace", "evict"}

Handle == [ts: Snapshot \cup {0}, data: Content, seen: SUBSET (Content \cup {Gone})]

\* What a mount process can remember.
State == [pc: PC, kind: {"snapshot", "all", "live"}, backend: Backend, index: SUBSET Snapshot,
          trees: Seq(Tree), known: [Backend -> SUBSET Content], listing: BOOLEAN,
          fresh: BOOLEAN, ts: Snapshot \cup {0}, found: Tree \cup {None},
          want: Content \cup {None}, raw: Content \cup {None},
          goal: {"mount", "open", "look"}, handle: Handle \cup {None}]

Typed ==
    /\ at \in [Backend -> [Snapshot -> Format]]
    /\ blob \in [Backend -> [Content -> {"none", "whole", "torn"}]]
    /\ live \in [Backend -> Content \cup {Gone}]
    /\ main \in [Content -> FileState] /\ tmp \in [Content -> FileState]
    /\ proc \in [Process -> State]
    /\ since \in [Process -> SUBSET (Content \cup {Gone})]

\* A process has open only the file it writes.
Writers ==
    \A c \in Content, p \in Process :
        p \in main[c].open \cup tmp[c].open => At(p, "write") /\ proc[p].want = c

\* The subtrees are few and differ; a live view has none.
TreesFew(r) ==
    /\ Len(r.trees) <= MaxOpen
    /\ \A i, j \in 1..Len(r.trees) : r.trees[i].ts = r.trees[j].ts => i = j
    /\ r.kind = "live" => Len(r.trees) = 0

\* A snapshot that is being loaded is not loaded yet.
LoadSound(r) ==
    /\ r.pc \in {"inspect", "locate"} =>
           /\ r.kind # "live" /\ r.ts \in Snapshot
           /\ \A i \in 1..Len(r.trees) : r.trees[i].ts # r.ts
    /\ r.pc = "locate" => r.found \in Tree /\ r.found.ts = r.ts

\* What is looked for is what the snapshot was taken of, or what the live file
\* has been since the open began; what was fetched is what was looked for.  s is
\* since, l the live files.
FetchSound(r, s, l) ==
    /\ r.pc \in Fetching =>
           IF r.kind = "live" THEN l[r.backend] \in s ELSE r.ts \in Snapshot
    /\ r.pc \in Fetching \ {"download"} => r.want # None
    /\ r.want # None =>
           /\ r.pc \in Fetching
           /\ IF r.kind = "live" THEN r.want \in s \ {Gone} ELSE r.want = Recorded[r.ts]
    /\ r.raw # None => r.raw = r.want
    /\ r.pc \in {"tmp", "write", "replace", "evict"} => r.raw # None

HandleSound(r) ==
    r.handle # None =>
        IF r.kind = "live" THEN r.handle.data \in r.handle.seen \ {Gone}
        ELSE r.handle.data = Recorded[r.handle.ts]

Sound(r, s, l) == TreesFew(r) /\ LoadSound(r) /\ FetchSound(r, s, l) /\ HandleSound(r)

IInv == Typed /\ Writers /\ \A p \in Process : Sound(proc[p], since[p], live)

USE MountAssumption DEF MountAssumption

LEMMA OffState == Off \in State /\ \A s, l : Sound(Off, s, l)
  <1>1. Off \in State BY DEF Off, State, PC, Backend
  <1>2. TreesFew(Off) /\ LoadSound(Off) BY DEF TreesFew, LoadSound, Off
  <1>3. \A s, l : FetchSound(Off, s, l) BY DEF FetchSound, Off, Fetching
  <1>4. HandleSound(Off) BY DEF HandleSound, Off
  <1> QED BY <1>1, <1>2, <1>3, <1>4 DEF Sound

LEMMA AbsentState == Absent \in FileState /\ Absent.open = {}
  BY DEF Absent, FileState

LEMMA InitHolds == Init => IInv
  <1> SUFFICES ASSUME Init PROVE IInv OBVIOUS
  <1>1. Recorded[Snapshots] \in Content BY DEF Snapshot
  <1>2. Typed BY <1>1, OffState, AbsentState DEF Init, Typed
  <1>3. Writers BY AbsentState DEF Init, Writers
  <1>4. \A p \in Process : Sound(proc[p], since[p], live) BY OffState DEF Init
  <1> QED BY <1>2, <1>3, <1>4 DEF IInv

-----------------------------------------------------------------------------
(* Steps of one process                                                      *)

LEMMA StepHolds ==
    ASSUME IInv, NEW p \in Process, NEW r \in State, Set(p, r), UNCHANGED remote,
           since' \in [Process -> SUBSET (Content \cup {Gone})],
           \A q \in Process \ {p} : since'[q] = since[q],
           Sound(r, since'[p], live),
           main' \in [Content -> FileState], tmp' \in [Content -> FileState],
           \A c \in Content, q \in Process \ {p} :
               q \in main'[c].open \cup tmp'[c].open => q \in main[c].open \cup tmp[c].open,
           \A c \in Content :
               p \in main'[c].open \cup tmp'[c].open => r.pc = "write" /\ r.want = c
    PROVE  IInv'
  <1>1. \A q \in Process : proc'[q] = IF q = p THEN r ELSE proc[q]
    BY DEF Set, IInv, Typed
  <1>2. proc' \in [Process -> State] BY DEF Set, IInv, Typed
  <1>3. Typed' BY <1>2 DEF IInv, Typed, remote
  <1>4. Writers' BY <1>1 DEF IInv, Writers, At
  <1>5. \A q \in Process : Sound(proc'[q], since'[q], live)
    BY <1>1 DEF IInv
  <1>6. live' = live BY DEF remote
  <1> QED BY <1>3, <1>4, <1>5, <1>6 DEF IInv

\* A step that leaves the cache alone.
LEMMA PlainHolds ==
    ASSUME IInv, NEW p \in Process, NEW r \in State, Set(p, r), UNCHANGED <<remote, cache>>,
           ~At(p, "write"),
           since' \in [Process -> SUBSET (Content \cup {Gone})],
           \A q \in Process \ {p} : since'[q] = since[q],
           Sound(r, since'[p], live)
    PROVE  IInv'
  <1>1. main' = main /\ tmp' = tmp /\ UNCHANGED remote BY DEF cache
  <1>2. main' \in [Content -> FileState] /\ tmp' \in [Content -> FileState]
    BY <1>1 DEF IInv, Typed
  <1>3. \A c \in Content : p \notin main'[c].open \cup tmp'[c].open
    BY <1>1 DEF IInv, Writers
  <1> QED BY <1>1, <1>2, <1>3, StepHolds

\* ... and since alone.
LEMMA QuietHolds ==
    ASSUME IInv, NEW p \in Process, NEW r \in State, Set(p, r),
           UNCHANGED <<remote, cache, since>>, ~At(p, "write"), Sound(r, since[p], live)
    PROVE  IInv'
  <1>1. since' = since /\ UNCHANGED <<remote, cache>> OBVIOUS
  <1>2. since' \in [Process -> SUBSET (Content \cup {Gone})] BY <1>1 DEF IInv, Typed
  <1> QED BY <1>1, <1>2, PlainHolds

LEMMA Each == ASSUME IInv, NEW p \in Process
              PROVE  /\ proc[p] \in State /\ since[p] \in SUBSET (Content \cup {Gone})
                     /\ TreesFew(proc[p]) /\ LoadSound(proc[p])
                     /\ FetchSound(proc[p], since[p], live) /\ HandleSound(proc[p])
  BY DEF IInv, Typed, Sound

LEMMA OverState ==
    ASSUME NEW r \in State, TreesFew(r), HandleSound(r), NEW s, NEW l
    PROVE  Over(r) \in State /\ Sound(Over(r), s, l)
  <1>1. Over(r) \in State BY DEF Over, State, PC
  <1>2. TreesFew(Over(r)) /\ LoadSound(Over(r)) BY DEF Over, TreesFew, LoadSound, State
  <1>3. FetchSound(Over(r), s, l) BY DEF Over, FetchSound, Fetching, State
  <1>4. HandleSound(Over(r)) BY DEF Over, HandleSound, State
  <1> QED BY <1>1, <1>2, <1>3, <1>4 DEF Sound

\* A failure leaves the process idle, or off while it mounts.
LEMMA FailHolds ==
    ASSUME IInv, NEW p \in Process, Fail(p), UNCHANGED <<remote, cache>>, ~At(p, "write")
    PROVE  IInv'
  <1> DEFINE r == IF proc[p].goal = "mount" THEN Off ELSE Over(proc[p])
  <1>1. r \in State /\ Sound(r, since'[p], live) BY Each, OffState, OverState
  <1>2. Set(p, r) BY DEF Fail
  <1> HIDE DEF r
  <1>3. /\ since' \in [Process -> SUBSET (Content \cup {Gone})]
        /\ \A q \in Process \ {p} : since'[q] = since[q]
    BY DEF Fail, IInv, Typed
  <1> QED BY <1>1, <1>2, <1>3, PlainHolds

\* A process that begins has no file, no tree and, unless it loads one, no work.
LEMMA BeginHolds ==
    ASSUME IInv, NEW p \in Process, NEW r \in State, Begin(p, r), Sound(r, since[p], live)
    PROVE  IInv'
  <1>1. Set(p, r) /\ UNCHANGED <<remote, cache, since>> /\ ~At(p, "write") BY DEF Begin, At
  <1> QED BY <1>1, QuietHolds

LEMMA MountLoads ==
    ASSUME IInv, NEW p \in Process, NEW s \in Snapshot,
           Begin(p, [Off EXCEPT !.pc = "inspect", !.ts = s, !.goal = "mount"])
    PROVE  IInv'
  <1> DEFINE r == [Off EXCEPT !.pc = "inspect", !.ts = s, !.goal = "mount"]
  <1>1. r \in State BY OffState, ZenonT(60) DEF State, PC
  <1>2. Sound(r, since[p], live)
    BY DEF Off, Sound, TreesFew, LoadSound, FetchSound, HandleSound, Fetching
  <1> HIDE DEF r
  <1> QED BY <1>1, <1>2, BeginHolds DEF r

LEMMA MountingHolds ==
    ASSUME IInv, NEW p \in Process, NEW s \in Snapshot, NEW b \in Backend,
           MountSnapshot(p, s) \/ MountAsOf(p, s) \/ MountAll(p) \/ MountLive(p, b)
    PROVE  IInv'
  <1>1. CASE MountSnapshot(p, s) BY <1>1, MountLoads DEF MountSnapshot
  <1>2. CASE MountAsOf(p, s)
    <2>1. PICK t \in Listed : Begin(p, [Off EXCEPT !.pc = "inspect", !.ts = t, !.goal = "mount"])
      BY <1>2 DEF MountAsOf
    <2> QED BY <2>1, MountLoads DEF Listed
  <1>3. CASE MountAll(p)
    <2> DEFINE none == [Off EXCEPT !.pc = "idle", !.kind = "all"]
               some == [Off EXCEPT !.pc = "idle", !.kind = "all", !.index = Listed]
    <2>1. none \in State /\ some \in State BY OffState, ZenonT(60) DEF State, PC, Listed
    <2>2. Sound(none, since[p], live) /\ Sound(some, since[p], live)
      BY DEF Off, Sound, TreesFew, LoadSound, FetchSound, HandleSound, Fetching
    <2>3. Begin(p, none) \/ Begin(p, some) BY <1>3 DEF MountAll
    <2> HIDE DEF none, some
    <2> QED BY <2>1, <2>2, <2>3, BeginHolds
  <1>4. CASE MountLive(p, b)
    <2> DEFINE r == [Off EXCEPT !.pc = "refresh", !.kind = "live", !.backend = b]
    <2>1. r \in State BY OffState, ZenonT(60) DEF State, PC
    <2>2. Sound(r, since[p], live)
      BY DEF Off, Sound, TreesFew, LoadSound, FetchSound, HandleSound, Fetching
    <2>3. Begin(p, r) BY <1>4 DEF MountLive
    <2> HIDE DEF r
    <2> QED BY <2>1, <2>2, <2>3, BeginHolds
  <1> QED BY <1>1, <1>2, <1>3, <1>4

LEMMA UnmountHolds == ASSUME IInv, NEW p \in Process, Unmount(p) PROVE IInv'
  <1>1. Set(p, Off) /\ UNCHANGED <<remote, cache>> /\ ~At(p, "write") BY DEF Unmount, At
  <1>2. /\ since' \in [Process -> SUBSET (Content \cup {Gone})]
        /\ \A q \in Process \ {p} : since'[q] = since[q]
    BY DEF Unmount, IInv, Typed
  <1> QED BY <1>1, <1>2, OffState, PlainHolds

-----------------------------------------------------------------------------
(* Resolving a path                                                          *)

\* The trees stay few and different when one of them becomes the most recent.
LEMMA TouchedTrees ==
    ASSUME NEW trees \in Seq(Tree), NEW i \in 1..Len(trees),
           \A j, k \in 1..Len(trees) : trees[j].ts = trees[k].ts => j = k
    PROVE  /\ Touched(trees, i) \in Seq(Tree)
           /\ Len(Touched(trees, i)) = Len(trees)
           /\ \A j, k \in 1..Len(trees) :
                  Touched(trees, i)[j].ts = Touched(trees, i)[k].ts => j = k
  <1> DEFINE old(j) == IF j < i THEN j ELSE IF j < Len(trees) THEN j + 1 ELSE i
             t == [j \in 1..Len(trees) |-> trees[old(j)]]
  <1>1. \A j \in 1..Len(trees) : old(j) \in 1..Len(trees) OBVIOUS
  <1>2. \A j, k \in 1..Len(trees) : old(j) = old(k) => j = k OBVIOUS
  <1>3. Touched(trees, i) = t BY DEF Touched
  <1> HIDE DEF old
  <1>4. t \in [1..Len(trees) -> Tree] BY <1>1
  <1>5. t \in Seq(Tree) /\ Len(t) = Len(trees)
    <2>1. Len(trees) \in Nat OBVIOUS
    <2>2. t \in Seq(Tree) BY <1>4, <2>1, SeqDef
    <2> QED BY <1>4, <2>1, <2>2
  <1>6. \A j, k \in 1..Len(trees) : t[j].ts = t[k].ts => j = k BY <1>1, <1>2
  <1> HIDE DEF t
  <1> QED BY <1>3, <1>5, <1>6

LEMMA TouchedSound ==
    ASSUME NEW r \in State, TreesFew(r), NEW i \in 1..Len(r.trees)
    PROVE  /\ [r EXCEPT !.trees = Touched(r.trees, i)] \in State
           /\ TreesFew([r EXCEPT !.trees = Touched(r.trees, i)])
  <1> DEFINE t == Touched(r.trees, i)
  <1>0. r.trees \in Seq(Tree) BY DEF State
  <1>1. /\ t \in Seq(Tree) /\ Len(t) = Len(r.trees)
        /\ \A j, k \in 1..Len(t) : t[j].ts = t[k].ts => j = k
    BY <1>0, TouchedTrees DEF TreesFew
  <1> HIDE DEF t
  <1>2. [r EXCEPT !.trees = t] \in State BY <1>1 DEF State
  <1>3. TreesFew([r EXCEPT !.trees = t]) BY <1>1 DEF TreesFew, State
  <1> QED BY <1>2, <1>3 DEF t

LEMMA FetchState ==
    ASSUME NEW r \in State, r.kind # "live", r.raw = None, TreesFew(r), HandleSound(r),
           NEW t \in Tree, NEW s, NEW l
    PROVE  Fetch(r, t) \in State /\ Sound(Fetch(r, t), s, l)
  <1>1. t.ts \in Snapshot /\ Recorded[t.ts] \in Content BY DEF Tree
  <1>2. Fetch(r, t) \in State
    <2> DEFINE w == IF t.format = "blobs" THEN Recorded[t.ts] ELSE None
               c == IF t.format = "blobs" THEN "lookup" ELSE "download"
    <2>1. w \in Content \cup {None} /\ c \in PC BY <1>1 DEF PC
    <2>2. Fetch(r, t) = [r EXCEPT !.ts = t.ts, !.want = w, !.pc = c] BY DEF Fetch
    <2> HIDE DEF w, c
    <2>3. [r EXCEPT !.ts = t.ts, !.want = w, !.pc = c] \in State BY <1>1, <2>1, ZenonT(60) DEF State
    <2> QED BY <2>2, <2>3
  <1>3. TreesFew(Fetch(r, t)) /\ LoadSound(Fetch(r, t))
    BY DEF Fetch, TreesFew, LoadSound, State
  <1>4. FetchSound(Fetch(r, t), s, l) BY <1>1 DEF Fetch, FetchSound, Fetching, State
  <1>5. HandleSound(Fetch(r, t)) BY DEF Fetch, HandleSound, State
  <1> QED BY <1>2, <1>3, <1>4, <1>5 DEF Sound

LEMMA IdleBare ==
    ASSUME IInv, NEW p \in Process, proc[p].pc \notin Fetching
    PROVE  proc[p].want = None /\ proc[p].raw = None
  BY Each DEF FetchSound

LEMMA OpenLoadedHolds == ASSUME IInv, NEW p \in Process, OpenLoaded(p) PROVE IInv'
  <1>1. PICK i \in DOMAIN proc[p].trees :
          Set(p, Fetch([proc[p] EXCEPT !.trees = Touched(proc[p].trees, i)], proc[p].trees[i]))
    BY DEF OpenLoaded
  <1> DEFINE r == [proc[p] EXCEPT !.trees = Touched(proc[p].trees, i)]
  <1>2. proc[p] \in State /\ proc[p].trees \in Seq(Tree) BY Each DEF State
  <1>3. i \in 1..Len(proc[p].trees) /\ proc[p].trees[i] \in Tree BY <1>1, <1>2
  <1>4. r \in State /\ TreesFew(r) BY <1>2, <1>3, Each, TouchedSound
  <1>5. r.kind # "live" BY <1>2, <1>3, Each DEF State, TreesFew
  <1>6. r.raw = None BY IdleBare, <1>2 DEF OpenLoaded, At, Fetching, State
  <1>7. HandleSound(r) BY <1>2, Each DEF HandleSound, State
  <1> HIDE DEF r
  <1>8. /\ Fetch(r, proc[p].trees[i]) \in State
        /\ Sound(Fetch(r, proc[p].trees[i]), since[p], live)
    BY <1>3, <1>4, <1>5, <1>6, <1>7, FetchState
  <1>9. Set(p, Fetch(r, proc[p].trees[i])) BY <1>1 DEF r
  <1>10. UNCHANGED <<remote, cache, since>> /\ ~At(p, "write") BY DEF OpenLoaded, At
  <1> QED BY <1>8, <1>9, <1>10, QuietHolds

\* A snapshot that is not loaded begins to be.
LEMMA LoadBegins ==
    ASSUME IInv, NEW p \in Process, At(p, "idle"), proc[p].kind = "all",
           NEW s \in proc[p].index \ {t.ts : t \in TreesOf(proc[p])},
           NEW g \in {"open", "look"},
           Set(p, [proc[p] EXCEPT !.pc = "inspect", !.ts = s, !.goal = g]),
           UNCHANGED <<remote, cache, since>>
    PROVE  IInv'
  <1> DEFINE r == [proc[p] EXCEPT !.pc = "inspect", !.ts = s, !.goal = g]
  <1>1. proc[p] \in State /\ s \in Snapshot BY Each DEF State
  <1>2. r \in State BY <1>1 DEF State, PC
  <1>3. TreesFew(r) BY <1>1, Each DEF TreesFew, State
  <1>4. \A i \in 1..Len(proc[p].trees) : proc[p].trees[i].ts # s
    <2>1. DOMAIN proc[p].trees = 1..Len(proc[p].trees) BY <1>1 DEF State
    <2> QED BY <2>1 DEF TreesOf
  <1>5. LoadSound(r) BY <1>1, <1>4 DEF LoadSound, State
  <1>6. FetchSound(r, since[p], live)
    BY <1>1, IdleBare DEF FetchSound, Fetching, State, At
  <1>7. HandleSound(r) BY <1>1, Each DEF HandleSound, State
  <1> HIDE DEF r
  <1>8. Sound(r, since[p], live) BY <1>3, <1>5, <1>6, <1>7 DEF Sound
  <1>9. Set(p, r) /\ ~At(p, "write") BY DEF r, At
  <1> QED BY <1>2, <1>8, <1>9, QuietHolds

LEMMA OpenNewHolds == ASSUME IInv, NEW p \in Process, OpenNew(p) PROVE IInv'
  BY LoadBegins DEF OpenNew

LEMMA LookHolds == ASSUME IInv, NEW p \in Process, Look(p) PROVE IInv'
  <1>1. CASE \E i \in DOMAIN proc[p].trees :
                Set(p, [proc[p] EXCEPT !.trees = Touched(proc[p].trees, i)])
    <2>1. PICK i \in DOMAIN proc[p].trees :
                Set(p, [proc[p] EXCEPT !.trees = Touched(proc[p].trees, i)])
      BY <1>1
    <2> DEFINE r == [proc[p] EXCEPT !.trees = Touched(proc[p].trees, i)]
    <2>2. proc[p] \in State /\ proc[p].trees \in Seq(Tree) BY Each DEF State
    <2>3. i \in 1..Len(proc[p].trees) BY <2>1, <2>2
    <2>4. r \in State /\ TreesFew(r) BY <2>2, <2>3, Each, TouchedSound
    <2>5. At(p, "idle") /\ UNCHANGED <<remote, cache, since>> BY DEF Look
    <2>6. LoadSound(r) BY <2>2, <2>5 DEF LoadSound, State, At
    <2>7. FetchSound(r, since[p], live)
      BY <2>2, <2>5, IdleBare DEF FetchSound, Fetching, State, At
    <2>8. HandleSound(r) BY <2>2, Each DEF HandleSound, State
    <2> HIDE DEF r
    <2>9. Sound(r, since[p], live) BY <2>4, <2>6, <2>7, <2>8 DEF Sound
    <2>10. Set(p, r) /\ ~At(p, "write") BY <2>1, <2>5 DEF r, At
    <2> QED BY <2>4, <2>5, <2>9, <2>10, QuietHolds
  <1>2. CASE \E s \in proc[p].index \ {t.ts : t \in TreesOf(proc[p])} :
                Set(p, [proc[p] EXCEPT !.pc = "inspect", !.ts = s, !.goal = "look"])
    BY <1>2, LoadBegins DEF Look
  <1> QED BY <1>1, <1>2 DEF Look

LEMMA InspectHolds == ASSUME IInv, NEW p \in Process, Inspect(p) PROVE IInv'
  <1>1. PICK b \in Backend :
        /\ Answers(p, b)
        /\ Set(p, [proc[p] EXCEPT !.pc = "locate",
                     !.found = [ts |-> proc[p].ts, format |-> at[b][proc[p].ts],
                                from |-> b, served |-> b]])
    BY DEF Inspect
  <1> DEFINE t == [ts |-> proc[p].ts, format |-> at[b][proc[p].ts], from |-> b, served |-> b]
             r == [proc[p] EXCEPT !.pc = "locate", !.found = t]
  <1>2. /\ proc[p] \in State /\ At(p, "inspect") /\ UNCHANGED <<remote, cache, since>>
    BY Each DEF Inspect
  <1>3. proc[p].kind # "live" /\ proc[p].ts \in Snapshot
    BY <1>2, Each DEF LoadSound, At
  <1>4. at[b][proc[p].ts] \in {"blobs", "full"}
    BY <1>1, <1>3 DEF Answers, IInv, Typed, Format
  <1>5. t \in Tree /\ t.ts = proc[p].ts BY <1>3, <1>4 DEF Tree
  <1> HIDE DEF t
  <1>6. r \in State BY <1>2, <1>5 DEF State, PC
  <1>7. TreesFew(r) /\ HandleSound(r) BY <1>2, Each DEF TreesFew, HandleSound, State
  <1>8. LoadSound(r) BY <1>2, <1>5, Each DEF LoadSound, State, At
  <1>9. FetchSound(r, since[p], live)
    BY <1>2, IdleBare DEF FetchSound, Fetching, State, At
  <1>10. Set(p, r) BY <1>1 DEF t
  <1> HIDE DEF r
  <1>11. Sound(r, since[p], live) BY <1>7, <1>8, <1>9 DEF Sound
  <1> QED BY <1>2, <1>6, <1>10, <1>11, QuietHolds DEF At

LEMMA InspectFailHolds == ASSUME IInv, NEW p \in Process, InspectFail(p) PROVE IInv'
  BY FailHolds DEF InspectFail, At

\* Only the most recent subtrees stay.
LEMMA KeptTrees ==
    ASSUME NEW trees \in Seq(Tree), NEW t \in Tree, Len(trees) <= MaxOpen,
           \A i, j \in 1..Len(trees) : trees[i].ts = trees[j].ts => i = j,
           \A i \in 1..Len(trees) : trees[i].ts # t.ts
    PROVE  LET k == Kept(Append(trees, t)) IN
           /\ k \in Seq(Tree) /\ Len(k) <= MaxOpen
           /\ \A i, j \in 1..Len(k) : k[i].ts = k[j].ts => i = j
  <1> DEFINE a == Append(trees, t)
             b == Tail(a)
  <1>1. /\ a \in Seq(Tree) /\ Len(a) = Len(trees) + 1
        /\ \A i \in 1..Len(a) : a[i] = IF i <= Len(trees) THEN trees[i] ELSE t
    OBVIOUS
  <1>2. \A i, j \in 1..Len(a) : a[i].ts = a[j].ts => i = j BY <1>1
  <1> HIDE DEF a
  <1>3. /\ b \in Seq(Tree) /\ Len(b) = Len(a) - 1
        /\ \A i \in 1..Len(b) : b[i] = a[i + 1]
    <2>1. a # <<>> BY <1>1
    <2> QED BY <1>1, <2>1, HeadTailProperties
  <1>4. \A i, j \in 1..Len(b) : b[i].ts = b[j].ts => i = j BY <1>1, <1>2, <1>3, SMTT(60)
  <1>5. Kept(a) = IF Len(a) > MaxOpen THEN b ELSE a BY DEF Kept
  <1> HIDE DEF b
  <1>6. Len(Kept(a)) <= MaxOpen BY <1>1, <1>3, <1>5
  <1> QED BY <1>1, <1>2, <1>3, <1>4, <1>5, <1>6 DEF a

LEMMA LoadHolds ==
    ASSUME IInv, NEW p \in Process, At(p, "locate"), UNCHANGED <<remote, cache, since>>,
           NEW t \in Tree, t.ts = proc[p].ts, Load(p, t)
    PROVE  IInv'
  <1> DEFINE k == Kept(Append(proc[p].trees, t))
             r == [proc[p] EXCEPT !.trees = k, !.found = None]
  <1>1. proc[p] \in State /\ proc[p].trees \in Seq(Tree) BY Each DEF State
  <1>2. /\ proc[p].kind # "live" /\ proc[p].raw = None
        /\ \A i \in 1..Len(proc[p].trees) : proc[p].trees[i].ts # t.ts
    BY <1>1, Each, IdleBare, SMTT(60) DEF LoadSound, At, Fetching
  <1>3. /\ k \in Seq(Tree) /\ Len(k) <= MaxOpen
        /\ \A i, j \in 1..Len(k) : k[i].ts = k[j].ts => i = j
    BY <1>1, <1>2, Each, KeptTrees DEF TreesFew
  <1> HIDE DEF k
  <1>4. r \in State BY <1>1, <1>3 DEF State
  <1>5. TreesFew(r) BY <1>1, <1>2, <1>3 DEF TreesFew, State
  <1>6. HandleSound(r) BY <1>1, Each DEF HandleSound, State
  <1>7. r.kind # "live" /\ r.raw = None BY <1>1, <1>2 DEF State
  <1>8. Set(p, IF r.goal = "open" THEN Fetch(r, t) ELSE Over(r)) BY DEF Load, k
  <1> HIDE DEF r
  <1>9. CASE r.goal = "open"
    BY <1>4, <1>5, <1>6, <1>7, <1>8, <1>9, FetchState, QuietHolds DEF At
  <1>10. CASE r.goal # "open"
    BY <1>4, <1>5, <1>6, <1>8, <1>10, OverState, QuietHolds DEF At
  <1> QED BY <1>9, <1>10

LEMMA LocateHolds == ASSUME IInv, NEW p \in Process, Locate(p) PROVE IInv'
  <1>1. PICK b \in Backend : Load(p, [proc[p].found EXCEPT !.served = b])
    BY DEF Locate, Backend
  <1>2. At(p, "locate") /\ UNCHANGED <<remote, cache, since>> BY DEF Locate
  <1>3. proc[p].found \in Tree /\ proc[p].found.ts = proc[p].ts
    BY <1>2, Each DEF LoadSound, At
  <1> DEFINE t == [proc[p].found EXCEPT !.served = b]
  <1>4. t \in Tree /\ t.ts = proc[p].ts BY <1>3 DEF Tree
  <1> HIDE DEF t
  <1>5. Load(p, t) BY <1>1 DEF t
  <1> QED BY <1>2, <1>4, <1>5, LoadHolds

Same(r, p) == r.kind = proc[p].kind /\ r.trees = proc[p].trees /\ r.handle = proc[p].handle

\* Steps of a live mount between opens: only the listing changes.
LEMMA ListingHolds ==
    ASSUME IInv, NEW p \in Process, proc[p].pc \in {"idle", "refresh"},
           UNCHANGED <<remote, cache, since>>,
           NEW r \in State, r.pc \in {"idle", "refresh"}, Same(r, p),
           r.want = proc[p].want, r.raw = proc[p].raw, Set(p, r)
    PROVE  IInv'
  <1>1. TreesFew(r) /\ LoadSound(r) /\ HandleSound(r)
    BY Each DEF TreesFew, LoadSound, HandleSound, Same
  <1>2. FetchSound(r, since[p], live) BY IdleBare DEF FetchSound, Fetching
  <1>3. Sound(r, since[p], live) /\ ~At(p, "write") BY <1>1, <1>2 DEF Sound, At
  <1> QED BY <1>3, QuietHolds

LEMMA RefreshHolds ==
    ASSUME IInv, NEW p \in Process, Refresh(p) \/ Expire(p) \/ Relist(p) PROVE IInv'
  <1>1. proc[p] \in State BY Each
  <1>2. ASSUME NEW shown \in BOOLEAN,
               Set(p, [proc[p] EXCEPT !.pc = "idle", !.listing = shown, !.fresh = TRUE]),
               At(p, "refresh"), UNCHANGED <<remote, cache, since>>
        PROVE  IInv'
    <2> DEFINE r == [proc[p] EXCEPT !.pc = "idle", !.listing = shown, !.fresh = TRUE]
    <2>1. r \in State BY <1>1 DEF State, PC
    <2>2. Same(r, p) /\ r.pc = "idle" /\ r.want = proc[p].want /\ r.raw = proc[p].raw
      BY <1>1 DEF Same, State
    <2> HIDE DEF r
    <2>3. Set(p, r) BY <1>2 DEF r
    <2> QED BY <1>2, <2>1, <2>2, <2>3, ListingHolds DEF At
  <1>3. CASE Refresh(p) BY <1>2, <1>3 DEF Refresh
  <1>4. CASE Expire(p)
    <2> DEFINE r == [proc[p] EXCEPT !.fresh = FALSE]
    <2>1. r \in State BY <1>1 DEF State
    <2>2. /\ At(p, "idle") /\ Same(r, p) /\ r.pc = "idle" /\ r.want = proc[p].want
          /\ r.raw = proc[p].raw
      BY <1>1, <1>4 DEF Same, State, Expire, At
    <2> HIDE DEF r
    <2>3. Set(p, r) BY <1>4 DEF r, Expire
    <2> QED BY <1>4, <2>1, <2>2, <2>3, ListingHolds DEF At, Expire
  <1>5. CASE Relist(p)
    <2> DEFINE r == [proc[p] EXCEPT !.pc = "refresh"]
    <2>1. r \in State BY <1>1 DEF State, PC
    <2>2. Same(r, p) /\ r.pc = "refresh" /\ r.want = proc[p].want /\ r.raw = proc[p].raw
      BY <1>1 DEF Same, State
    <2> HIDE DEF r
    <2>3. Set(p, r) BY <1>5 DEF r, Relist
    <2> QED BY <1>5, <2>1, <2>2, <2>3, ListingHolds DEF At, Relist
  <1> QED BY <1>3, <1>4, <1>5

LEMMA OpenLiveHolds == ASSUME IInv, NEW p \in Process, OpenLive(p) PROVE IInv'
  <1> DEFINE r == [proc[p] EXCEPT !.pc = "download"]
  <1>1. proc[p] \in State BY Each
  <1>2. r \in State BY <1>1 DEF State, PC
  <1>3. At(p, "idle") /\ proc[p].kind = "live" /\ UNCHANGED <<remote, cache>> BY DEF OpenLive
  <1>4. live[proc[p].backend] \in Content \cup {Gone} BY <1>1 DEF State, IInv, Typed
  <1>5. /\ since' \in [Process -> SUBSET (Content \cup {Gone})]
        /\ \A q \in Process \ {p} : since'[q] = since[q]
        /\ since'[p] = {live[proc[p].backend]}
    BY <1>4 DEF OpenLive, IInv, Typed
  <1>6. TreesFew(r) /\ LoadSound(r) /\ HandleSound(r)
    BY <1>1, Each DEF TreesFew, LoadSound, HandleSound, State
  <1>7. FetchSound(r, since'[p], live)
    BY <1>1, <1>3, <1>5, IdleBare DEF FetchSound, Fetching, State, At
  <1>8. Set(p, r) BY DEF OpenLive
  <1> HIDE DEF r
  <1>9. Sound(r, since'[p], live) BY <1>6, <1>7 DEF Sound
  <1> QED BY <1>2, <1>3, <1>5, <1>8, <1>9, PlainHolds DEF At

-----------------------------------------------------------------------------
(* Reading through the cache                                                 *)

\* From one step of an open to the next, with what is looked for.
LEMMA Onward ==
    ASSUME IInv, NEW p \in Process, proc[p].pc \in Fetching, proc[p].want # None,
           NEW r \in State, r.pc \in Fetching, Same(r, p), r.backend = proc[p].backend,
           r.ts = proc[p].ts, r.want = proc[p].want, r.raw # None => r.raw = r.want,
           r.pc \in {"tmp", "write", "replace", "evict"} => r.raw # None
    PROVE  Sound(r, since[p], live)
  <1>1. TreesFew(r) /\ LoadSound(r) /\ HandleSound(r)
    BY Each DEF TreesFew, LoadSound, HandleSound, Same, Fetching
  <1>2. FetchSound(r, since[p], live) BY Each DEF FetchSound, Same
  <1> QED BY <1>1, <1>2 DEF Sound

\* The bytes that are handed out.
LEMMA DeliverSound ==
    ASSUME IInv, NEW p \in Process, proc[p].pc \in Fetching, proc[p].want # None
    PROVE  LET r == [Over(proc[p]) EXCEPT
                       !.handle = [ts |-> proc[p].ts, data |-> proc[p].want, seen |-> since[p]]]
           IN  r \in State /\ Sound(r, since[p], live)
  <1> DEFINE h == [ts |-> proc[p].ts, data |-> proc[p].want, seen |-> since[p]]
             o == Over(proc[p])
             r == [o EXCEPT !.handle = h]
  <1>1. proc[p] \in State /\ since[p] \in SUBSET (Content \cup {Gone}) BY Each
  <1>2. h \in Handle BY <1>1 DEF Handle, State
  <1>3. o \in State /\ Sound(o, since[p], live) BY Each, OverState
  <1>4. o.kind = proc[p].kind /\ o.pc = "idle" BY <1>1 DEF Over, State
  <1>5. IF o.kind = "live" THEN h.data \in h.seen \ {Gone} ELSE h.data = Recorded[h.ts]
    BY <1>4, Each DEF FetchSound
  <1> HIDE DEF h, o
  <1>6. r \in State BY <1>2, <1>3 DEF State
  <1>7. TreesFew(r) /\ LoadSound(r) BY <1>3, <1>4 DEF Sound, TreesFew, LoadSound, State
  <1>8. FetchSound(r, since[p], live) BY <1>3, <1>4 DEF Sound, FetchSound, State
  <1>9. HandleSound(r) BY <1>3, <1>5 DEF HandleSound, State
  <1> QED BY <1>6, <1>7, <1>8, <1>9 DEF Sound, h, o

LEMMA LookupHitHolds == ASSUME IInv, NEW p \in Process, LookupHit(p) PROVE IInv'
  <1>1. At(p, "lookup") /\ Hit(p) /\ UNCHANGED <<remote, cache, since>> BY DEF LookupHit
  <1>2. Deliver(p, proc[p].want) BY <1>1 DEF LookupHit, Hit
  <1>3. proc[p].pc \in Fetching /\ proc[p].want # None
    BY <1>1, Each DEF FetchSound, Fetching, At
  <1> QED BY <1>1, <1>2, <1>3, DeliverSound, QuietHolds DEF Deliver, At

LEMMA AfterMissSound ==
    ASSUME IInv, NEW p \in Process, proc[p].pc \in {"lookup", "purge"}
    PROVE  AfterMiss(proc[p]) \in State /\ Sound(AfterMiss(proc[p]), since[p], live)
  <1> DEFINE c == IF proc[p].raw = None THEN "ids" ELSE "tmp"
             r == [proc[p] EXCEPT !.pc = c]
  <1>1. proc[p] \in State BY Each
  <1>2. AfterMiss(proc[p]) = r BY DEF AfterMiss
  <1>3. c \in Fetching /\ c \in PC /\ (c = "tmp" => proc[p].raw # None)
        /\ c \notin {"write", "replace", "evict"}
    BY DEF Fetching, PC
  <1> HIDE DEF c
  <1>4. r \in State BY <1>1, <1>3 DEF State
  <1>5. /\ Same(r, p) /\ r.pc = c /\ r.backend = proc[p].backend /\ r.ts = proc[p].ts
        /\ r.want = proc[p].want /\ r.raw = proc[p].raw
    BY <1>1 DEF Same, State
  <1>6. /\ proc[p].want # None /\ (proc[p].raw # None => proc[p].raw = proc[p].want)
        /\ proc[p].pc \in Fetching
    BY Each DEF FetchSound, Fetching
  <1> HIDE DEF r
  <1>7. Sound(r, since[p], live) BY <1>3, <1>4, <1>5, <1>6, Onward
  <1> QED BY <1>2, <1>4, <1>7

LEMMA LookupMissHolds == ASSUME IInv, NEW p \in Process, LookupMiss(p) PROVE IInv'
  <1>1. /\ At(p, "lookup") /\ ~At(p, "write") /\ UNCHANGED <<remote, cache, since>>
        /\ proc[p] \in State
    BY Each DEF LookupMiss, At
  <1> DEFINE r == [proc[p] EXCEPT !.pc = "purge"]
  <1>2. r \in State BY <1>1 DEF State, PC
  <1>3. /\ Same(r, p) /\ r.pc = "purge" /\ r.backend = proc[p].backend
        /\ r.ts = proc[p].ts /\ r.want = proc[p].want /\ r.raw = proc[p].raw
    BY <1>1 DEF Same, State
  <1>4. Set(p, r) \/ Set(p, AfterMiss(proc[p])) BY DEF LookupMiss
  <1> HIDE DEF r
  <1>5. /\ proc[p].want # None /\ (proc[p].raw # None => proc[p].raw = proc[p].want)
        /\ proc[p].pc \in Fetching
    BY <1>1, Each DEF FetchSound, Fetching, At
  <1>6. r.pc \in Fetching /\ r.pc \notin {"tmp", "write", "replace", "evict"}
    BY <1>3 DEF Fetching
  <1>7. Sound(r, since[p], live) BY <1>2, <1>3, <1>5, <1>6, Onward
  <1>8. AfterMiss(proc[p]) \in State /\ Sound(AfterMiss(proc[p]), since[p], live)
    BY <1>1, AfterMissSound DEF At
  <1> QED BY <1>1, <1>2, <1>4, <1>7, <1>8, QuietHolds

LEMMA PurgeHolds == ASSUME IInv, NEW p \in Process, Purge(p) PROVE IInv'
  <1> DEFINE r == AfterMiss(proc[p])
  <1>1. At(p, "purge") /\ UNCHANGED <<remote, tmp, since>> /\ Set(p, r) BY DEF Purge
  <1>2. r \in State /\ Sound(r, since[p], live) BY <1>1, AfterMissSound DEF At
  <1> HIDE DEF r
  <1>3. main' = [main EXCEPT ![proc[p].want] = Absent] BY DEF Purge
  <1>4. main' \in [Content -> FileState] /\ tmp' \in [Content -> FileState]
    BY <1>1, <1>3, AbsentState DEF IInv, Typed
  <1>5. \A c \in Content, q \in Process :
           q \in main'[c].open \cup tmp'[c].open => q \in main[c].open \cup tmp[c].open
    BY <1>1, <1>3, AbsentState DEF IInv, Typed
  <1>6. \A c \in Content : p \notin main'[c].open \cup tmp'[c].open
    BY <1>1, <1>5 DEF IInv, Writers, At
  <1>7. since' \in [Process -> SUBSET (Content \cup {Gone})] BY <1>1 DEF IInv, Typed
  <1> QED BY <1>1, <1>2, <1>4, <1>5, <1>6, <1>7, StepHolds

LEMMA BlobIdsHolds == ASSUME IInv, NEW p \in Process, BlobIds(p) PROVE IInv'
  <1> DEFINE b == Source(p)
             known == IF proc[p].known[b] = {} THEN Present(b) ELSE proc[p].known[b]
             r == [proc[p] EXCEPT !.known[b] = known]
             d == [r EXCEPT !.pc = "download"]
  <1>1. proc[p] \in State BY Each
  <1>2. At(p, "ids") /\ ~At(p, "write") /\ UNCHANGED <<remote, cache>> BY DEF BlobIds, At
  <1>3. \/ Set(p, d) /\ UNCHANGED since
        \/ Set(p, Over(r)) /\ since' = [since EXCEPT ![p] = {}]
    BY DEF BlobIds
  <1>4. b \in Backend => known \in SUBSET Content BY <1>1 DEF State, Present
  <1> HIDE DEF b, known
  <1>5. r \in State
    <2>1. CASE b \in Backend BY <1>1, <1>4, <2>1, SMTT(60) DEF State
    <2>2. CASE b \notin Backend BY <1>1, <2>2, SMTT(60) DEF State
    <2> QED BY <2>1, <2>2
  <1>6. /\ Same(r, p) /\ r.pc = "ids" /\ r.backend = proc[p].backend /\ r.ts = proc[p].ts
        /\ r.want = proc[p].want /\ r.raw = proc[p].raw
    BY <1>1, <1>2 DEF Same, State, At
  <1> HIDE DEF r
  <1>7. CASE Set(p, d) /\ UNCHANGED since
    <2>1. d \in State BY <1>5 DEF State, PC
    <2>2. /\ Same(d, p) /\ d.pc = "download" /\ d.backend = proc[p].backend
          /\ d.ts = proc[p].ts /\ d.want = proc[p].want /\ d.raw = proc[p].raw
      BY <1>5, <1>6 DEF Same, State
    <2> HIDE DEF d
    <2>3. /\ proc[p].want # None /\ (proc[p].raw # None => proc[p].raw = proc[p].want)
          /\ proc[p].pc \in Fetching
      BY <1>2, Each DEF FetchSound, Fetching, At
    <2>4. d.pc \in Fetching /\ d.pc \notin {"tmp", "write", "replace", "evict"}
      BY <2>2 DEF Fetching
    <2>5. Sound(d, since[p], live) BY <2>1, <2>2, <2>3, <2>4, Onward
    <2> QED BY <1>2, <1>7, <2>1, <2>5, QuietHolds
  <1>8. CASE Set(p, Over(r)) /\ since' = [since EXCEPT ![p] = {}]
    <2>1. TreesFew(r) /\ HandleSound(r) BY <1>6, Each DEF TreesFew, HandleSound, Same
    <2>2. Over(r) \in State /\ Sound(Over(r), since'[p], live) BY <1>5, <2>1, OverState
    <2>3. /\ since' \in [Process -> SUBSET (Content \cup {Gone})]
          /\ \A q \in Process \ {p} : since'[q] = since[q]
      BY <1>8 DEF IInv, Typed
    <2> QED BY <1>2, <1>8, <2>2, <2>3, PlainHolds
  <1> QED BY <1>3, <1>7, <1>8

LEMMA BlobIdsFailHolds == ASSUME IInv, NEW p \in Process, BlobIdsFail(p) PROVE IInv'
  BY FailHolds DEF BlobIdsFail, At

LEMMA DownloadBlobHolds == ASSUME IInv, NEW p \in Process, DownloadBlob(p) PROVE IInv'
  <1> DEFINE r == [proc[p] EXCEPT !.pc = "tmp", !.raw = proc[p].want]
  <1>1. /\ proc[p] \in State /\ At(p, "download") /\ ~At(p, "write") /\ proc[p].want # None
        /\ UNCHANGED <<remote, cache, since>> /\ Set(p, r)
    BY Each DEF DownloadBlob, At
  <1>2. r \in State BY <1>1 DEF State, PC
  <1>3. /\ Same(r, p) /\ r.pc = "tmp" /\ r.backend = proc[p].backend
        /\ r.ts = proc[p].ts /\ r.want = proc[p].want /\ r.raw = proc[p].want
    BY <1>1 DEF Same, State
  <1> HIDE DEF r
  <1>4. proc[p].pc \in Fetching /\ r.pc \in Fetching BY <1>1, <1>3 DEF Fetching, At
  <1>5. Sound(r, since[p], live) BY <1>1, <1>2, <1>3, <1>4, Onward
  <1> QED BY <1>1, <1>2, <1>5, QuietHolds

LEMMA DownloadFileHolds == ASSUME IInv, NEW p \in Process, DownloadFile(p) PROVE IInv'
  <1> DEFINE data == IF proc[p].kind = "live" THEN live[proc[p].backend]
                     ELSE Recorded[proc[p].ts]
             r == [proc[p] EXCEPT !.pc = "lookup", !.want = data, !.raw = data]
  <1>1. /\ proc[p] \in State /\ At(p, "download") /\ ~At(p, "write")
        /\ UNCHANGED <<remote, cache, since>> /\ Set(p, r)
        /\ proc[p].kind = "live" => data # Gone
    BY Each DEF DownloadFile, At
  <1>2. IF proc[p].kind = "live" THEN live[proc[p].backend] \in since[p]
        ELSE proc[p].ts \in Snapshot
    BY <1>1, Each DEF FetchSound, Fetching, At
  <1>3. live \in [Backend -> Content \cup {Gone}] BY DEF IInv, Typed
  <1>4. data \in Content BY <1>1, <1>2, <1>3 DEF State
  <1>5. IF proc[p].kind = "live" THEN data \in since[p] \ {Gone}
        ELSE data = Recorded[proc[p].ts]
    BY <1>1, <1>2
  <1> HIDE DEF data
  <1>6. r \in State BY <1>1, <1>4 DEF State, PC
  <1>7. /\ Same(r, p) /\ r.pc = "lookup" /\ r.backend = proc[p].backend
        /\ r.ts = proc[p].ts /\ r.want = data /\ r.raw = data
    BY <1>1 DEF Same, State
  <1> HIDE DEF r
  <1>8. TreesFew(r) /\ LoadSound(r) /\ HandleSound(r)
    BY <1>7, Each DEF TreesFew, LoadSound, HandleSound, Same
  <1>9. FetchSound(r, since[p], live)
    BY <1>2, <1>4, <1>5, <1>7 DEF FetchSound, Fetching, Same
  <1>10. Sound(r, since[p], live) BY <1>8, <1>9 DEF Sound
  <1> QED BY <1>1, <1>6, <1>10, QuietHolds

LEMMA DownloadFailHolds == ASSUME IInv, NEW p \in Process, DownloadFail(p) PROVE IInv'
  BY FailHolds DEF DownloadFail, At

-----------------------------------------------------------------------------
(* Writing to the cache                                                      *)

\* A process that goes on with a file of the cache.
LEMMA WritingHolds ==
    ASSUME IInv, NEW p \in Process, proc[p].pc \in {"tmp", "write", "replace"},
           NEW c \in {"write", "replace", "evict"},
           Set(p, [proc[p] EXCEPT !.pc = c]), UNCHANGED <<remote, since>>,
           main' \in [Content -> FileState], tmp' \in [Content -> FileState],
           \A d \in Content, q \in Process \ {p} :
               q \in main'[d].open \cup tmp'[d].open => q \in main[d].open \cup tmp[d].open,
           \A d \in Content :
               p \in main'[d].open \cup tmp'[d].open => c = "write" /\ proc[p].want = d
    PROVE  IInv'
  <1> DEFINE r == [proc[p] EXCEPT !.pc = c]
  <1>1. proc[p] \in State BY Each
  <1>2. r \in State BY <1>1 DEF State, PC
  <1>3. /\ Same(r, p) /\ r.pc = c /\ r.backend = proc[p].backend
        /\ r.ts = proc[p].ts /\ r.want = proc[p].want /\ r.raw = proc[p].raw
    BY <1>1 DEF Same, State
  <1> HIDE DEF r
  <1>4. /\ proc[p].pc \in Fetching /\ r.pc \in Fetching
        /\ proc[p].want # None /\ proc[p].raw = proc[p].want
    BY <1>3, Each DEF Fetching, FetchSound
  <1>5. Sound(r, since[p], live) BY <1>2, <1>3, <1>4, Onward
  <1>6. since' \in [Process -> SUBSET (Content \cup {Gone})] BY DEF IInv, Typed
  <1>7. Set(p, r) BY DEF r
  <1> QED BY <1>2, <1>3, <1>5, <1>6, <1>7, StepHolds

LEMMA OpenTmpHolds == ASSUME IInv, NEW p \in Process, OpenTmp(p) PROVE IInv'
  <1> DEFINE w == proc[p].want
             f == [there |-> TRUE, whole |-> FALSE, open |-> tmp[w].open \cup {p}]
  <1>1. /\ At(p, "tmp") /\ UNCHANGED <<remote, main, since>>
        /\ Set(p, [proc[p] EXCEPT !.pc = "write"]) /\ tmp' = [tmp EXCEPT ![w] = f]
    BY DEF OpenTmp
  <1>2. main \in [Content -> FileState] /\ tmp \in [Content -> FileState] BY DEF IInv, Typed
  <1>3. w \in Content BY <1>1, Each DEF FetchSound, Fetching, At, State
  <1>4. f \in FileState /\ f.open = tmp[w].open \cup {p} BY <1>2, <1>3 DEF FileState
  <1>5. \A d \in Content : p \notin main[d].open \cup tmp[d].open
    BY <1>1 DEF IInv, Writers, At
  <1> HIDE DEF f
  <1>6. main' \in [Content -> FileState] /\ tmp' \in [Content -> FileState]
    BY <1>1, <1>2, <1>4
  <1>7. \A d \in Content, q \in Process \ {p} :
           q \in main'[d].open \cup tmp'[d].open => q \in main[d].open \cup tmp[d].open
    BY <1>1, <1>2, <1>4
  <1>8. \A d \in Content : p \in main'[d].open \cup tmp'[d].open => w = d
    BY <1>1, <1>2, <1>4, <1>5
  <1> QED BY <1>1, <1>6, <1>7, <1>8, WritingHolds DEF At

LEMMA FilledFiles ==
    ASSUME NEW f \in [Content -> FileState], NEW p \in Process
    PROVE  /\ Filled(f, p) \in [Content -> FileState]
           /\ Closed(f, p) \in [Content -> FileState]
           /\ \A c \in Content : /\ Filled(f, p)[c].open = f[c].open \ {p}
                                /\ Closed(f, p)[c].open = f[c].open \ {p}
  <1>1. \A c \in Content : f[c] \in FileState OBVIOUS
  <1>2. \A c \in Content :
           LET g == [f[c] EXCEPT !.open = f[c].open \ {p}]
               h == [f[c] EXCEPT !.whole = TRUE, !.open = f[c].open \ {p}]
           IN  /\ g \in FileState /\ g.open = f[c].open \ {p}
               /\ h \in FileState /\ h.open = f[c].open \ {p}
    BY <1>1 DEF FileState
  <1>3. \A c \in Content : p \notin f[c].open => f[c].open = f[c].open \ {p} OBVIOUS
  <1> QED BY <1>1, <1>2, <1>3 DEF Filled, Closed

LEMMA WriteTmpHolds == ASSUME IInv, NEW p \in Process, WriteTmp(p) PROVE IInv'
  <1>1. /\ At(p, "write") /\ UNCHANGED <<remote, since>>
        /\ Set(p, [proc[p] EXCEPT !.pc = "replace"])
        /\ main' = Filled(main, p) /\ tmp' = Filled(tmp, p)
    BY DEF WriteTmp
  <1>2. main \in [Content -> FileState] /\ tmp \in [Content -> FileState] BY DEF IInv, Typed
  <1>3. /\ main' \in [Content -> FileState] /\ tmp' \in [Content -> FileState]
        /\ \A c \in Content : /\ main'[c].open = main[c].open \ {p}
                             /\ tmp'[c].open = tmp[c].open \ {p}
    BY <1>1, <1>2, FilledFiles
  <1>4. /\ \A c \in Content : p \notin main'[c].open \cup tmp'[c].open
        /\ \A c \in Content, q \in Process :
               q \in main'[c].open \cup tmp'[c].open => q \in main[c].open \cup tmp[c].open
    BY <1>3
  <1>5. proc[p].pc = "write" BY <1>1 DEF At
  <1> QED BY <1>1, <1>3, <1>4, <1>5, WritingHolds

LEMMA WriteFailHolds == ASSUME IInv, NEW p \in Process, WriteFail(p) PROVE IInv'
  <1> DEFINE w == proc[p].want
             r == IF proc[p].goal = "mount" THEN Off ELSE Over(proc[p])
  <1>1. /\ At(p, "write") /\ UNCHANGED remote /\ Fail(p)
        /\ main' = Closed(main, p) /\ tmp' = [tmp EXCEPT ![w] = Absent]
    BY DEF WriteFail
  <1>2. r \in State /\ Sound(r, since'[p], live) BY Each, OffState, OverState
  <1>3. Set(p, r) BY <1>1 DEF Fail
  <1> HIDE DEF r
  <1>4. /\ since' \in [Process -> SUBSET (Content \cup {Gone})]
        /\ \A q \in Process \ {p} : since'[q] = since[q]
    BY <1>1 DEF Fail, IInv, Typed
  <1>5. main \in [Content -> FileState] /\ tmp \in [Content -> FileState] BY DEF IInv, Typed
  <1>6. /\ main' \in [Content -> FileState]
        /\ \A c \in Content : main'[c].open = main[c].open \ {p}
    BY <1>1, <1>5, FilledFiles
  <1>7. /\ tmp' \in [Content -> FileState]
        /\ \A c \in Content : tmp'[c].open = IF c = w THEN {} ELSE tmp[c].open
    BY <1>1, <1>5, AbsentState
  <1>8. \A c \in Content : p \in tmp[c].open => c = w BY DEF IInv, Writers
  <1>9. \A c \in Content : p \notin main'[c].open \cup tmp'[c].open BY <1>6, <1>7, <1>8
  <1> QED BY <1>1, <1>2, <1>3, <1>4, <1>6, <1>7, <1>9, StepHolds

LEMMA ReplaceHolds == ASSUME IInv, NEW p \in Process, Replace(p) PROVE IInv'
  <1> DEFINE w == proc[p].want
  <1>1. /\ At(p, "replace") /\ UNCHANGED <<remote, since>>
        /\ Set(p, [proc[p] EXCEPT !.pc = "evict"])
        /\ main' = [main EXCEPT ![w] = tmp[w]] /\ tmp' = [tmp EXCEPT ![w] = Absent]
    BY DEF Replace
  <1>2. main \in [Content -> FileState] /\ tmp \in [Content -> FileState] BY DEF IInv, Typed
  <1>3. w \in Content BY <1>1, Each DEF FetchSound, Fetching, At, State
  <1>4. /\ main' \in [Content -> FileState] /\ tmp' \in [Content -> FileState]
        /\ \A c \in Content : /\ main'[c].open = IF c = w THEN tmp[w].open ELSE main[c].open
                             /\ tmp'[c].open = IF c = w THEN {} ELSE tmp[c].open
    BY <1>1, <1>2, <1>3, AbsentState
  <1>5. \A c \in Content : p \notin main[c].open \cup tmp[c].open
    BY <1>1 DEF IInv, Writers, At
  <1>6. \A c \in Content, q \in Process :
           q \in main'[c].open \cup tmp'[c].open => q \in main[c].open \cup tmp[c].open
    BY <1>4
  <1> QED BY <1>1, <1>4, <1>5, <1>6, WritingHolds DEF At

LEMMA ReplaceFailHolds == ASSUME IInv, NEW p \in Process, ReplaceFail(p) PROVE IInv'
  BY FailHolds DEF ReplaceFail, At

LEMMA EvictHolds == ASSUME IInv, NEW p \in Process, Evict(p) PROVE IInv'
  <1> DEFINE r == [Over(proc[p]) EXCEPT
                     !.handle = [ts |-> proc[p].ts, data |-> proc[p].want, seen |-> since[p]]]
  <1>1. PICK m \in SUBSET Files(main), t \in SUBSET Files(tmp) :
           /\ main' = [c \in Content |-> IF c \in m THEN Absent ELSE main[c]]
           /\ tmp' = [c \in Content |-> IF c \in t THEN Absent ELSE tmp[c]]
    BY DEF Evict
  <1>2. At(p, "evict") /\ UNCHANGED <<remote, since>> /\ Deliver(p, proc[p].raw)
    BY DEF Evict
  <1>3. proc[p].want # None /\ proc[p].raw = proc[p].want /\ proc[p].pc \in Fetching
    BY <1>2, Each DEF FetchSound, Fetching, At
  <1>4. r \in State /\ Sound(r, since[p], live) BY <1>3, DeliverSound
  <1>5. Set(p, r) BY <1>2, <1>3 DEF Deliver
  <1> HIDE DEF r
  <1>6. main \in [Content -> FileState] /\ tmp \in [Content -> FileState] BY DEF IInv, Typed
  <1>7. main' \in [Content -> FileState] /\ tmp' \in [Content -> FileState]
    BY <1>1, <1>6, AbsentState
  <1>8. \A c \in Content, q \in Process :
           q \in main'[c].open \cup tmp'[c].open => q \in main[c].open \cup tmp[c].open
    BY <1>1, <1>6, AbsentState
  <1>9. \A c \in Content : p \notin main'[c].open \cup tmp'[c].open
    BY <1>2, <1>8 DEF IInv, Writers, At
  <1>10. since' \in [Process -> SUBSET (Content \cup {Gone})] BY <1>2 DEF IInv, Typed
  <1> QED BY <1>2, <1>4, <1>5, <1>7, <1>8, <1>9, <1>10, StepHolds

LEMMA ReleaseHolds == ASSUME IInv, NEW p \in Process, Release(p) PROVE IInv'
  <1> DEFINE r == [proc[p] EXCEPT !.handle = None]
  <1>1. At(p, "idle") /\ UNCHANGED <<remote, cache>> /\ Set(p, r) /\ proc[p] \in State
    BY Each DEF Release
  <1>2. /\ since' \in [Process -> SUBSET (Content \cup {Gone})]
        /\ \A q \in Process \ {p} : since'[q] = since[q]
    BY DEF Release, IInv, Typed
  <1>3. r \in State BY <1>1 DEF State
  <1>4. TreesFew(r) /\ LoadSound(r) /\ HandleSound(r)
    BY <1>1, Each DEF TreesFew, LoadSound, HandleSound, State, At
  <1>5. FetchSound(r, since'[p], live) BY <1>1, IdleBare DEF FetchSound, Fetching, State, At
  <1> HIDE DEF r
  <1>6. Sound(r, since'[p], live) BY <1>4, <1>5 DEF Sound
  <1> QED BY <1>1, <1>2, <1>3, <1>6, PlainHolds DEF At

LEMMA KillHolds == ASSUME IInv, NEW p \in Process, Kill(p) PROVE IInv'
  <1>1. /\ UNCHANGED remote /\ Set(p, Off)
        /\ main' = Closed(main, p) /\ tmp' = Closed(tmp, p)
    BY DEF Kill
  <1>2. /\ since' \in [Process -> SUBSET (Content \cup {Gone})]
        /\ \A q \in Process \ {p} : since'[q] = since[q]
    BY DEF Kill, IInv, Typed
  <1>3. main \in [Content -> FileState] /\ tmp \in [Content -> FileState] BY DEF IInv, Typed
  <1>4. /\ main' \in [Content -> FileState] /\ tmp' \in [Content -> FileState]
        /\ \A c \in Content : /\ main'[c].open = main[c].open \ {p}
                             /\ tmp'[c].open = tmp[c].open \ {p}
    BY <1>1, <1>3, FilledFiles
  <1> QED BY <1>1, <1>2, <1>4, OffState, StepHolds

-----------------------------------------------------------------------------
(* What happens around the mounts                                            *)

\* A change that neither a process nor the live files see.
LEMMA AroundHolds ==
    ASSUME IInv, Typed', UNCHANGED <<proc, since, live>>,
           \A c \in Content : main'[c].open = main[c].open /\ tmp'[c].open = tmp[c].open
    PROVE  IInv'
  <1>1. Writers' BY DEF IInv, Writers, At
  <1>2. \A p \in Process : Sound(proc'[p], since'[p], live') BY DEF IInv
  <1> QED BY <1>1, <1>2 DEF IInv

LEMMA RotHolds == ASSUME IInv, Rot PROVE IInv'
  <1>1. PICK c \in Content : main' = [main EXCEPT ![c].whole = FALSE] BY DEF Rot
  <1>2. UNCHANGED <<remote, tmp, proc, since>> BY DEF Rot
  <1>3. main \in [Content -> FileState] BY DEF IInv, Typed
  <1>4. [main[c] EXCEPT !.whole = FALSE] \in FileState
        /\ [main[c] EXCEPT !.whole = FALSE].open = main[c].open
    BY <1>3 DEF FileState
  <1>5. /\ main' \in [Content -> FileState]
        /\ \A d \in Content : main'[d].open = main[d].open
    BY <1>1, <1>3, <1>4
  <1>6. Typed' BY <1>2, <1>5 DEF IInv, Typed, remote
  <1> QED BY <1>2, <1>5, <1>6, AroundHolds DEF remote

LEMMA MigrateHolds ==
    ASSUME IInv, NEW b \in Backend, NEW s \in Snapshot, Migrate(b, s) PROVE IInv'
  <1>1. UNCHANGED <<live, cache, proc, since>> BY DEF Migrate
  <1>2. at' \in [Backend -> [Snapshot -> Format]] BY DEF Migrate, IInv, Typed, Format
  <1>3. blob' \in [Backend -> [Content -> {"none", "whole", "torn"}]]
    BY DEF Migrate, IInv, Typed
  <1>4. Typed' BY <1>1, <1>2, <1>3 DEF IInv, Typed, cache
  <1> QED BY <1>1, <1>4, AroundHolds DEF cache

LEMMA ForgetHolds ==
    ASSUME IInv, NEW b \in Backend, NEW s \in Snapshot, Forget(b, s) PROVE IInv'
  <1>1. UNCHANGED <<live, cache, proc, since>> BY DEF Forget
  <1>2. at' \in [Backend -> [Snapshot -> Format]] BY DEF Forget, IInv, Typed, Format
  <1>3. blob' \in [Backend -> [Content -> {"none", "whole", "torn"}]]
    <2> DEFINE row == [c \in Content |->
                   IF \E t \in Snapshot \ {s} : at[b][t] = "blobs" /\ Recorded[t] = c
                   THEN blob[b][c] ELSE "none"]
    <2>1. row \in [Content -> {"none", "whole", "torn"}] BY DEF IInv, Typed
    <2>2. blob' = [blob EXCEPT ![b] = row] BY DEF Forget
    <2> HIDE DEF row
    <2> QED BY <2>1, <2>2 DEF IInv, Typed
  <1>4. Typed' BY <1>1, <1>2, <1>3 DEF IInv, Typed, cache
  <1> QED BY <1>1, <1>4, AroundHolds DEF cache

LEMMA DamageHolds ==
    ASSUME IInv, NEW b \in Backend, NEW c \in Content, Damage(b, c) PROVE IInv'
  <1>1. UNCHANGED <<at, live, cache, proc, since>> BY DEF Damage
  <1>2. blob' \in [Backend -> [Content -> {"none", "whole", "torn"}]]
    BY DEF Damage, IInv, Typed
  <1>3. Typed' BY <1>1, <1>2 DEF IInv, Typed, cache
  <1> QED BY <1>1, <1>3, AroundHolds DEF cache

\* An open that goes on while the live file changes notes what it becomes.
LEMMA PushHolds ==
    ASSUME IInv, NEW b \in Backend, NEW new \in Content \cup {Gone}, Push(b, new) PROVE IInv'
  <1>1. UNCHANGED <<at, blob, cache, proc>> /\ live' = [live EXCEPT ![b] = new] BY DEF Push
  <1>2. since' = [p \in Process |->
           IF since[p] # {} /\ proc[p].backend = b THEN since[p] \cup {new} ELSE since[p]]
    BY DEF Push
  <1>3. live' \in [Backend -> Content \cup {Gone}] BY <1>1 DEF IInv, Typed
  <1>4. since' \in [Process -> SUBSET (Content \cup {Gone})] BY <1>2 DEF IInv, Typed
  <1>5. Typed' BY <1>1, <1>3, <1>4 DEF IInv, Typed, cache
  <1>6. Writers' BY <1>1 DEF IInv, Writers, At, cache
  <1>7. ASSUME NEW p \in Process PROVE Sound(proc'[p], since'[p], live')
    <2>1. proc'[p] = proc[p] /\ proc[p].backend \in Backend BY <1>1, Each DEF State
    <2>2. since[p] \subseteq since'[p] BY <1>2
    <2>3. live[proc[p].backend] \in since[p] => live'[proc[p].backend] \in since'[p]
      BY <1>1, <1>2, <2>1 DEF IInv, Typed
    <2>4. FetchSound(proc[p], since'[p], live') BY <2>2, <2>3, Each DEF FetchSound
    <2> QED BY <2>1, <2>4, Each DEF Sound
  <1> QED BY <1>5, <1>6, <1>7 DEF IInv

LEMMA NextHolds == IInv /\ [Next]_vars => IInv'
  <1> SUFFICES ASSUME IInv, [Next]_vars PROVE IInv' OBVIOUS
  <1>1. CASE Others
    BY <1>1, RotHolds, MigrateHolds, ForgetHolds, DamageHolds, PushHolds DEF Others
  <1>2. ASSUME NEW p \in Process, Step(p) PROVE IInv'
    <2>0. "primary" \in Backend /\ 1 \in Snapshot BY DEF Backend, Snapshot
    <2>1. CASE \/ \E s \in Snapshot : MountSnapshot(p, s) \/ MountAsOf(p, s)
               \/ MountAll(p) \/ \E b \in Backend : MountLive(p, b)
      BY <2>0, <2>1, MountingHolds
    <2>2. CASE \/ Unmount(p) \/ OpenLoaded(p) \/ OpenNew(p) \/ OpenLive(p) \/ Look(p)
               \/ Inspect(p) \/ InspectFail(p) \/ Locate(p)
               \/ Refresh(p) \/ Expire(p) \/ Relist(p)
      BY <2>2, UnmountHolds, OpenLoadedHolds, OpenNewHolds, OpenLiveHolds, LookHolds,
         InspectHolds, InspectFailHolds, LocateHolds, RefreshHolds
    <2>3. CASE \/ LookupHit(p) \/ LookupMiss(p) \/ Purge(p) \/ BlobIds(p) \/ BlobIdsFail(p)
               \/ DownloadBlob(p) \/ DownloadFile(p) \/ DownloadFail(p)
      BY <2>3, LookupHitHolds, LookupMissHolds, PurgeHolds, BlobIdsHolds, BlobIdsFailHolds,
         DownloadBlobHolds, DownloadFileHolds, DownloadFailHolds
    <2>4. CASE \/ OpenTmp(p) \/ WriteTmp(p) \/ WriteFail(p) \/ Replace(p) \/ ReplaceFail(p)
               \/ Evict(p) \/ Release(p) \/ Kill(p)
      BY <2>4, OpenTmpHolds, WriteTmpHolds, WriteFailHolds, ReplaceHolds, ReplaceFailHolds,
         EvictHolds, ReleaseHolds, KillHolds
    <2> QED BY <1>2, <2>1, <2>2, <2>3, <2>4 DEF Step
  <1>3. CASE UNCHANGED vars
    <2>1. /\ UNCHANGED <<at, blob, live, main, tmp, proc, since>> BY <1>3 DEF vars
    <2>2. Typed' BY <2>1 DEF IInv, Typed
    <2> QED BY <2>1, <2>2, AroundHolds
  <1> QED BY <1>1, <1>2, <1>3 DEF Next

LEMMA Inductive == Spec => []IInv
  BY InitHolds, NextHolds, PTL DEF Spec

\* At most MAX_OPEN_SUBTREES snapshots are kept open, no timestamp twice, and a
\* file of the cache still to be written belongs to a process that writes it.
THEOREM TypeCorrect == Spec => []TypeOK
  <1>1. IInv => TypeOK
    <2> SUFFICES ASSUME IInv PROVE TypeOK OBVIOUS
    <2>1. \A c \in Content, p \in Process : p \in main[c].open \cup tmp[c].open => At(p, "write")
      BY DEF IInv, Writers
    <2>2. ASSUME NEW p \in Process
          PROVE  /\ Len(proc[p].trees) <= MaxOpen
                 /\ \A i, j \in DOMAIN proc[p].trees :
                        /\ proc[p].trees[i] \in Tree
                        /\ proc[p].trees[i].ts = proc[p].trees[j].ts => i = j
                 /\ \A b \in Backend : proc[p].known[b] \subseteq Content
      <3>1. /\ proc[p].trees \in Seq(Tree) /\ TreesFew(proc[p])
            /\ \A b \in Backend : proc[p].known[b] \subseteq Content
        BY Each DEF State
      <3> QED BY <3>1, SMTT(60) DEF TreesFew
    <2> QED BY <2>1, <2>2 DEF TypeOK, IInv, Typed
  <1> QED BY <1>1, Inductive, PTL

\* An open hands out the bytes its snapshot was taken of, or, in a live view, the
\* bytes the file had at some moment since the open began.
THEOREM BytesAreRightHolds == Spec => []BytesAreRight
  <1>1. IInv => BytesAreRight BY Each DEF BytesAreRight, HandleSound
  <1> QED BY <1>1, Inductive, PTL

=============================================================================
