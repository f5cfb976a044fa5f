--------------------------- MODULE SyncEvents_proofs ---------------------------
(* Proofs about SyncEvents: type correctness; that no line of the inbox and   *)
(* no message of the topic is lost; and, where commands take turns, that the  *)
(* log keeps its events and no watcher passes over one.                       *)
EXTENDS SyncEvents, SequenceTheorems, FiniteSetTheorems, TLAPS

Key == Event \cup {NoKey}

\* What a command remembers.
Run == [pc: {"idle", "work", "publish", "append", "flush"}, event: Key,
        cache: Seq(Event), loaded: BOOLEAN, copy: Seq(Event), dirty: BOOLEAN, again: BOOLEAN]

\* The event of a command under way is one, and the log it would write is short.
RunSound(r) ==
    /\ r.pc # "idle" => r.event \in Event
    /\ Len(r.cache) <= MaxLog

Watch == [pc: {"off", "on", "hand"}, key: Key, queue: Seq(Event), tail: Key, read: SUBSET Event]

EngineSound ==
    /\ channel \in Channels /\ count \in 0..MaxEvents
    /\ engine \in [Machine -> Run] /\ \A m \in Machine : RunSound(engine[m])
    /\ log \in Seq(Event) /\ Len(log) <= MaxLog

SubSound == sub \subseteq Event /\ IsFiniteSet(sub)

WatchSound == watcher \in [Watcher -> Watch] /\ watermark \in Key \cup {FirstRun}

\* The reader empties the inbox only of what it has taken; while no line is
\* lost none is cut short, and what was handed over is still somewhere.
InboxSound ==
    /\ handed \in [Watcher -> SUBSET Event]
    /\ inbox \subseteq Event \cup {Torn}
    /\ reader \in [pc: {"off", "locked", "print"}, lines: SUBSET (Event \cup {Torn})]
    /\ reader.pc = "locked" => reader.lines = inbox
    /\ reader.pc = "off" => reader.lines = {}
    /\ "line" \notin spoiled => /\ Torn \notin inbox \cup reader.lines
                                /\ \A w \in Watcher : handed[w] \subseteq inbox \cup reader.lines \cup printed

IInv == EngineSound /\ SubSound /\ WatchSound /\ InboxSound

USE EventsAssumption DEF EventsAssumption

LEMMA EventNew ==
    ASSUME NEW m \in Machine, NEW n \in 0..MaxEvents
    PROVE  [machine |-> m, n |-> n] \in Event
  BY DEF Event

LEMMA NullsDiffer == FirstRun \notin Event /\ NoKey \notin Event /\ Torn \notin Event
  BY DEF Event

\* The log after the cap is a log, and short.
LEMMA CappedLog ==
    ASSUME NEW s \in Seq(Event)
    PROVE  Capped(s) \in Seq(Event) /\ Len(Capped(s)) <= MaxLog
  <1>1. CASE Len(s) <= MaxLog BY <1>1 DEF Capped
  <1>2. CASE Len(s) > MaxLog
    <2> DEFINE k == Len(s) - MaxLog + 1
    <2>1. /\ k \in Int /\ Len(s) \in Int /\ k <= Len(s) /\ k >= 1
          /\ Len(s) - k + 1 = MaxLog
      BY <1>2
    <2>2. \A i \in k..Len(s) : s[i] \in Event BY <2>1
    <2>3. Capped(s) = SubSeq(s, k, Len(s)) BY <1>2 DEF Capped
    <2> HIDE DEF k
    <2>4. SubSeq(s, k, Len(s)) \in Seq(Event)
      BY <2>1, <2>2, SubSeqProperties
    <2>5. Len(SubSeq(s, k, Len(s))) = MaxLog BY <2>1, <2>2, SubSeqProperties
    <2> QED BY <2>3, <2>4, <2>5
  <1> QED BY <1>1, <1>2

LEMMA FreshEvents ==
    ASSUME NEW s \in Seq(Event), NEW key PROVE Fresh(s, key) \in Seq(Event)
  <1>1. CASE \E i \in 1..Len(s) : s[i] = key
    <2> DEFINE f == First(s, key)
    <2>1. f \in Nat \ {0}
      <3> DEFINE before == {i \in 1..Len(s) : \A j \in 1..i : s[j] # key}
      <3>1. IsFiniteSet(1..Len(s)) BY FS_Interval
      <3>2. IsFiniteSet(before) BY <3>1, FS_Subset
      <3> HIDE DEF before
      <3>3. Cardinality(before) \in Nat BY <3>2, FS_CardinalityType
      <3>4. f = 1 + Cardinality(before) BY DEF First, before
      <3> QED BY <3>3, <3>4
    <2>2. Fresh(s, key) = SubSeq(s, f + 1, Len(s)) BY <1>1 DEF Fresh
    <2> HIDE DEF f
    <2>3. \A i \in (f + 1)..Len(s) : s[i] \in Event BY <2>1
    <2>4. f + 1 \in Int /\ Len(s) \in Int BY <2>1
    <2> QED BY <2>2, <2>3, <2>4, SubSeqProperties
  <1>2. CASE ~\E i \in 1..Len(s) : s[i] = key BY <1>2 DEF Fresh
  <1> QED BY <1>1, <1>2

-----------------------------------------------------------------------------
LEMMA InitHolds == Init => IInv
  <1> SUFFICES ASSUME Init PROVE IInv OBVIOUS
  <1>1. ASSUME NEW m \in Machine, log = <<[machine |-> m, n |-> 0]>>
        PROVE  log \in Seq(Event) /\ Len(log) <= MaxLog
    <2>1. [machine |-> m, n |-> 0] \in Event BY EventNew
    <2> QED BY <1>1, <2>1
  <1>2. log \in Seq(Event) /\ Len(log) <= MaxLog
    <2>1. CASE log = <<>> BY <2>1
    <2>2. CASE \E m \in Machine : log = <<[machine |-> m, n |-> 0]>> BY <1>1, <2>2
    <2> QED BY <2>1, <2>2 DEF Init
  <1>3. Idle \in Run /\ RunSound(Idle) BY DEF Idle, Run, RunSound, Key
  <1>4. EngineSound BY <1>2, <1>3 DEF Init, EngineSound
  <1>5. SubSound BY FS_EmptySet DEF Init, SubSound
  <1>6. Off \in Watch BY DEF Off, Watch, Key
  <1>7. WatchSound BY <1>6 DEF Init, WatchSound
  <1>8. InboxSound BY DEF Init, InboxSound
  <1> QED BY <1>4, <1>5, <1>7, <1>8 DEF IInv

\* Steps that leave a part alone, or lose only what is not of it.
LEMMA EngineStays == EngineSound /\ UNCHANGED <<channel, engine, log, count>> => EngineSound'
  BY DEF EngineSound

LEMMA WatchStays == WatchSound /\ UNCHANGED <<watcher, watermark>> => WatchSound'
  BY DEF WatchSound

LEMMA InboxStays ==
    ASSUME InboxSound, UNCHANGED <<handed, inbox, reader, printed>>,
           "line" \in spoiled => "line" \in spoiled'
    PROVE  InboxSound'
  BY DEF InboxSound

\* The messages of the topic get fewer.
LEMMA SubShrinks == ASSUME SubSound, sub' \subseteq sub PROVE SubSound'
  BY FS_Subset DEF SubSound

-----------------------------------------------------------------------------
(* The engine                                                                 *)

LEMMA SetHolds ==
    ASSUME EngineSound, NEW m \in Machine, NEW r \in Run, RunSound(r), Set(m, r),
           channel' = channel, count' \in 0..MaxEvents,
           log' \in Seq(Event), Len(log') <= MaxLog
    PROVE  EngineSound'
  <1>1. engine' \in [Machine -> Run] BY DEF EngineSound, Set
  <1>2. \A q \in Machine : engine'[q] = IF q = m THEN r ELSE engine[q]
    BY DEF EngineSound, Set
  <1> QED BY <1>1, <1>2 DEF EngineSound

LEMMA EachRun ==
    ASSUME EngineSound, NEW m \in Machine
    PROVE  /\ engine[m] \in Run /\ RunSound(engine[m])
           /\ log \in Seq(Event) /\ Len(log) <= MaxLog
           /\ count \in 0..MaxEvents
           /\ Idle \in Run /\ RunSound(Idle)
  BY DEF EngineSound, Idle, Run, RunSound, Key

LEMMA BeginHolds ==
    ASSUME EngineSound, NEW m \in Machine, Begin(m) \/ Again(m) PROVE EngineSound'
  <1> DEFINE e == [machine |-> m, n |-> count + 1]
  <1>1. count + 1 \in 0..MaxEvents BY EachRun DEF Begin, Again
  <1>2. e \in Event BY <1>1, EventNew
  <1> HIDE DEF e
  <1> DEFINE b == [Idle EXCEPT !.pc = "work", !.event = e]
             a == [engine[m] EXCEPT !.pc = "work", !.again = TRUE, !.event = e]
  <1>3. b \in Run /\ RunSound(b) BY <1>2, EachRun DEF Idle, Run, RunSound, Key
  <1>4. a \in Run /\ RunSound(a)
    <2>1. engine[m] \in Run /\ RunSound(engine[m]) BY EachRun
    <2>2. a \in Run /\ a.event = e /\ a.cache = engine[m].cache BY <1>2, <2>1 DEF Run, Key
    <2> QED BY <1>2, <2>1, <2>2 DEF RunSound
  <1>5. /\ Set(m, a) \/ Set(m, b)
        /\ channel' = channel /\ log' = log /\ count' = count + 1
    BY DEF Begin, Again, e
  <1> HIDE DEF a, b
  <1> QED BY <1>1, <1>3, <1>4, <1>5, EachRun, SetHolds

LEMMA ReadContextHolds == ASSUME EngineSound, NEW m \in Machine, ReadContext(m) PROVE EngineSound'
  <1> DEFINE r == [engine[m] EXCEPT !.cache = log, !.loaded = TRUE]
  <1>1. r \in Run /\ RunSound(r) BY EachRun DEF Run, RunSound
  <1>2. Set(m, r) \/ Set(m, Idle) BY DEF ReadContext
  <1>3. UNCHANGED <<channel, log, count>> BY DEF ReadContext
  <1> HIDE DEF r
  <1> QED BY <1>1, <1>2, <1>3, EachRun, SetHolds

LEMMA PublishTopicHolds ==
    ASSUME EngineSound, SubSound, NEW m \in Machine, PublishTopic(m)
    PROVE  EngineSound' /\ SubSound'
  <1> DEFINE r == [engine[m] EXCEPT !.pc = "append"]
  <1>1. engine[m].event \in Event BY EachRun DEF PublishTopic, RunSound
  <1>2. r \in Run /\ RunSound(r) BY <1>1, EachRun DEF Run, RunSound
  <1>3. Set(m, r) /\ UNCHANGED <<channel, log, count>> BY DEF PublishTopic
  <1> HIDE DEF r
  <1>4. EngineSound' BY <1>2, <1>3, EachRun, SetHolds
  <1>5. sub' = sub \cup {engine[m].event} BY DEF PublishTopic
  <1>6. SubSound' BY <1>1, <1>5, FS_AddElement DEF SubSound
  <1> QED BY <1>4, <1>6

LEMMA PublishReadHolds == ASSUME EngineSound, NEW m \in Machine, PublishRead(m) PROVE EngineSound'
  <1> DEFINE r == [engine[m] EXCEPT !.pc = "publish", !.copy = log]
             f == [engine[m] EXCEPT !.pc = "publish"]
  <1>1. engine[m].event \in Event BY EachRun DEF PublishRead, RunSound
  <1>2. r \in Run /\ RunSound(r) /\ f \in Run /\ RunSound(f)
    <2>1. engine[m] \in Run /\ RunSound(engine[m]) /\ log \in Seq(Event) BY EachRun
    <2>2. r \in Run /\ r.event = engine[m].event /\ r.cache = engine[m].cache BY <2>1 DEF Run
    <2>3. f \in Run /\ f.event = engine[m].event /\ f.cache = engine[m].cache BY <2>1 DEF Run
    <2> QED BY <1>1, <2>1, <2>2, <2>3 DEF RunSound
  <1>3. Set(m, r) \/ Set(m, f) BY DEF PublishRead
  <1>4. UNCHANGED <<channel, log, count>> BY DEF PublishRead
  <1> HIDE DEF r, f
  <1> QED BY <1>2, <1>3, <1>4, EachRun, SetHolds

\* A log with one more event.
LEMMA Appended ==
    ASSUME NEW s \in Seq(Event), NEW e \in Event
    PROVE  Capped(Append(s, e)) \in Seq(Event) /\ Len(Capped(Append(s, e))) <= MaxLog
  BY AppendProperties, CappedLog

LEMMA PublishWriteHolds ==
    ASSUME EngineSound, NEW m \in Machine, PublishWrite(m) PROVE EngineSound'
  <1> DEFINE r == [engine[m] EXCEPT !.pc = "append", !.copy = <<>>]
             f == [engine[m] EXCEPT !.pc = "flush", !.copy = <<>>]
  <1>1. engine[m].event \in Event BY EachRun DEF PublishWrite, RunSound
  <1>2. r \in Run /\ RunSound(r) /\ f \in Run /\ RunSound(f)
    <2>1. <<>> \in Seq(Event) /\ engine[m] \in Run /\ RunSound(engine[m]) BY EachRun
    <2>2. r \in Run /\ f \in Run BY <2>1 DEF Run
    <2>3. /\ r.event = engine[m].event /\ r.cache = engine[m].cache
          /\ f.event = engine[m].event /\ f.cache = engine[m].cache
      BY <2>1 DEF Run
    <2> QED BY <1>1, <2>1, <2>2, <2>3 DEF RunSound
  <1>3. engine[m].copy \in Seq(Event) BY EachRun DEF Run
  <1>4. \/ Set(m, r) /\ log' = Capped(Append(engine[m].copy, engine[m].event))
        \/ Set(m, f) /\ log' = log
    BY DEF PublishWrite
  <1>5. UNCHANGED <<channel, count>> BY DEF PublishWrite
  <1> HIDE DEF r, f
  <1>6. log' \in Seq(Event) /\ Len(log') <= MaxLog BY <1>1, <1>3, <1>4, Appended, EachRun
  <1> QED BY <1>2, <1>4, <1>5, <1>6, EachRun, SetHolds

LEMMA AppendHolds ==
    ASSUME EngineSound, NEW m \in Machine, AppendToDriveLog(m) PROVE EngineSound'
  <1> DEFINE own == Capped(Append(OwnLog(m), engine[m].event))
             r == [engine[m] EXCEPT !.pc = "flush", !.dirty = TRUE, !.loaded = TRUE, !.cache = own]
             f == [engine[m] EXCEPT !.pc = "flush", !.dirty = TRUE, !.loaded = TRUE,
                                    !.cache = <<engine[m].event>>]
  <1>1. engine[m].event \in Event BY EachRun DEF AppendToDriveLog, RunSound
  <1>2. OwnLog(m) \in Seq(Event) BY EachRun DEF OwnLog, Run
  <1>3. own \in Seq(Event) /\ Len(own) <= MaxLog BY <1>1, <1>2, Appended
  <1>4. Set(m, r) \/ Set(m, f) BY DEF AppendToDriveLog
  <1> HIDE DEF own
  <1>5. r \in Run /\ RunSound(r) BY <1>1, <1>3, EachRun, ZenonT(60) DEF Run, RunSound
  <1>6. <<engine[m].event>> \in Seq(Event) /\ Len(<<engine[m].event>>) <= MaxLog BY <1>1
  <1>7. f \in Run /\ RunSound(f) BY <1>1, <1>6, EachRun, ZenonT(60) DEF Run, RunSound
  <1>8. UNCHANGED <<channel, log, count>> BY DEF AppendToDriveLog
  <1> HIDE DEF r, f
  <1> QED BY <1>4, <1>5, <1>7, <1>8, EachRun, SetHolds

LEMMA FlushHolds ==
    ASSUME EngineSound, NEW m \in Machine, Flush(m) \/ KillEngine(m) PROVE EngineSound'
  <1>1. engine[m].cache \in Seq(Event) /\ Len(engine[m].cache) <= MaxLog
    BY EachRun DEF Run, RunSound
  <1>2. Set(m, Idle) /\ (log' = log \/ log' = engine[m].cache) /\ UNCHANGED <<channel, count>>
    BY DEF Flush, KillEngine
  <1> QED BY <1>1, <1>2, EachRun, SetHolds

LEMMA EngineHolds == ASSUME IInv, NEW m \in Machine, EngineNext(m) PROVE IInv'
  <1>1. EngineSound /\ SubSound /\ WatchSound /\ InboxSound BY DEF IInv
  <1>2. UNCHANGED <<watchVars, inboxVars>> /\ ("line" \in spoiled => "line" \in spoiled')
    BY DEF EngineNext, Begin, Again, ReadContext, PublishTopic, PublishRead, PublishWrite,
           AppendToDriveLog, Flush, KillEngine
  <1>3. WatchSound' /\ InboxSound'
    BY <1>1, <1>2, WatchStays, InboxStays DEF watchVars, inboxVars
  <1>4. CASE PublishTopic(m) BY <1>1, <1>3, <1>4, PublishTopicHolds DEF IInv
  <1>5. CASE ~PublishTopic(m)
    <2>1. sub' = sub
      BY <1>5 DEF EngineNext, Begin, Again, ReadContext, PublishRead, PublishWrite,
           AppendToDriveLog, Flush, KillEngine
    <2>2. EngineSound'
      BY <1>1, <1>5, BeginHolds, ReadContextHolds, PublishReadHolds, PublishWriteHolds,
         AppendHolds, FlushHolds DEF EngineNext
    <2> QED BY <1>1, <1>3, <2>1, <2>2 DEF IInv, SubSound
  <1> QED BY <1>4, <1>5

-----------------------------------------------------------------------------
(* The watchers and the inbox                                                 *)

LEMMA WatcherSet ==
    ASSUME WatchSound, NEW w \in Watcher, NEW r \in Watch, SetW(w, r),
           watermark' \in Key \cup {FirstRun}
    PROVE  WatchSound'
  BY DEF WatchSound, SetW

LEMMA EachWatch ==
    ASSUME IInv
    PROVE  /\ EngineSound /\ SubSound /\ WatchSound /\ InboxSound
           /\ \A w \in Watcher : watcher[w] \in Watch
           /\ watermark \in Key \cup {FirstRun}
           /\ log \in Seq(Event)
           /\ Off \in Watch /\ "watch" \in Watcher /\ "once" \in Watcher
  BY DEF IInv, WatchSound, EngineSound, Off, Watch, Key, Watcher

LEMMA LogEnd == ASSUME IInv PROVE LastKey(log) \in Key /\ ToSet(log) \in SUBSET Event
  <1>1. log \in Seq(Event) BY EachWatch
  <1>2. log # <<>> => Len(log) \in 1..Len(log) BY <1>1
  <1> QED BY <1>1, <1>2 DEF LastKey, Last, ToSet, Key

\* A step of a watcher that leaves engine, log and inbox alone.
LEMMA WatcherHolds ==
    ASSUME IInv, NEW w \in Watcher, NEW r \in Watch, SetW(w, r),
           watermark' \in Key \cup {FirstRun}, sub' \subseteq sub,
           UNCHANGED <<channel, engine, log, count, handed, inbox, reader, printed, spoiled>>
    PROVE  IInv'
  BY EachWatch, WatcherSet, EngineStays, InboxStays, SubShrinks DEF IInv

LEMMA WatchStartHolds == ASSUME IInv, WatchStart PROVE IInv'
  <1> DEFINE r == [Off EXCEPT !.pc = "on"]
             k == [Off EXCEPT !.pc = "on", !.key = LastKey(log)]
  <1>1. r \in Watch /\ k \in Watch BY EachWatch, LogEnd DEF Watch
  <1>2. SetW("watch", r) \/ SetW("watch", k) BY DEF WatchStart
  <1>3. UNCHANGED <<channel, engine, log, count, handed, inbox, reader, printed, spoiled,
                    sub, watermark>>
    BY DEF WatchStart, engineVars, inboxVars
  <1> HIDE DEF r, k
  <1> QED BY <1>1, <1>2, <1>3, EachWatch, WatcherHolds

LEMMA PollHolds == ASSUME IInv, Poll \/ OncePoll PROVE IInv'
  <1> DEFINE r == [watcher["watch"] EXCEPT !.pc = "hand", !.tail = LastKey(log),
                        !.queue = Fresh(log, watcher["watch"].key), !.read = ToSet(log)]
             o == [pc |-> "hand", key |-> watermark, tail |-> LastKey(log),
                   queue |-> Fresh(log, watermark), read |-> ToSet(log)]
  <1>1. /\ Fresh(log, watcher["watch"].key) \in Seq(Event)
        /\ Fresh(log, watermark) \in Seq(Event)
    BY EachWatch, FreshEvents
  <1>2. r \in Watch BY <1>1, EachWatch, LogEnd DEF Watch
  <1>3. OncePoll => o \in Watch BY <1>1, EachWatch, LogEnd DEF Watch, OncePoll
  <1>4. \/ SetW("watch", r)
        \/ OncePoll /\ SetW("once", o)
    BY DEF Poll, OncePoll
  <1>5. UNCHANGED <<channel, engine, log, count, handed, inbox, reader, printed, spoiled,
                    sub, watermark>>
    BY DEF Poll, OncePoll, engineVars, inboxVars
  <1> HIDE DEF r, o
  <1> QED BY <1>2, <1>3, <1>4, <1>5, EachWatch, WatcherHolds

LEMMA OnceFirstHolds == ASSUME IInv, OnceFirst PROVE IInv'
  <1>1. watermark' \in Key \cup {FirstRun} BY LogEnd DEF OnceFirst, Key
  <1>2. UNCHANGED <<channel, engine, log, count, handed, inbox, reader, printed, spoiled,
                    sub, watcher>>
    BY DEF OnceFirst, engineVars, inboxVars
  <1>3. WatchSound' BY <1>1, <1>2, EachWatch DEF WatchSound
  <1> QED BY <1>2, <1>3, EachWatch, EngineStays, InboxStays, SubShrinks DEF IInv

LEMMA ReceiveHolds == ASSUME IInv, Receive PROVE IInv'
  <1>1. PICK e \in sub :
           /\ sub' = sub \ {e} \/ sub' = sub
           /\ SetW("watch", [watcher["watch"] EXCEPT !.pc = "hand", !.queue = <<e>>])
    BY DEF Receive
  <1> DEFINE r == [watcher["watch"] EXCEPT !.pc = "hand", !.queue = <<e>>]
  <1>2. e \in Event BY EachWatch DEF SubSound
  <1>3. r \in Watch
    <2>1. <<e>> \in Seq(Event) BY <1>2
    <2> QED BY <2>1, EachWatch DEF Watch
  <1>4. SetW("watch", r) /\ sub' \subseteq sub BY <1>1
  <1>5. UNCHANGED <<channel, engine, log, count, handed, inbox, reader, printed, spoiled, watermark>>
    BY DEF Receive, engineVars, inboxVars
  <1> HIDE DEF r
  <1> QED BY <1>3, <1>4, <1>5, EachWatch, WatcherHolds

LEMMA PullHolds == ASSUME IInv, Pull PROVE IInv'
  <1>1. PICK q \in SetToSeqs(sub) :
           SetW("once", [Off EXCEPT !.pc = "hand", !.queue = q, !.read = sub])
    BY DEF Pull
  <1> DEFINE r == [Off EXCEPT !.pc = "hand", !.queue = q, !.read = sub]
  <1>2. sub \subseteq Event /\ Cardinality(sub) \in Nat
    BY EachWatch, FS_CardinalityType DEF SubSound
  <1>3. q \in [1..Cardinality(sub) -> Event] BY <1>1, <1>2 DEF SetToSeqs
  <1>4. q \in Seq(Event) BY <1>2, <1>3, SeqDef
  <1>5. r \in Watch BY <1>2, <1>4, EachWatch DEF Watch
  <1>6. SetW("once", r) BY <1>1
  <1>7. UNCHANGED <<channel, engine, log, count, handed, inbox, reader, printed, spoiled, watermark, sub>>
    BY DEF Pull, engineVars, inboxVars
  <1> HIDE DEF r
  <1> QED BY <1>5, <1>6, <1>7, EachWatch, WatcherHolds

LEMMA EndHolds ==
    ASSUME IInv, \/ WatchEnd \/ OnceSave \/ OnceAck
                 \/ \E w \in Watcher : KillWatcher(w)
    PROVE  IInv'
  <1> DEFINE k == IF channel = "log" THEN watcher["watch"].tail ELSE NoKey
             r == [Off EXCEPT !.pc = "on", !.key = k]
  <1>1. k \in Key BY EachWatch DEF Watch, Key
  <1> HIDE DEF k
  <1>2. r \in Watch BY <1>1, EachWatch DEF Watch
  <1>3. \/ SetW("watch", r)
        \/ \E w \in Watcher : SetW(w, Off)
    BY EachWatch DEF WatchEnd, OnceSave, OnceAck, KillWatcher, k
  <1>4. watermark' \in Key \cup {FirstRun}
    <2>1. watcher["once"].tail \in Key BY EachWatch DEF Watch
    <2> QED BY <2>1, EachWatch DEF WatchEnd, OnceSave, OnceAck, KillWatcher
  <1>5. UNCHANGED <<channel, engine, log, count, handed, inbox, reader, printed, spoiled>>
        /\ sub' \subseteq sub
    BY DEF WatchEnd, OnceSave, OnceAck, KillWatcher, engineVars, inboxVars
  <1> HIDE DEF r
  <1> QED BY <1>2, <1>3, <1>4, <1>5, EachWatch, WatcherHolds

\* A line is written while the reader does not hold the lock, so that what the
\* reader empties is what it has taken.
LEMMA HandHolds == ASSUME IInv, NEW w \in Watcher, Hand(w) PROVE IInv'
  <1> DEFINE e == Head(watcher[w].queue)
             r == [watcher[w] EXCEPT !.queue = Tail(watcher[w].queue)]
  <1>1. watcher[w] \in Watch /\ watcher[w].queue \in Seq(Event) /\ watcher[w].queue # <<>>
    BY EachWatch DEF Watch, Hand
  <1>2. e \in Event /\ Tail(watcher[w].queue) \in Seq(Event) BY <1>1, HeadTailProperties
  <1>3. r \in Watch BY <1>1, <1>2 DEF Watch
  <1>4. SetW(w, r) BY DEF Hand
  <1>5. UNCHANGED <<channel, engine, log, count, watermark, sub>> BY DEF Hand, engineVars
  <1>6. WatchSound' BY <1>3, <1>4, <1>5, EachWatch, WatcherSet
  <1> HIDE DEF r
  <1>7. InboxSound'
    <2>1. CASE UNCHANGED <<handed, inbox, reader, printed, spoiled>>
      BY <2>1, EachWatch, InboxStays
    <2>2. CASE WriteInbox(e) /\ handed' = [handed EXCEPT ![w] = handed[w] \cup {e}]
      <3>1. handed' \in [Watcher -> SUBSET Event] BY <1>2, <2>2, EachWatch DEF InboxSound
      <3>2. \A v \in Watcher : handed'[v] \subseteq handed[v] \cup {e}
        BY <2>2, EachWatch DEF InboxSound
      <3>3. reader' = reader /\ printed' = printed /\ reader.pc # "locked"
        BY <2>2 DEF WriteInbox
      <3> HIDE DEF e
      <3>4. CASE inbox' = inbox \cup {e} /\ spoiled' = spoiled
        <4>1. e # Torn BY <1>2, NullsDiffer
        <4> QED BY <1>2, <3>1, <3>2, <3>3, <3>4, <4>1, EachWatch DEF InboxSound
      <3>5. CASE inbox' = inbox \cup {Torn} /\ spoiled' = spoiled \cup {"line"}
        BY <3>1, <3>3, <3>5, EachWatch DEF InboxSound
      <3> QED BY <2>2, <3>4, <3>5 DEF WriteInbox
    <2> QED BY <2>1, <2>2 DEF Hand, inboxVars
  <1> QED BY <1>5, <1>6, <1>7, EachWatch, EngineStays, SubShrinks DEF IInv

\* The reader goes on, and unless a line is lost what was somewhere still is.
LEMMA ReaderMoves ==
    ASSUME InboxSound, handed' = handed,
           NEW pc \in {"off", "locked", "print"}, NEW lines \in SUBSET (Event \cup {Torn}),
           reader' = [pc |-> pc, lines |-> lines], inbox' \subseteq Event \cup {Torn},
           pc = "locked" => lines = inbox', pc = "off" => lines = {},
           "line" \notin spoiled' =>
               /\ "line" \notin spoiled /\ Torn \notin inbox' \cup lines
               /\ inbox \cup reader.lines \cup printed \subseteq inbox' \cup lines \cup printed'
    PROVE  InboxSound'
  <1>1. reader'.pc = pc /\ reader'.lines = lines OBVIOUS
  <1>2. reader' \in [pc: {"off", "locked", "print"}, lines: SUBSET (Event \cup {Torn})] OBVIOUS
  <1>3. "line" \notin spoiled' =>
            \A w \in Watcher : handed'[w] \subseteq inbox' \cup reader'.lines \cup printed'
    BY <1>1 DEF InboxSound
  <1> QED BY <1>1, <1>2, <1>3 DEF InboxSound

LEMMA ReaderHolds ==
    ASSUME IInv, TakeInbox \/ ClearInbox \/ PrintInbox \/ KillReader PROVE IInv'
  <1>1. UNCHANGED <<channel, engine, log, count, sub, watcher, watermark, handed>>
    BY DEF TakeInbox, ClearInbox, PrintInbox, KillReader, engineVars, watchVars
  <1>2. /\ inbox \subseteq Event \cup {Torn}
        /\ reader \in [pc: {"off", "locked", "print"}, lines: SUBSET (Event \cup {Torn})]
        /\ reader.pc = "locked" => reader.lines = inbox
        /\ reader.pc = "off" => reader.lines = {}
        /\ "line" \notin spoiled => Torn \notin inbox \cup reader.lines
    BY EachWatch DEF InboxSound
  <1>3. ASSUME TakeInbox PROVE InboxSound'
    <2>1. /\ reader' = [pc |-> "locked", lines |-> inbox] /\ reader.lines = {}
          /\ UNCHANGED <<inbox, printed, spoiled>>
      BY <1>2, <1>3 DEF TakeInbox
    <2> QED BY <1>1, <1>2, <2>1, EachWatch, ReaderMoves
  <1>4. ASSUME ClearInbox PROVE InboxSound'
    <2>1. /\ reader' = [reader EXCEPT !.pc = "print"] /\ inbox' = {} /\ reader.lines = inbox
          /\ UNCHANGED <<printed, spoiled>>
      BY <1>2, <1>4 DEF ClearInbox
    <2>2. reader' = [pc |-> "print", lines |-> inbox] BY <1>2, <2>1
    <2> QED BY <1>1, <1>2, <2>1, <2>2, EachWatch, ReaderMoves
  <1>5. ASSUME PrintInbox PROVE InboxSound'
    <2>1. /\ reader' = [pc |-> "off", lines |-> {}] /\ UNCHANGED <<inbox, spoiled>>
          /\ "line" \notin spoiled => printed' = printed \cup reader.lines
      BY <1>2, <1>5 DEF PrintInbox
    <2> QED BY <1>1, <1>2, <2>1, EachWatch, ReaderMoves
  <1>6. ASSUME KillReader PROVE InboxSound'
    <2>1. /\ reader' = [pc |-> "off", lines |-> {}] /\ UNCHANGED <<inbox, printed>>
          /\ "line" \notin spoiled' => "line" \notin spoiled /\ reader.lines = inbox
      BY <1>2, <1>6 DEF KillReader
    <2> QED BY <1>1, <1>2, <2>1, EachWatch, ReaderMoves
  <1>7. InboxSound' BY <1>3, <1>4, <1>5, <1>6
  <1> QED BY <1>1, <1>7, EachWatch, EngineStays, WatchStays, SubShrinks DEF IInv

LEMMA NextHolds == IInv /\ [Next]_vars => IInv'
  <1> SUFFICES ASSUME IInv, [Next]_vars PROVE IInv' OBVIOUS
  <1>1. CASE UNCHANGED vars
    BY <1>1, EachWatch, EngineStays, WatchStays, InboxStays, SubShrinks DEF vars, IInv
  <1>2. CASE Next
    BY <1>2, EngineHolds, WatchStartHolds, PollHolds, OnceFirstHolds, ReceiveHolds, PullHolds,
       HandHolds, EndHolds, ReaderHolds DEF Next
  <1> QED BY <1>1, <1>2

LEMMA Inductive == Spec => []IInv
  BY InitHolds, NextHolds, PTL DEF Spec

\* The log never grows past MAX_LOG_ENTRIES, whatever copy of it a command
\* uploads, and watchers, watermark and inbox hold events.
THEOREM TypeCorrect == Spec => []TypeOK
  <1>1. IInv => TypeOK
    <2> SUFFICES ASSUME IInv PROVE TypeOK OBVIOUS
    <2>1. \A m \in Machine : engine[m] \in Run BY EachWatch, EachRun
    <2> QED BY <2>1, EachWatch DEF TypeOK, EngineSound, SubSound, WatchSound, InboxSound,
                                  Run, Watch, Key
  <1> QED BY <1>1, Inductive, PTL

\* Unless a line was cut short or a reader died, what a watcher handed to the
\* inbox is there, with the command that took it, or printed.
THEOREM LinesKeptHolds == Spec => []LinesKept
  <1>1. IInv => LinesKept BY DEF IInv, InboxSound, LinesKept
  <1> QED BY <1>1, Inductive, PTL

-----------------------------------------------------------------------------
(* On the topic.  Only `watch` takes a message off the subscription before it  *)
(* is told, and it has it in its queue then; what `watch --once` acknowledges   *)
(* has all been told.                                                           *)

Told(e) == e \in handed["watch"] \cup handed["once"]

Kept ==
    channel = "topic" =>
        /\ \A e \in published : Foreign(e) =>
               e \in sub \cup dropped \cup ToSet(watcher["watch"].queue) \/ Told(e)
        /\ watcher["watch"].pc # "hand" => watcher["watch"].queue = <<>>
        /\ watcher["once"].pc = "hand" =>
               \A e \in watcher["once"].read : Foreign(e) =>
                   e \in handed["once"] \cup ToSet(watcher["once"].queue)
        /\ \A m \in Machine : engine[m].pc # "publish"

\* A pull has all messages in its queue.
LEMMA PulledAll == ASSUME IsFiniteSet(sub), NEW q \in SetToSeqs(sub) PROVE ToSet(q) = sub
  <1> DEFINE n == Cardinality(sub)
  <1>1. n \in Nat BY FS_CardinalityType
  <1>2. q \in [1..n -> sub] /\ \A i, j \in 1..n : i # j => q[i] # q[j] BY DEF SetToSeqs
  <1> HIDE DEF n
  <1>3. q \in Injection(1..n, sub) BY <1>2 DEF Injection, IsInjective
  <1>4. Cardinality(1..n) = n BY <1>1, FS_Interval
  <1>5. q \in Surjection(1..n, sub) BY <1>3, <1>4, FS_Injection DEF n
  <1>6. \A e \in sub : \E i \in 1..n : q[i] = e BY <1>5 DEF Surjection
  <1> QED BY <1>2, <1>6 DEF ToSet

LEMMA SetOfSeq == ASSUME NEW q \in Seq(Event) PROVE ToSet(q) = {q[i] : i \in 1..Len(q)}
  BY DEF ToSet

LEMMA QueueHead ==
    ASSUME NEW q \in Seq(Event), q # <<>>
    PROVE  ToSet(q) = {Head(q)} \cup ToSet(Tail(q))
  <1>1. /\ Tail(q) \in Seq(Event) /\ Len(Tail(q)) = Len(q) - 1
        /\ \A i \in 1..Len(Tail(q)) : Tail(q)[i] = q[i + 1]
    BY HeadTailProperties
  <1>2. Len(q) \in Nat \ {0} /\ Head(q) = q[1] OBVIOUS
  <1>3. \A i \in 1..Len(q) : i = 1 \/ (i - 1 \in 1..Len(Tail(q)) /\ q[i] = Tail(q)[i - 1])
    BY <1>1, <1>2
  <1>4. \A i \in 1..Len(Tail(q)) : i + 1 \in 1..Len(q) BY <1>1, <1>2
  <1>5. ToSet(q) = {q[i] : i \in 1..Len(q)} BY SetOfSeq
  <1>6. ToSet(Tail(q)) = {Tail(q)[i] : i \in 1..Len(Tail(q))} BY <1>1, SetOfSeq
  <1>7. 1 \in 1..Len(q) BY <1>2
  <1>8. ASSUME NEW e \in ToSet(q) PROVE e \in {Head(q)} \cup ToSet(Tail(q))
    <2>1. PICK i \in 1..Len(q) : e = q[i] BY <1>5
    <2>2. CASE i = 1 BY <1>2, <2>1, <2>2
    <2>3. CASE i # 1
      <3>1. i - 1 \in 1..Len(Tail(q)) /\ e = Tail(q)[i - 1] BY <1>3, <2>1, <2>3
      <3> QED BY <1>6, <3>1, Zenon
    <2> QED BY <2>2, <2>3
  <1>9. ASSUME NEW e \in {Head(q)} \cup ToSet(Tail(q)) PROVE e \in ToSet(q)
    BY <1>1, <1>2, <1>4, <1>5, <1>6, <1>7
  <1> QED BY <1>8, <1>9

LEMMA EngineKeeps ==
    ASSUME IInv, Kept, NEW m \in Machine, EngineNext(m) PROVE Kept'
  <1> SUFFICES ASSUME channel' = "topic" PROVE Kept' BY DEF Kept
  <1>1. channel' = channel /\ UNCHANGED <<watcher, handed, dropped>>
    BY DEF EngineNext, Begin, ReadContext, PublishTopic, PublishRead, PublishWrite,
           AppendToDriveLog, Again, Flush, KillEngine, watchVars
  <1>2. engine[m].pc # "publish" /\ channel = "topic" BY <1>1 DEF Kept
  <1>3. \E r : r.pc # "publish" /\ Set(m, r)
    BY <1>2, EachWatch, EachRun
    DEF EngineNext, Begin, ReadContext, PublishTopic, PublishRead, PublishWrite,
        AppendToDriveLog, Again, Flush, KillEngine, Idle, Run
  <1>4. \A q \in Machine : engine'[q].pc # "publish"
    BY <1>2, <1>3, EachWatch DEF EngineSound, Set, Kept
  <1>5. \/ UNCHANGED <<sub, published>>
        \/ \E e : sub' = sub \cup {e} /\ published' = published \cup {e}
    BY <1>2 DEF EngineNext, Begin, ReadContext, PublishTopic, PublishRead, PublishWrite,
                AppendToDriveLog, Again, Flush, KillEngine
  <1> QED BY <1>1, <1>2, <1>4, <1>5 DEF Kept, Told

LEMMA InitKept == Init => Kept
  BY DEF Init, Kept, Idle, Off, Watcher

\* A step of `watch` on the topic.
LEMMA WatchKeeps ==
    ASSUME IInv, Kept, channel = "topic", channel' = channel,
           NEW r \in Watch, SetW("watch", r),
           UNCHANGED <<engine, published>>,
           handed'["once"] = handed["once"],
           r.pc # "hand" => r.queue = <<>>,
           \A e \in sub \cup dropped \cup ToSet(watcher["watch"].queue) : Foreign(e) =>
               e \in sub' \cup dropped' \cup ToSet(r.queue) \cup handed'["watch"],
           handed["watch"] \subseteq handed'["watch"]
    PROVE  Kept'
  <1>1. watcher'["watch"] = r /\ watcher'["once"] = watcher["once"]
    BY EachWatch DEF SetW, WatchSound
  <1>2. \A e : Told(e) => Told(e)' BY DEF Told
  <1> QED BY <1>1, <1>2 DEF Kept, Told

\* A step of `watch --once` on the topic.
LEMMA OnceKeeps ==
    ASSUME IInv, Kept, channel = "topic", channel' = channel,
           NEW r \in Watch, SetW("once", r),
           UNCHANGED <<engine, published, dropped>>,
           handed'["watch"] = handed["watch"],
           handed["once"] \subseteq handed'["once"],
           \A e \in sub : Foreign(e) => e \in sub' \cup handed'["once"],
           r.pc = "hand" => \A e \in r.read : Foreign(e) =>
                                e \in handed'["once"] \cup ToSet(r.queue)
    PROVE  Kept'
  <1>1. watcher'["once"] = r /\ watcher'["watch"] = watcher["watch"]
    BY EachWatch DEF SetW, WatchSound
  <1>2. \A e : Told(e) => Told(e)' BY DEF Told
  <1> QED BY <1>1, <1>2 DEF Kept, Told

LEMMA WatchStartKeeps == ASSUME IInv, Kept, channel = "topic", WatchStart PROVE Kept'
  <1> DEFINE r == [Off EXCEPT !.pc = "on"]
  <1>1. r \in Watch /\ r.queue = <<>> BY EachWatch DEF Watch, Off
  <1>2. SetW("watch", r) /\ watcher["watch"].pc = "off" BY DEF WatchStart
  <1>3. ToSet(watcher["watch"].queue) = {} BY <1>2 DEF Kept, ToSet
  <1>4. UNCHANGED <<channel, engine, published, handed, sub, dropped>>
    BY DEF WatchStart, engineVars
  <1> HIDE DEF r
  <1> QED BY <1>1, <1>2, <1>3, <1>4, WatchKeeps

LEMMA ReceiveKeeps == ASSUME IInv, Kept, Receive PROVE Kept'
  <1>1. PICK e \in sub :
           /\ sub' = sub \ {e} \/ sub' = sub
           /\ SetW("watch", [watcher["watch"] EXCEPT !.pc = "hand", !.queue = <<e>>])
    BY DEF Receive
  <1> DEFINE r == [watcher["watch"] EXCEPT !.pc = "hand", !.queue = <<e>>]
  <1>2. e \in Event BY EachWatch DEF SubSound
  <1>3. <<e>> \in Seq(Event) /\ ToSet(<<e>>) = {e} BY <1>2 DEF ToSet
  <1>4. r \in Watch /\ r.pc = "hand" /\ r.queue = <<e>>
    BY <1>3, EachWatch DEF Watch
  <1>5. SetW("watch", r) BY <1>1
  <1>6. /\ UNCHANGED <<channel, engine, published, handed, dropped>>
        /\ channel = "topic" /\ watcher["watch"].pc # "hand"
    BY DEF Receive, engineVars
  <1>7. ToSet(watcher["watch"].queue) = {} BY <1>6 DEF Kept, ToSet
  <1> HIDE DEF r
  <1> QED BY <1>1, <1>3, <1>4, <1>5, <1>6, <1>7, WatchKeeps

LEMMA PullKeeps == ASSUME IInv, Kept, Pull PROVE Kept'
  <1>1. PICK q \in SetToSeqs(sub) :
           SetW("once", [Off EXCEPT !.pc = "hand", !.queue = q, !.read = sub])
    BY DEF Pull
  <1> DEFINE r == [Off EXCEPT !.pc = "hand", !.queue = q, !.read = sub]
  <1>2. sub \subseteq Event /\ Cardinality(sub) \in Nat
    BY EachWatch, FS_CardinalityType DEF SubSound
  <1>3. q \in [1..Cardinality(sub) -> Event] BY <1>1, <1>2 DEF SetToSeqs
  <1>4. q \in Seq(Event) BY <1>2, <1>3, SeqDef
  <1>5. r \in Watch /\ r.read = sub /\ r.queue = q BY <1>2, <1>4, EachWatch DEF Watch, Off
  <1>6. ToSet(q) = sub BY <1>1, EachWatch, PulledAll DEF SubSound
  <1>7. UNCHANGED <<channel, engine, published, handed, sub, dropped>> /\ channel = "topic"
    BY DEF Pull, engineVars
  <1>8. SetW("once", r) BY <1>1
  <1> HIDE DEF r
  <1> QED BY <1>5, <1>6, <1>7, <1>8, OnceKeeps

\* The callback gets the first message of the queue and keeps the others there.
LEMMA HandKeeps ==
    ASSUME IInv, Kept, channel = "topic", NEW w \in Watcher, Hand(w) PROVE Kept'
  <1> DEFINE e == Head(watcher[w].queue)
             r == [watcher[w] EXCEPT !.queue = Tail(watcher[w].queue)]
  <1>1. watcher[w] \in Watch /\ watcher[w].queue \in Seq(Event) /\ watcher[w].queue # <<>>
        /\ watcher[w].pc = "hand"
    BY EachWatch DEF Watch, Hand
  <1>2. Tail(watcher[w].queue) \in Seq(Event) BY <1>1, HeadTailProperties
  <1>3. /\ r \in Watch /\ r.pc = "hand" /\ r.read = watcher[w].read
        /\ r.queue = Tail(watcher[w].queue)
    BY <1>1, <1>2 DEF Watch
  <1>4. ToSet(watcher[w].queue) = {e} \cup ToSet(r.queue) BY <1>1, <1>3, QueueHead
  <1>5. SetW(w, r) BY DEF Hand
  <1>6. UNCHANGED <<channel, engine, published, sub, dropped>> BY DEF Hand, engineVars
  <1>7. /\ \A v \in Watcher : v # w => handed'[v] = handed[v]
        /\ handed[w] \subseteq handed'[w]
        /\ Foreign(e) => e \in handed'[w]
    BY EachWatch DEF Hand, InboxSound
  <1> HIDE DEF e, r
  <1>8. CASE w = "watch" BY <1>3, <1>4, <1>5, <1>6, <1>7, <1>8, EachWatch, WatchKeeps
  <1>9. CASE w = "once"
    <2>1. \A x \in watcher["once"].read : Foreign(x) =>
              x \in handed["once"] \cup {e} \cup ToSet(r.queue)
      BY <1>1, <1>4, <1>9 DEF Kept
    <2>2. \A x \in r.read : Foreign(x) => x \in handed'["once"] \cup ToSet(r.queue)
      BY <1>3, <1>7, <1>9, <2>1
    <2> QED BY <1>3, <1>5, <1>6, <1>7, <1>9, <2>2, EachWatch, OnceKeeps
  <1> QED BY <1>8, <1>9 DEF Watcher

LEMMA WatchEndKeeps == ASSUME IInv, Kept, channel = "topic", WatchEnd PROVE Kept'
  <1> DEFINE r == [Off EXCEPT !.pc = "on", !.key = NoKey]
  <1>1. r \in Watch /\ r.queue = <<>> BY EachWatch DEF Watch, Off, Key
  <1>2. SetW("watch", r) /\ ToSet(watcher["watch"].queue) = {} BY DEF WatchEnd, ToSet
  <1>3. UNCHANGED <<channel, engine, published, handed, sub, dropped>>
    BY DEF WatchEnd, engineVars
  <1> HIDE DEF r
  <1> QED BY <1>1, <1>2, <1>3, WatchKeeps

\* What is acknowledged has been told.
LEMMA OnceAckKeeps == ASSUME IInv, Kept, OnceAck PROVE Kept'
  <1>1. /\ SetW("once", Off) /\ ToSet(watcher["once"].queue) = {}
        /\ watcher["once"].pc = "hand" /\ channel = "topic"
        /\ sub' = sub \ watcher["once"].read \/ sub' = sub
    BY DEF OnceAck, ToSet
  <1>2. \A e \in watcher["once"].read : Foreign(e) => e \in handed["once"] BY <1>1 DEF Kept
  <1>3. UNCHANGED <<channel, engine, published, handed, dropped>> BY DEF OnceAck, engineVars
  <1>4. Off.pc # "hand" BY DEF Off
  <1> QED BY <1>1, <1>2, <1>3, <1>4, EachWatch, OnceKeeps

LEMMA KillKeeps ==
    ASSUME IInv, Kept, channel = "topic", NEW w \in Watcher, KillWatcher(w) PROVE Kept'
  <1>1. Off.pc # "hand" /\ Off.queue = <<>> BY DEF Off
  <1>2. SetW(w, Off) /\ UNCHANGED <<channel, engine, published, handed, sub>>
    BY DEF KillWatcher, engineVars
  <1>3. CASE w = "watch"
    <2>1. dropped' = dropped \cup ToSet(watcher["watch"].queue) BY <1>3 DEF KillWatcher
    <2> QED BY <1>1, <1>2, <1>3, <2>1, EachWatch, WatchKeeps
  <1>4. CASE w = "once"
    <2>1. dropped' = dropped BY <1>4 DEF KillWatcher
    <2> QED BY <1>1, <1>2, <1>4, <2>1, EachWatch, OnceKeeps
  <1> QED BY <1>3, <1>4 DEF Watcher

LEMMA KeptStays ==
    ASSUME Kept, UNCHANGED <<channel, engine, published, sub, dropped, watcher, handed>>
    PROVE  Kept'
  BY DEF Kept, Told

LEMMA NextKeeps == IInv /\ Kept /\ [Next]_vars => Kept'
  <1> SUFFICES ASSUME IInv, Kept, [Next]_vars PROVE Kept' OBVIOUS
  <1>1. CASE UNCHANGED vars BY <1>1, KeptStays DEF vars
  <1>2. CASE TakeInbox \/ ClearInbox \/ PrintInbox \/ KillReader
    BY <1>2, KeptStays DEF TakeInbox, ClearInbox, PrintInbox, KillReader, engineVars, watchVars
  <1>3. CASE channel # "topic"
    <2>1. CASE channel' = channel BY <1>3, <2>1 DEF Kept
    <2>2. CASE Next
      <3>1. channel' = channel
        BY <2>2 DEF Next, EngineNext, Begin, ReadContext, PublishTopic, PublishRead,
             PublishWrite, AppendToDriveLog, Again, Flush, KillEngine, WatchStart, Poll,
             OnceFirst, OncePoll, Receive, Pull, Hand, WatchEnd, OnceSave, OnceAck,
             KillWatcher, TakeInbox, ClearInbox, PrintInbox, KillReader
      <3> QED BY <2>1, <3>1
    <2> QED BY <1>1, <2>2
  <1>4. CASE channel = "topic" /\ Next
    <2>1. ~Poll /\ ~OncePoll /\ ~OnceFirst /\ ~OnceSave
      BY <1>4 DEF Poll, OncePoll, OnceFirst, OnceSave
    <2> QED BY <1>2, <1>4, <2>1, EngineKeeps, WatchStartKeeps, ReceiveKeeps, PullKeeps,
               HandKeeps, WatchEndKeeps, OnceAckKeeps, KillKeeps DEF Next
  <1> QED BY <1>1, <1>3, <1>4

\* On the topic a message is still there until one of the watchers has given it
\* to the callback, unless `watch`, which acknowledges first, was killed with it.
THEOREM MessagesKeptHolds == Spec => []MessagesKept
  <1>1. Kept => MessagesKept BY DEF Kept, Told, MessagesKept, Watcher
  <1> QED BY <1>1, Inductive, InitKept, NextKeeps, PTL DEF Spec

-----------------------------------------------------------------------------
(* Logs with one more event.                                                   *)

Ordered(s) == \A i, j \in 1..Len(s) : i <= j => s[i].n <= s[j].n

\* No two events have one number.
Unlike(S) == \A x, y \in S : x.n = y.n => x = y

\* What is in one log and not in the other is older than all of that, which is full.
Outlives(old, new) ==
    \A x \in ToSet(old) \ ToSet(new) : Len(new) = MaxLog /\ \A y \in ToSet(new) : y.n > x.n

\* Counted from the end, what one log holds the other holds no later.
Behind(s, t) == \A i \in 1..Len(s) : \E j \in 1..Len(t) : t[j] = s[i] /\ Len(t) - j <= Len(s) - i

\* The events of a log that got one more.
LEMMA OneMore ==
    ASSUME NEW s \in Seq(Event), Len(s) <= MaxLog, NEW e \in Event
    PROVE  LET r == Capped(Append(s, e)) IN
           \E d \in {0, 1} :
              /\ r \in Seq(Event) /\ Len(r) = Len(s) + 1 - d /\ Len(r) \in 1..MaxLog
              /\ d = 1 <=> Len(s) = MaxLog
              /\ r[Len(r)] = e
              /\ \A i \in 1..(Len(r) - 1) : r[i] = s[i + d]
  <1> DEFINE a == Append(s, e)
             r == Capped(a)
             n == Len(s)
  <1>1. /\ a \in Seq(Event) /\ Len(a) = n + 1 /\ n \in Nat
        /\ a[n + 1] = e /\ \A i \in 1..n : a[i] = s[i]
    BY AppendProperties
  <1>2. CASE n < MaxLog
    <2>1. r = a BY <1>1, <1>2 DEF Capped
    <2> HIDE DEF a, r
    <2>2. r \in Seq(Event) /\ Len(r) = n + 1 - 0 /\ Len(r) \in 1..MaxLog /\ n # MaxLog
      BY <1>1, <1>2, <2>1
    <2>3. r[Len(r)] = e /\ \A i \in 1..(Len(r) - 1) : r[i] = s[i + 0] BY <1>1, <2>1
    <2> QED BY <2>2, <2>3 DEF r, a
  <1>3. CASE n = MaxLog
    <2>1. r = SubSeq(a, 2, Len(a))
      <3>1. Len(a) > MaxLog /\ Len(a) - MaxLog + 1 = 2 BY <1>1, <1>3
      <3> QED BY <3>1 DEF Capped
    <2> HIDE DEF a, r
    <2>2. \A i \in 2..Len(a) : a[i] \in Event BY <1>1
    <2>3. /\ r \in Seq(Event) /\ Len(r) = Len(a) - 2 + 1
          /\ \A i \in 1..(Len(a) - 2 + 1) : r[i] = a[2 + i - 1]
      BY <1>1, <1>3, <2>1, <2>2, SubSeqProperties
    <2>4. Len(r) = n /\ \A i \in 1..n : r[i] = a[i + 1] BY <1>1, <2>3
    <2>5. Len(r) = n + 1 - 1 /\ Len(r) \in 1..MaxLog BY <1>1, <1>3, <2>4
    <2>6. r[Len(r)] = e BY <1>1, <1>3, <2>4
    <2>7. \A i \in 1..(Len(r) - 1) : r[i] = s[i + 1]
      <3>1. \A i \in 1..(Len(r) - 1) : i \in 1..n /\ i + 1 \in 1..n BY <1>1, <2>4
      <3> QED BY <1>1, <2>4, <3>1
    <2> QED BY <1>3, <2>3, <2>5, <2>6, <2>7 DEF r, a
  <1> QED BY <1>1, <1>2, <1>3

LEMMA OneMoreSet ==
    ASSUME NEW s \in Seq(Event), Len(s) <= MaxLog, NEW e \in Event
    PROVE  /\ Capped(Append(s, e)) \in Seq(Event)
           /\ e \in ToSet(Capped(Append(s, e)))
           /\ ToSet(Capped(Append(s, e))) \subseteq ToSet(s) \cup {e}
  <1> DEFINE r == Capped(Append(s, e))
  <1>1. PICK d \in {0, 1} :
          /\ r \in Seq(Event) /\ Len(r) = Len(s) + 1 - d /\ Len(r) \in 1..MaxLog
          /\ r[Len(r)] = e
          /\ \A i \in 1..(Len(r) - 1) : r[i] = s[i + d]
    BY OneMore
  <1> HIDE DEF r
  <1>2. ToSet(r) = {r[i] : i \in 1..Len(r)} /\ ToSet(s) = {s[i] : i \in 1..Len(s)} BY <1>1, SetOfSeq
  <1>3. Len(r) \in 1..Len(r) /\ Len(s) \in Nat BY <1>1
  <1>4. \A i \in 1..Len(r) : i = Len(r) \/ (i \in 1..(Len(r) - 1) /\ i + d \in 1..Len(s)) BY <1>1, <1>3
  <1>5. \A i \in 1..Len(r) : r[i] = e \/ r[i] \in ToSet(s) BY <1>1, <1>2, <1>4
  <1> QED BY <1>1, <1>2, <1>3, <1>5 DEF r

LEMMA OneMoreOrdered ==
    ASSUME NEW s \in Seq(Event), Len(s) <= MaxLog, NEW e \in Event, Ordered(s),
           \A x \in ToSet(s) : x.n <= e.n
    PROVE  Ordered(Capped(Append(s, e)))
  <1> DEFINE r == Capped(Append(s, e))
  <1>1. PICK d \in {0, 1} :
          /\ r \in Seq(Event) /\ Len(r) = Len(s) + 1 - d /\ Len(r) \in 1..MaxLog
          /\ r[Len(r)] = e
          /\ \A i \in 1..(Len(r) - 1) : r[i] = s[i + d]
    BY OneMore
  <1> HIDE DEF r
  <1>2. Len(s) \in Nat /\ e.n <= e.n BY DEF Event
  <1>3. ASSUME NEW i \in 1..Len(r), NEW j \in 1..Len(r), i <= j PROVE r[i].n <= r[j].n
    <2>1. CASE i = Len(r) BY <1>1, <1>2, <1>3, <2>1
    <2>2. CASE i # Len(r)
      <3>1. i \in 1..(Len(r) - 1) /\ i + d \in 1..Len(s) /\ r[i] = s[i + d] BY <1>1, <1>2, <2>2
      <3>2. CASE j = Len(r)
        <4>1. s[i + d] \in ToSet(s) BY <3>1, SetOfSeq
        <4> QED BY <1>1, <3>1, <3>2, <4>1
      <3>3. CASE j # Len(r)
        <4>1. j \in 1..(Len(r) - 1) /\ j \in Nat /\ i \in Nat /\ d \in Nat BY <1>1, <1>2, <3>3
        <4>2. r[j] = s[j + d] BY <1>1, <4>1
        <4>3. j + d \in 1..Len(s) /\ i + d <= j + d BY <1>1, <1>2, <1>3, <4>1
        <4> QED BY <3>1, <4>2, <4>3 DEF Ordered
      <3> QED BY <3>2, <3>3
    <2> QED BY <2>1, <2>2
  <1> QED BY <1>3 DEF Ordered, r

\* One more event drops at most the oldest, and only from a log that is full.
LEMMA OneMoreOutlives ==
    ASSUME NEW old \in Seq(Event), NEW s \in Seq(Event), Len(s) <= MaxLog, NEW e \in Event,
           Ordered(s), Outlives(old, s), Unlike(ToSet(old) \cup ToSet(s) \cup {e}),
           \A x \in ToSet(old) \cup ToSet(s) : x.n <= e.n,
           NEW new, ToSet(new) \subseteq ToSet(old) \cup {e}
    PROVE  Outlives(new, Capped(Append(s, e)))
  <1> DEFINE r == Capped(Append(s, e))
  <1>1. PICK d \in {0, 1} :
          /\ r \in Seq(Event) /\ Len(r) = Len(s) + 1 - d /\ Len(r) \in 1..MaxLog
          /\ d = 1 <=> Len(s) = MaxLog
          /\ r[Len(r)] = e
          /\ \A i \in 1..(Len(r) - 1) : r[i] = s[i + d]
    BY OneMore
  <1>2. e \in ToSet(r) /\ ToSet(r) \subseteq ToSet(s) \cup {e} BY OneMoreSet
  <1> HIDE DEF r
  <1>3. ToSet(s) = {s[i] : i \in 1..Len(s)} /\ Len(s) \in Nat /\ ToSet(r) = {r[i] : i \in 1..Len(r)}
    <2>1. r \in Seq(Event) BY <1>1
    <2>2. ToSet(r) = {r[i] : i \in 1..Len(r)} BY <2>1, SetOfSeq
    <2> QED BY <2>2, SetOfSeq
  <1>4. \A x \in ToSet(old) \cup ToSet(s) \cup {e} : x.n \in Nat
    <2>1. ToSet(old) \subseteq Event /\ ToSet(s) \subseteq Event
      BY <1>3, SetOfSeq
    <2> QED BY <2>1 DEF Event
  <1> SUFFICES ASSUME NEW x \in ToSet(old), x # e, x \notin ToSet(r)
               PROVE  Len(r) = MaxLog /\ \A y \in ToSet(r) : y.n > x.n
    BY <1>2 DEF Outlives, r
  <1>5. x.n < e.n
    <2>1. x.n <= e.n /\ x.n # e.n BY DEF Unlike
    <2> QED BY <1>4, <2>1
  <1>6. CASE x \in ToSet(s)
    <2>1. PICK i \in 1..Len(s) : x = s[i] BY <1>3, <1>6
    <2>2. d = 1 /\ i = 1
      <3> SUFFICES ASSUME ~(d = 1 /\ i = 1) PROVE FALSE OBVIOUS
      <3>1. i - d \in 1..(Len(r) - 1) BY <1>1, <1>3
      <3>2. r[i - d] = x /\ i - d \in 1..Len(r) BY <1>1, <1>3, <2>1, <3>1
      <3> QED BY <1>3, <3>2
    <2>3. Len(r) = MaxLog BY <1>1, <2>2
    <2>4. ASSUME NEW y \in ToSet(s), y \in ToSet(r) PROVE y.n > x.n
      <3>1. PICK j \in 1..Len(s) : y = s[j] BY <1>3
      <3>2. x.n <= y.n BY <2>1, <2>2, <3>1 DEF Ordered
      <3>3. x.n # y.n BY <1>6, <2>4 DEF Unlike
      <3> QED BY <1>4, <1>6, <3>2, <3>3
    <2> QED BY <1>2, <1>5, <2>3, <2>4
  <1>7. CASE x \notin ToSet(s)
    <2>1. Len(s) = MaxLog /\ \A y \in ToSet(s) : y.n > x.n BY <1>7 DEF Outlives
    <2> QED BY <1>1, <1>2, <1>5, <2>1
  <1> QED BY <1>6, <1>7

LEMMA OutlivesItself == ASSUME NEW s PROVE Outlives(s, s)
  BY DEF Outlives

LEMMA BehindItself == ASSUME NEW s \in Seq(Event) PROVE Behind(s, s)
  BY DEF Behind

LEMMA BehindSet == ASSUME NEW s \in Seq(Event), NEW t \in Seq(Event), Behind(s, t) PROVE ToSet(s) \subseteq ToSet(t)
  BY SetOfSeq DEF Behind

LEMMA OneMoreBehind ==
    ASSUME NEW s \in Seq(Event), Len(s) <= MaxLog, NEW t \in Seq(Event), Len(t) <= MaxLog,
           NEW e \in Event, Behind(s, t)
    PROVE  Behind(Capped(Append(s, e)), Capped(Append(t, e)))
  <1> DEFINE r == Capped(Append(s, e))
             q == Capped(Append(t, e))
  <1>1. PICK d \in {0, 1} :
          /\ r \in Seq(Event) /\ Len(r) = Len(s) + 1 - d /\ Len(r) \in 1..MaxLog
          /\ r[Len(r)] = e
          /\ \A i \in 1..(Len(r) - 1) : r[i] = s[i + d]
    BY OneMore
  <1>2. PICK c \in {0, 1} :
          /\ q \in Seq(Event) /\ Len(q) = Len(t) + 1 - c /\ Len(q) \in 1..MaxLog
          /\ c = 1 <=> Len(t) = MaxLog
          /\ q[Len(q)] = e
          /\ \A i \in 1..(Len(q) - 1) : q[i] = t[i + c]
    BY OneMore
  <1> HIDE DEF r, q
  <1>3. Len(s) \in Nat /\ Len(t) \in Nat /\ d \in Nat /\ c \in Nat OBVIOUS
  <1>4. ASSUME NEW i \in 1..Len(r) PROVE \E j \in 1..Len(q) : q[j] = r[i] /\ Len(q) - j <= Len(r) - i
    <2>1. CASE i = Len(r)
      <3>1. Len(q) \in 1..Len(q) /\ Len(q) - Len(q) <= Len(r) - i BY <1>1, <1>2, <2>1
      <3> QED BY <1>1, <1>2, <2>1, <3>1
    <2>2. CASE i # Len(r)
      <3>1. i \in 1..(Len(r) - 1) /\ i + d \in 1..Len(s) BY <1>1, <1>3, <2>2
      <3>2. PICK j \in 1..Len(t) : t[j] = s[i + d] /\ Len(t) - j <= Len(s) - (i + d) BY <3>1 DEF Behind
      <3> DEFINE lr == Len(r)
                 lq == Len(q)
                 ls == Len(s)
                 lt == Len(t)
      <3>3. /\ ls \in Nat /\ lt \in Nat /\ lr = ls + 1 - d /\ lq = lt + 1 - c
            /\ lr \in 1..MaxLog /\ lq \in 1..MaxLog /\ (c = 1 => lt = MaxLog)
            /\ i \in 1..(lr - 1) /\ j \in 1..lt /\ lt - j <= ls - (i + d)
        BY <1>1, <1>2, <1>3, <3>1, <3>2
      <3>4. q[j - c] = t[(j - c) + c] \/ j - c \notin 1..(lq - 1) BY <1>2
      <3>5. r[i] = s[i + d] BY <1>1, <3>1
      <3> HIDE DEF lr, lq, ls, lt
      <3>6. j - c \in 1..(lq - 1) /\ j - c \in 1..lq /\ (j - c) + c = j /\ lq - (j - c) <= lr - i
        BY <1>3, <3>3
      <3>7. q[j - c] = t[j] BY <3>4, <3>6
      <3> USE DEF lr, lq
      <3> QED BY <3>2, <3>5, <3>6, <3>7
    <2> QED BY <2>1, <2>2
  <1> QED BY <1>4 DEF Behind, r, q

\* The event that is appended is the last one already.
LEMMA TwiceBehind ==
    ASSUME NEW t \in Seq(Event), Len(t) <= MaxLog, t # <<>>, NEW e \in Event, t[Len(t)] = e
    PROVE  Behind(Capped(Append(t, e)), t)
  <1> DEFINE r == Capped(Append(t, e))
  <1>1. PICK d \in {0, 1} :
          /\ r \in Seq(Event) /\ Len(r) = Len(t) + 1 - d /\ Len(r) \in 1..MaxLog
          /\ r[Len(r)] = e
          /\ \A i \in 1..(Len(r) - 1) : r[i] = t[i + d]
    BY OneMore
  <1> HIDE DEF r
  <1>2. Len(t) \in Nat \ {0} OBVIOUS
  <1>3. ASSUME NEW i \in 1..Len(r) PROVE \E j \in 1..Len(t) : t[j] = r[i] /\ Len(t) - j <= Len(r) - i
    <2>1. CASE i = Len(r)
      <3>1. Len(t) \in 1..Len(t) /\ Len(t) - Len(t) <= Len(r) - i BY <1>1, <1>2, <2>1
      <3> QED BY <1>1, <2>1, <3>1
    <2>2. CASE i # Len(r)
      <3>1. i \in 1..(Len(r) - 1) /\ i + d \in 1..Len(t) /\ Len(t) - (i + d) <= Len(r) - i
        BY <1>1, <1>2, <2>2
      <3> QED BY <1>1, <3>1
    <2> QED BY <2>1, <2>2
  <1> QED BY <1>3 DEF Behind, r

-----------------------------------------------------------------------------
(* The log, where commands take turns.  A command writes it twice, through the  *)
(* notifier and from its own copy, which may have been read before: the copy    *)
(* never lacks more than the log has dropped, and never has more than the log.   *)

Unsaid == {"work", "publish"}

\* An event from before the one that is still to be published.
Past(x) ==
    /\ x.n <= count
    /\ \A m \in Machine : engine[m].pc \in Unsaid => x.n < engine[m].event.n

Turns == \A m, o \in Machine : m # o /\ engine[m].pc # "idle" => engine[o].pc = "idle"

LogOK == Ordered(log) /\ Unlike(ToSet(log)) /\ \A x \in ToSet(log) : Past(x)

\* The log that the command will write.
Due(m) ==
    IF engine[m].pc = "append" THEN Capped(Append(engine[m].cache, engine[m].event)) ELSE engine[m].cache

RunOK(m) ==
    /\ engine[m].event.n = count
    /\ engine[m].dirty => engine[m].loaded
    /\ ~engine[m].loaded => engine[m].cache = <<>>
    /\ Unlike(ToSet(log) \cup ToSet(engine[m].cache) \cup {engine[m].event})
    /\ Ordered(engine[m].cache) /\ \A x \in ToSet(engine[m].cache) : Past(x)
    /\ engine[m].pc = "publish" => engine[m].copy = log /\ channel = "log"
    /\ engine[m].loaded => Outlives(log, Due(m))
    /\ channel = "log" =>
         /\ engine[m].loaded => Behind(Due(m), log)
         /\ engine[m].pc = "append" => log # <<>> /\ log[Len(log)] = engine[m].event

LInv ==
    "log" \notin spoiled =>
       /\ Turns /\ LogOK
       /\ \A m \in Machine : engine[m].pc # "idle" => RunOK(m)

LEMMA SetOne ==
    ASSUME EngineSound, NEW m \in Machine, NEW r, Set(m, r)
    PROVE  engine'[m] = r /\ \A q \in Machine : q # m => engine'[q] = engine[q]
  BY DEF EngineSound, Set

\* A step of one command, while the others have none.
LEMMA OneRuns ==
    ASSUME EngineSound, NEW m \in Machine, NEW r, Set(m, r),
           \A q \in Machine : q # m => engine[q].pc = "idle",
           LogOK', r.pc # "idle" => RunOK(m)'
    PROVE  LInv'
  <1>1. engine'[m] = r /\ \A q \in Machine : q # m => engine'[q].pc = "idle" BY SetOne
  <1>2. Turns' BY <1>1 DEF Turns
  <1> QED BY <1>1, <1>2 DEF LInv

LEMMA PastStays ==
    ASSUME EngineSound, NEW m \in Machine, NEW r, Set(m, r),
           \A q \in Machine : q # m => engine[q].pc = "idle",
           count' \in Nat, count <= count',
           r.pc \in Unsaid => \/ engine[m].pc \in Unsaid /\ r.event = engine[m].event
                              \/ r.event.n \in Nat /\ r.event.n > count,
           NEW x \in Event, Past(x)
    PROVE  Past(x)'
  <1>1. engine'[m] = r /\ \A q \in Machine : q # m => engine'[q].pc = "idle" BY SetOne
  <1>2. x.n \in Nat /\ count \in Nat /\ x.n <= count BY DEF Event, EngineSound, Past
  <1>3. x.n <= count' BY <1>2
  <1>4. r.pc \in Unsaid => x.n < r.event.n BY <1>2 DEF Past
  <1> QED BY <1>1, <1>3, <1>4 DEF Past, Unsaid

LEMMA SetOfEvents == ASSUME NEW s \in Seq(Event) PROVE ToSet(s) \subseteq Event
  BY SetOfSeq

LEMMA NoEvents == /\ ToSet(<<>>) = {} /\ Ordered(<<>>) /\ \A t : Behind(<<>>, t)
  BY DEF ToSet, Ordered, Behind

\* What a command at work may rely on.
LEMMA AtWork ==
    ASSUME EngineSound, LInv, "log" \notin spoiled, NEW m \in Machine, engine[m].pc # "idle"
    PROVE  /\ LogOK /\ RunOK(m) /\ \A q \in Machine : q # m => engine[q].pc = "idle"
           /\ engine[m] \in Run /\ engine[m].event \in Event /\ engine[m].event.n \in Nat
           /\ engine[m].cache \in Seq(Event) /\ Len(engine[m].cache) <= MaxLog
           /\ log \in Seq(Event) /\ Len(log) <= MaxLog /\ count \in Nat
           /\ ToSet(log) \subseteq Event /\ ToSet(engine[m].cache) \subseteq Event
  <1>1. engine[m] \in Run /\ RunSound(engine[m]) /\ log \in Seq(Event) /\ Len(log) <= MaxLog /\ count \in Nat
    BY EachRun
  <1>2. engine[m].event \in Event /\ engine[m].cache \in Seq(Event) /\ Len(engine[m].cache) <= MaxLog
    BY <1>1 DEF Run, RunSound
  <1>3. engine[m].event.n \in Nat BY <1>2 DEF Event
  <1>4. ToSet(log) \subseteq Event /\ ToSet(engine[m].cache) \subseteq Event BY <1>1, <1>2, SetOfEvents
  <1> QED BY <1>1, <1>2, <1>3, <1>4 DEF LInv, Turns

LEMMA BeginLogs ==
    ASSUME ~Overlap, EngineSound, LInv, "log" \notin spoiled, NEW m \in Machine, Begin(m) PROVE LInv'
  <1> DEFINE e == [machine |-> m, n |-> count + 1]
             r == [Idle EXCEPT !.pc = "work", !.event = e]
  <1>1. /\ \A q \in Machine : engine[q].pc = "idle"
        /\ Set(m, r) /\ UNCHANGED <<channel, log, spoiled>> /\ count' = count + 1
    BY DEF Begin
  <1>2. count \in Nat /\ count' \in Nat /\ count + 1 \in 0..MaxEvents /\ log \in Seq(Event)
    BY <1>1, EachRun DEF Begin
  <1>3. e \in Event /\ e.n = count + 1 BY <1>2, EventNew
  <1>4. /\ r.pc = "work" /\ r.event = e /\ ~r.loaded /\ ~r.dirty /\ r.cache = <<>>
    BY DEF Idle
  <1>5. engine'[m] = r BY <1>1, SetOne
  <1> HIDE DEF e, r
  <1>6. ToSet(log) \subseteq Event BY <1>2, SetOfEvents
  <1>7. LogOK /\ ToSet(log)' = ToSet(log) BY <1>1 DEF LInv
  <1>8. \A x \in ToSet(log) : Past(x)'
    BY <1>1, <1>2, <1>3, <1>4, <1>6, <1>7, PastStays DEF LogOK
  <1>9. LogOK' BY <1>1, <1>7, <1>8 DEF LogOK
  <1>10. Unlike(ToSet(log) \cup {e})
    <2>1. \A x \in ToSet(log) : x.n \in Nat /\ x.n <= count BY <1>6, <1>7 DEF LogOK, Past, Event
    <2>2. \A x \in ToSet(log) : x.n # e.n BY <1>2, <1>3, <2>1
    <2> QED BY <1>7, <2>2 DEF LogOK, Unlike
  <1>11. RunOK(m)'
    BY <1>1, <1>3, <1>4, <1>5, <1>7, <1>10, NoEvents DEF RunOK
  <1> QED BY <1>1, <1>9, <1>11, OneRuns

\* The second event of a command.
LEMMA AgainLogs ==
    ASSUME EngineSound, LInv, "log" \notin spoiled, NEW m \in Machine, Again(m) PROVE LInv'
  <1> DEFINE e == [machine |-> m, n |-> count + 1]
             r == [engine[m] EXCEPT !.pc = "work", !.again = TRUE, !.event = e]
  <1>1. /\ engine[m].pc = "flush"
        /\ Set(m, r) /\ UNCHANGED <<channel, log, spoiled>> /\ count' = count + 1
    BY DEF Again
  <1>2. /\ LogOK /\ RunOK(m) /\ \A q \in Machine : q # m => engine[q].pc = "idle"
        /\ engine[m] \in Run /\ count \in Nat /\ ToSet(log) \subseteq Event /\ ToSet(engine[m].cache) \subseteq Event
    BY <1>1, AtWork
  <1>3. e \in Event /\ e.n = count + 1
    <2>1. count + 1 \in 0..MaxEvents BY EachRun DEF Again
    <2> QED BY <2>1, EventNew
  <1>4. /\ r.pc = "work" /\ r.event = e /\ r.loaded = engine[m].loaded /\ r.dirty = engine[m].dirty
        /\ r.cache = engine[m].cache
    BY <1>2 DEF Run
  <1>5. engine'[m] = r BY <1>1, SetOne
  <1> HIDE DEF e, r
  <1>6. \A x \in ToSet(log) \cup ToSet(engine[m].cache) : Past(x)'
    BY <1>1, <1>2, <1>3, <1>4, PastStays DEF LogOK, RunOK
  <1>7. LogOK' BY <1>1, <1>2, <1>6 DEF LogOK
  <1>8. Unlike(ToSet(log) \cup ToSet(engine[m].cache) \cup {e})
    <2>1. \A x \in ToSet(log) \cup ToSet(engine[m].cache) : x.n \in Nat /\ x.n <= count
      BY <1>2 DEF LogOK, RunOK, Past, Event
    <2>2. \A x \in ToSet(log) \cup ToSet(engine[m].cache) : x.n # e.n BY <1>2, <1>3, <2>1
    <2> QED BY <1>2, <2>2 DEF RunOK, Unlike
  <1>9. Due(m) = engine[m].cache /\ Due(m)' = engine[m].cache BY <1>1, <1>4, <1>5 DEF Due
  <1>10. RunOK(m)'
    BY <1>1, <1>2, <1>3, <1>4, <1>5, <1>6, <1>8, <1>9 DEF RunOK
  <1> QED BY <1>1, <1>2, <1>7, <1>10, OneRuns

LEMMA ReadContextLogs ==
    ASSUME EngineSound, LInv, "log" \notin spoiled, NEW m \in Machine, ReadContext(m) PROVE LInv'
  <1> DEFINE r == [engine[m] EXCEPT !.cache = log, !.loaded = TRUE]
  <1>1. /\ engine[m].pc = "work" /\ (Set(m, r) \/ Set(m, Idle))
        /\ UNCHANGED <<channel, log, spoiled, count>>
    BY DEF ReadContext
  <1>2. /\ LogOK /\ RunOK(m) /\ \A q \in Machine : q # m => engine[q].pc = "idle"
        /\ engine[m] \in Run /\ count \in Nat /\ log \in Seq(Event) /\ ToSet(log) \subseteq Event
    BY AtWork DEF ReadContext
  <1>3. /\ r.pc = engine[m].pc /\ r.event = engine[m].event /\ r.loaded /\ r.cache = log
    BY <1>2 DEF Run
  <1>4. Idle.pc = "idle" BY DEF Idle
  <1> HIDE DEF r
  <1>5. CASE Set(m, Idle)
    <2>1. \A x \in ToSet(log) : Past(x)' BY <1>1, <1>2, <1>4, <1>5, PastStays DEF LogOK, Unsaid
    <2>2. LogOK' BY <1>1, <1>2, <2>1 DEF LogOK
    <2> QED BY <1>1, <1>2, <1>4, <1>5, <2>2, OneRuns
  <1>6. CASE engine[m].pc = "work" /\ Set(m, r)
    <2>1. engine'[m] = r BY <1>6, SetOne
    <2>2. \A x \in ToSet(log) : Past(x)' BY <1>1, <1>2, <1>3, <1>6, PastStays DEF LogOK, Unsaid
    <2>3. LogOK' BY <1>1, <1>2, <2>2 DEF LogOK
    <2>4. Due(m)' = log BY <1>3, <1>6, <2>1 DEF Due
    <2>5. Unlike(ToSet(log) \cup ToSet(log) \cup {engine[m].event}) BY <1>2 DEF RunOK, Unlike
    <2>6. RunOK(m)'
      BY <1>1, <1>2, <1>3, <1>6, <2>1, <2>2, <2>4, <2>5, OutlivesItself, BehindItself DEF RunOK, LogOK
    <2> QED BY <1>1, <1>2, <1>6, <2>3, <2>6, OneRuns
  <1> QED BY <1>1, <1>5, <1>6

\* The notifier of the topic leaves the log alone.
LEMMA PublishTopicLogs ==
    ASSUME EngineSound, LInv, "log" \notin spoiled, NEW m \in Machine, PublishTopic(m) PROVE LInv'
  <1> DEFINE r == [engine[m] EXCEPT !.pc = "append"]
  <1>1. /\ engine[m].pc = "work" /\ Set(m, r) /\ channel = "topic"
        /\ UNCHANGED <<channel, log, spoiled, count>>
    BY DEF PublishTopic
  <1>2. /\ LogOK /\ RunOK(m) /\ \A q \in Machine : q # m => engine[q].pc = "idle"
        /\ engine[m] \in Run /\ count \in Nat /\ log \in Seq(Event)
        /\ engine[m].event \in Event /\ engine[m].event.n \in Nat
        /\ engine[m].cache \in Seq(Event) /\ Len(engine[m].cache) <= MaxLog
        /\ ToSet(log) \subseteq Event /\ ToSet(engine[m].cache) \subseteq Event
    BY <1>1, AtWork
  <1>3. /\ r.pc = "append" /\ r.event = engine[m].event /\ r.cache = engine[m].cache
        /\ r.loaded = engine[m].loaded /\ r.dirty = engine[m].dirty
    BY <1>2 DEF Run
  <1>4. engine'[m] = r BY <1>1, SetOne
  <1> HIDE DEF r
  <1>5. \A x \in ToSet(log) \cup ToSet(engine[m].cache) : Past(x)'
    BY <1>1, <1>2, <1>3, PastStays DEF LogOK, RunOK, Unsaid
  <1>6. LogOK' BY <1>1, <1>2, <1>5 DEF LogOK
  <1>7. engine[m].loaded => Outlives(log, Capped(Append(engine[m].cache, engine[m].event)))
    <2>1. \A x \in ToSet(log) \cup ToSet(engine[m].cache) : x.n <= engine[m].event.n
      BY <1>2 DEF RunOK, LogOK, Past
    <2>2. engine[m].loaded => Outlives(log, engine[m].cache) BY <1>1, <1>2 DEF RunOK, Due
    <2>3. ToSet(log) \subseteq ToSet(log) \cup {engine[m].event} OBVIOUS
    <2> QED BY <1>2, <2>1, <2>2, <2>3, OneMoreOutlives DEF RunOK
  <1>8. Due(m)' = Capped(Append(engine[m].cache, engine[m].event)) BY <1>3, <1>4 DEF Due
  <1>9. RunOK(m)' BY <1>1, <1>2, <1>3, <1>4, <1>5, <1>7, <1>8 DEF RunOK
  <1> QED BY <1>1, <1>2, <1>6, <1>9, OneRuns

LEMMA PublishReadLogs ==
    ASSUME EngineSound, LInv, "log" \notin spoiled', NEW m \in Machine, PublishRead(m) PROVE LInv'
  <1> DEFINE r == [engine[m] EXCEPT !.pc = "publish", !.copy = log]
  <1>1. /\ engine[m].pc = "work" /\ Set(m, r) /\ channel = "log"
        /\ UNCHANGED <<channel, log, spoiled, count>>
    BY DEF PublishRead
  <1>2. /\ LogOK /\ RunOK(m) /\ \A q \in Machine : q # m => engine[q].pc = "idle"
        /\ engine[m] \in Run /\ count \in Nat /\ log \in Seq(Event)
        /\ ToSet(log) \subseteq Event /\ ToSet(engine[m].cache) \subseteq Event
    BY <1>1, AtWork
  <1>3. /\ r.pc = "publish" /\ r.event = engine[m].event /\ r.cache = engine[m].cache
        /\ r.loaded = engine[m].loaded /\ r.dirty = engine[m].dirty /\ r.copy = log
    BY <1>2 DEF Run
  <1>4. engine'[m] = r BY <1>1, SetOne
  <1> HIDE DEF r
  <1>5. \A x \in ToSet(log) \cup ToSet(engine[m].cache) : Past(x)'
    BY <1>1, <1>2, <1>3, PastStays DEF LogOK, RunOK, Unsaid
  <1>6. LogOK' BY <1>1, <1>2, <1>5 DEF LogOK
  <1>7. Due(m)' = engine[m].cache /\ Due(m) = engine[m].cache BY <1>1, <1>3, <1>4 DEF Due
  <1>8. RunOK(m)' BY <1>1, <1>2, <1>3, <1>4, <1>5, <1>7 DEF RunOK
  <1> QED BY <1>1, <1>2, <1>6, <1>8, OneRuns

\* The notifier's upload: the log with one more event.
LEMMA UploadLogs ==
    ASSUME EngineSound, LInv, "log" \notin spoiled, NEW m \in Machine, engine[m].pc = "publish",
           Set(m, [engine[m] EXCEPT !.pc = "append", !.copy = <<>>]),
           log' = Capped(Append(engine[m].copy, engine[m].event)),
           UNCHANGED <<channel, spoiled, count>>
    PROVE  LInv' /\ log' = Capped(Append(log, engine[m].event))
  <1> DEFINE r == [engine[m] EXCEPT !.pc = "append", !.copy = <<>>]
             e == engine[m].event
             c == engine[m].cache
  <1>2. /\ LogOK /\ RunOK(m) /\ \A q \in Machine : q # m => engine[q].pc = "idle"
        /\ engine[m] \in Run /\ count \in Nat /\ log \in Seq(Event) /\ Len(log) <= MaxLog
        /\ e \in Event /\ e.n \in Nat /\ c \in Seq(Event) /\ Len(c) <= MaxLog
        /\ ToSet(log) \subseteq Event /\ ToSet(c) \subseteq Event
    BY AtWork
  <1>3. /\ r.pc = "append" /\ r.event = e /\ r.cache = c
        /\ r.loaded = engine[m].loaded /\ r.dirty = engine[m].dirty
    BY <1>2 DEF Run
  <1>4. engine'[m] = r BY SetOne
  <1>5. log' = Capped(Append(log, e)) /\ channel = "log" /\ e.n = count BY <1>2 DEF RunOK
  <1> HIDE DEF r
  <1>6. log' \in Seq(Event) /\ e \in ToSet(log') /\ ToSet(log') \subseteq ToSet(log) \cup {e}
    BY <1>2, <1>5, OneMoreSet
  <1>7. \A q \in Machine : engine'[q].pc \notin Unsaid
    BY <1>2, <1>3, <1>4, SetOne DEF Unsaid
  <1>8. \A x \in ToSet(log) \cup ToSet(c) \cup {e} : x.n <= e.n /\ x.n <= count /\ Past(x)'
    <2>1. \A x \in ToSet(log) \cup ToSet(c) \cup {e} : x.n <= count
      BY <1>2, <1>5 DEF LogOK, RunOK, Past
    <2> QED BY <1>5, <1>7, <2>1 DEF Past
  <1>9. Unlike(ToSet(log) \cup ToSet(c) \cup {e}) BY <1>2 DEF RunOK
  <1>10. Unlike(ToSet(log') \cup ToSet(c) \cup {e}) BY <1>6, <1>9 DEF Unlike
  <1>11. LogOK'
    <2>1. Ordered(log)' BY <1>2, <1>5, <1>8, OneMoreOrdered DEF LogOK
    <2>2. Unlike(ToSet(log)') BY <1>10 DEF Unlike
    <2> QED BY <1>6, <1>8, <2>1, <2>2 DEF LogOK
  <1>12. Due(m)' = Capped(Append(c, e)) /\ Due(m) = c BY <1>3, <1>4 DEF Due
  <1>13. engine[m].loaded => Outlives(log', Capped(Append(c, e))) /\ Behind(Capped(Append(c, e)), log')
    <2>1. SUFFICES ASSUME engine[m].loaded
                   PROVE  Outlives(log', Capped(Append(c, e))) /\ Behind(Capped(Append(c, e)), log')
      OBVIOUS
    <2>2. Outlives(log, c) /\ Behind(c, log) /\ Ordered(c) BY <1>2, <1>5, <1>12, <2>1 DEF RunOK
    <2>3. Outlives(log', Capped(Append(c, e)))
      BY <1>2, <1>6, <1>8, <1>9, <2>2, OneMoreOutlives
    <2>4. Behind(Capped(Append(c, e)), log') BY <1>2, <1>5, <2>2, OneMoreBehind
    <2> QED BY <2>3, <2>4
  <1>14. log' # <<>> /\ log'[Len(log')] = e
    <2> DEFINE q == Capped(Append(log, e))
    <2>1. \E d \in {0, 1} : Len(q) \in 1..MaxLog /\ q[Len(q)] = e BY <1>2, OneMore
    <2> HIDE DEF q
    <2>2. Len(q) \in 1..MaxLog /\ q[Len(q)] = e BY <2>1
    <2>3. q # <<>> BY <2>2
    <2> QED BY <1>5, <2>2, <2>3 DEF q
  <1>15. RunOK(m)' BY <1>2, <1>3, <1>4, <1>5, <1>8, <1>10, <1>12, <1>13, <1>14 DEF RunOK
  <1> QED BY <1>2, <1>3, <1>5, <1>11, <1>15, OneRuns

LEMMA PublishWriteLogs ==
    ASSUME EngineSound, LInv, "log" \notin spoiled, NEW m \in Machine, PublishWrite(m) PROVE LInv'
  <1> DEFINE r == [engine[m] EXCEPT !.pc = "flush", !.copy = <<>>]
  <1>1. CASE log' = log /\ Set(m, r)
    <2>1. engine[m].pc = "publish" /\ UNCHANGED <<channel, spoiled, count>> BY DEF PublishWrite
    <2>2. /\ LogOK /\ RunOK(m) /\ \A q \in Machine : q # m => engine[q].pc = "idle"
          /\ engine[m] \in Run /\ count \in Nat
          /\ ToSet(log) \subseteq Event /\ ToSet(engine[m].cache) \subseteq Event
      BY <2>1, AtWork
    <2>3. /\ r.pc = "flush" /\ r.event = engine[m].event /\ r.cache = engine[m].cache
          /\ r.loaded = engine[m].loaded /\ r.dirty = engine[m].dirty
      BY <2>2 DEF Run
    <2>4. engine'[m] = r BY <1>1, SetOne
    <2> HIDE DEF r
    <2>5. \A x \in ToSet(log) \cup ToSet(engine[m].cache) : Past(x)'
      BY <1>1, <2>1, <2>2, <2>3, PastStays DEF LogOK, RunOK, Unsaid
    <2>6. LogOK' BY <1>1, <2>2, <2>5 DEF LogOK
    <2>7. Due(m)' = engine[m].cache /\ Due(m) = engine[m].cache BY <2>1, <2>3, <2>4 DEF Due
    <2>8. RunOK(m)' BY <1>1, <2>1, <2>2, <2>3, <2>4, <2>5, <2>7 DEF RunOK
    <2> QED BY <1>1, <2>2, <2>6, <2>8, OneRuns
  <1>2. CASE log' # log \/ ~Set(m, r)
    BY <1>2, UploadLogs DEF PublishWrite
  <1> QED BY <1>1, <1>2

\* The engine's own copy of the log gets the event.
LEMMA AppendLogs ==
    ASSUME EngineSound, LInv, "log" \notin spoiled', NEW m \in Machine, AppendToDriveLog(m) PROVE LInv'
  <1> DEFINE own == Capped(Append(OwnLog(m), engine[m].event))
             r == [engine[m] EXCEPT !.pc = "flush", !.dirty = TRUE, !.loaded = TRUE, !.cache = own]
             e == engine[m].event
             c == engine[m].cache
  <1>1. /\ Set(m, r) /\ UNCHANGED <<channel, log, spoiled, count>>
        /\ engine[m].pc = "append" \/ (channel = "none" /\ engine[m].pc = "work")
    BY DEF AppendToDriveLog
  <1>2. /\ LogOK /\ RunOK(m) /\ \A q \in Machine : q # m => engine[q].pc = "idle"
        /\ engine[m] \in Run /\ count \in Nat /\ log \in Seq(Event) /\ Len(log) <= MaxLog
        /\ e \in Event /\ e.n \in Nat /\ c \in Seq(Event) /\ Len(c) <= MaxLog
        /\ ToSet(log) \subseteq Event /\ ToSet(c) \subseteq Event
    BY <1>1, AtWork
  <1> DEFINE s == OwnLog(m)
  <1>3. /\ s \in Seq(Event) /\ Len(s) <= MaxLog /\ Ordered(s) /\ ToSet(s) \subseteq ToSet(log) \cup ToSet(c)
        /\ s = log \/ (s = c /\ engine[m].loaded)
    BY <1>2 DEF OwnLog, RunOK, LogOK
  <1>4. own = Capped(Append(s, e)) OBVIOUS
  <1> HIDE DEF s, own
  <1>5. own \in Seq(Event) /\ ToSet(own) \subseteq ToSet(log) \cup ToSet(c) \cup {e}
    BY <1>2, <1>3, <1>4, OneMoreSet
  <1>6. r.pc = "flush" /\ r.event = e /\ r.cache = own /\ r.loaded /\ r.dirty
    BY <1>2, <1>5 DEF Run
  <1>7. engine'[m] = r BY <1>1, SetOne
  <1> HIDE DEF r
  <1>8. \A q \in Machine : engine'[q].pc \notin Unsaid BY <1>1, <1>2, <1>6, <1>7, SetOne DEF Unsaid
  <1>9. \A x \in ToSet(log) \cup ToSet(c) \cup {e} : x.n <= e.n /\ x.n <= count /\ Past(x)'
    <2>1. \A x \in ToSet(log) \cup ToSet(c) \cup {e} : x.n <= count /\ e.n = count
      BY <1>2 DEF LogOK, RunOK, Past
    <2> QED BY <1>1, <1>8, <2>1 DEF Past
  <1>10. Unlike(ToSet(log) \cup ToSet(c) \cup {e}) BY <1>2 DEF RunOK
  <1>11. Unlike(ToSet(log) \cup ToSet(own) \cup {e}) BY <1>5, <1>10 DEF Unlike
  <1>12. LogOK' BY <1>1, <1>2, <1>9 DEF LogOK
  <1>13. Ordered(own) BY <1>2, <1>3, <1>4, <1>9, OneMoreOrdered
  <1>14. Due(m)' = own BY <1>6, <1>7 DEF Due
  <1>15. Outlives(log, own)
    <2>1. CASE engine[m].pc = "append" /\ s = c /\ engine[m].loaded
      BY <1>2, <1>4, <2>1 DEF RunOK, Due
    <2>2. CASE engine[m].pc # "append" \/ s = log
      <3>1. Outlives(log, s) BY <1>1, <1>2, <1>3, <2>2, OutlivesItself DEF RunOK, Due
      <3>2. Unlike(ToSet(log) \cup ToSet(s) \cup {e}) BY <1>3, <1>10 DEF Unlike
      <3>3. \A x \in ToSet(log) \cup ToSet(s) : x.n <= e.n BY <1>3, <1>9
      <3>4. ToSet(log) \subseteq ToSet(log) \cup {e} OBVIOUS
      <3> QED BY <1>2, <1>3, <1>4, <3>1, <3>2, <3>3, <3>4, OneMoreOutlives
    <2> QED BY <1>3, <2>1, <2>2
  <1>16. channel = "log" => Behind(own, log)
    <2>1. SUFFICES ASSUME channel = "log" PROVE Behind(own, log) OBVIOUS
    <2>2. engine[m].pc = "append" /\ log # <<>> /\ log[Len(log)] = e BY <1>1, <1>2, <2>1 DEF RunOK
    <2>3. CASE s = log BY <1>2, <1>4, <2>2, <2>3, TwiceBehind
    <2>4. CASE s = c /\ engine[m].loaded BY <1>2, <1>4, <2>1, <2>2, <2>4 DEF RunOK, Due
    <2> QED BY <1>3, <2>3, <2>4
  <1>17. RunOK(m)'
    BY <1>1, <1>2, <1>5, <1>6, <1>7, <1>9, <1>11, <1>13, <1>14, <1>15, <1>16 DEF RunOK
  <1> QED BY <1>1, <1>2, <1>12, <1>17, OneRuns

LEMMA FlushLogs ==
    ASSUME EngineSound, LInv, "log" \notin spoiled, NEW m \in Machine, Flush(m) \/ KillEngine(m)
    PROVE  LInv' /\ (log' = log \/ (engine[m].loaded /\ engine[m].pc = "flush" /\ log' = engine[m].cache))
  <1>1. /\ engine[m].pc # "idle" /\ Set(m, Idle) /\ UNCHANGED <<channel, spoiled, count>>
        /\ log' = log \/ (engine[m].dirty /\ engine[m].pc = "flush" /\ log' = engine[m].cache)
    BY DEF Flush, KillEngine
  <1>2. /\ LogOK /\ RunOK(m) /\ \A q \in Machine : q # m => engine[q].pc = "idle"
        /\ count \in Nat /\ ToSet(log) \subseteq Event /\ ToSet(engine[m].cache) \subseteq Event
    BY <1>1, AtWork
  <1>3. Idle.pc = "idle" BY DEF Idle
  <1>4. \A x \in ToSet(log) \cup ToSet(engine[m].cache) : Past(x)'
    BY <1>1, <1>2, <1>3, PastStays DEF LogOK, RunOK, Unsaid
  <1>5. LogOK'
    <2>1. CASE log' = log BY <1>2, <1>4, <2>1 DEF LogOK
    <2>2. CASE log' = engine[m].cache BY <1>2, <1>4, <2>2 DEF LogOK, RunOK, Unlike
    <2> QED BY <1>1, <2>1, <2>2
  <1>6. engine[m].dirty => engine[m].loaded BY <1>2 DEF RunOK
  <1> QED BY <1>1, <1>2, <1>3, <1>5, <1>6, OneRuns

LEMMA InitLogs == Init => LInv
  <1> SUFFICES ASSUME Init PROVE LInv OBVIOUS
  <1>1. \A m \in Machine : engine[m].pc = "idle" BY DEF Init, Idle
  <1>2. LogOK
    <2>1. CASE log = <<>> BY <2>1, NoEvents DEF LogOK, Unlike
    <2>2. CASE \E m \in Machine \ {Me} : log = <<[machine |-> m, n |-> 0]>>
      <3>1. PICK e : log = <<e>> /\ e.n = 0 BY <2>2
      <3>2. Len(log) = 1 /\ log[1] = e /\ ToSet(log) = {e} BY <3>1 DEF ToSet
      <3>3. count = 0 BY DEF Init
      <3> QED BY <1>1, <3>1, <3>2, <3>3 DEF LogOK, Ordered, Unlike, Past, Unsaid
    <2> QED BY <2>1, <2>2 DEF Init
  <1> QED BY <1>1, <1>2 DEF LInv, Turns

LEMMA LogsStay ==
    ASSUME LInv, UNCHANGED <<channel, engine, log, count>>, "log" \in spoiled => "log" \in spoiled'
    PROVE  LInv'
  BY DEF LInv, Turns, LogOK, RunOK, Due, Past

\* What only the engine does.
LEMMA OthersStay ==
    ASSUME Next, ~\E m \in Machine : EngineNext(m)
    PROVE  UNCHANGED <<channel, engine, log, count, published>> /\ spoiled \subseteq spoiled'
  <1>1. CASE \E w \in Watcher : Hand(w) \/ KillWatcher(w)
    BY <1>1 DEF Hand, KillWatcher, WriteInbox, engineVars, inboxVars
  <1>2. CASE WatchStart \/ Poll \/ OnceFirst \/ OncePoll \/ Receive \/ Pull
    BY <1>2 DEF WatchStart, Poll, OnceFirst, OncePoll, Receive, Pull, engineVars
  <1>3. CASE WatchEnd \/ OnceSave \/ OnceAck
    BY <1>3 DEF WatchEnd, OnceSave, OnceAck, engineVars
  <1>4. CASE TakeInbox \/ ClearInbox \/ PrintInbox \/ KillReader
    BY <1>4 DEF TakeInbox, ClearInbox, PrintInbox, KillReader, engineVars
  <1> QED BY <1>1, <1>2, <1>3, <1>4 DEF Next

LEMMA EngineLogs ==
    ASSUME ~Overlap, IInv, LInv, "log" \notin spoiled, NEW m \in Machine, EngineNext(m)
    PROVE  LInv'
  <1>1. EngineSound BY EachWatch
  <1>2. CASE "log" \in spoiled' BY <1>2 DEF LInv
  <1> QED BY <1>1, <1>2, BeginLogs, AgainLogs, ReadContextLogs, PublishTopicLogs, PublishReadLogs,
             PublishWriteLogs, AppendLogs, FlushLogs DEF EngineNext

LEMMA EngineSpoils ==
    ASSUME NEW m \in Machine, EngineNext(m)
    PROVE  spoiled \subseteq spoiled' /\ channel' = channel /\ UNCHANGED <<watchVars, running>>
  BY DEF EngineNext, Begin, ReadContext, PublishTopic, PublishRead, PublishWrite,
         AppendToDriveLog, Again, Flush, KillEngine

LEMMA NextLogs == ~Overlap /\ IInv /\ LInv /\ [Next]_vars => LInv'
  <1> SUFFICES ASSUME ~Overlap, IInv, LInv, [Next]_vars PROVE LInv' OBVIOUS
  <1>1. CASE UNCHANGED vars BY <1>1, LogsStay DEF vars
  <1>2. CASE \E m \in Machine : EngineNext(m)
    <2>1. CASE "log" \in spoiled BY <1>2, <2>1, EngineSpoils DEF LInv
    <2>2. CASE "log" \notin spoiled BY <1>2, <2>2, EngineLogs
    <2> QED BY <2>1, <2>2
  <1>3. CASE Next /\ ~\E m \in Machine : EngineNext(m) BY <1>3, OthersStay, LogsStay
  <1> QED BY <1>1, <1>2, <1>3

\* What the log loses in one step of a command.
LEMMA EngineDrops ==
    ASSUME IInv, LInv, "log" \notin spoiled, NEW m \in Machine, EngineNext(m)
    PROVE  Outlives(log, log')
  <1>1. EngineSound BY EachWatch
  <1>2. CASE log' = log BY <1>2, OutlivesItself
  <1>3. CASE PublishWrite(m) /\ log' = Capped(Append(engine[m].copy, engine[m].event))
    <2> DEFINE e == engine[m].event
    <2>1. engine[m].pc = "publish" BY <1>3 DEF PublishWrite
    <2>2. /\ LogOK /\ RunOK(m) /\ e \in Event /\ log \in Seq(Event) /\ Len(log) <= MaxLog
          /\ ToSet(log) \subseteq Event /\ count \in Nat /\ e.n \in Nat
      BY <1>1, <2>1, AtWork
    <2>3. log' = Capped(Append(log, e)) /\ e.n = count BY <1>3, <2>1, <2>2 DEF RunOK
    <2>4. \A x \in ToSet(log) : x.n <= e.n BY <2>2, <2>3 DEF LogOK, Past
    <2>5. Unlike(ToSet(log) \cup ToSet(log) \cup {e}) BY <2>2 DEF RunOK, Unlike
    <2>6. ToSet(log) \subseteq ToSet(log) \cup {e} OBVIOUS
    <2> HIDE DEF e
    <2> QED BY <2>2, <2>3, <2>4, <2>5, <2>6, OneMoreOutlives, OutlivesItself DEF LogOK
  <1>4. CASE Flush(m)
    <2>1. CASE log' = log BY <2>1, OutlivesItself
    <2>2. CASE engine[m].loaded /\ engine[m].pc = "flush" /\ log' = engine[m].cache
      BY <1>1, <2>2, AtWork DEF RunOK, Due
    <2> QED BY <1>1, <1>4, <2>1, <2>2, FlushLogs
  <1> QED BY <1>2, <1>3, <1>4 DEF EngineNext, Begin, ReadContext, PublishTopic, PublishRead,
             PublishWrite, AppendToDriveLog, Again, KillEngine

\* Where the commands take turns an event leaves the log only when the log is
\* full of later ones, unless a read of the log failed: the notifier's write,
\* the engine's own copy from before it, and the second event of a command
\* undo neither each other nor an earlier command.
THEOREM LogKeepsHolds == ASSUME ~Overlap PROVE Spec => LogKeeps
  <1> DEFINE Keeps == \A e \in ToSet(log) \ ToSet(log') :
                         \/ "log" \in spoiled
                         \/ Len(log') = MaxLog /\ \A i \in 1..MaxLog : log'[i].n > e.n
  <1>1. IInv /\ LInv /\ [Next]_vars => [Keeps]_vars
    <2> SUFFICES ASSUME IInv, LInv, [Next]_vars, "log" \notin spoiled, NEW e \in ToSet(log) \ ToSet(log')
                 PROVE  Len(log') = MaxLog /\ \A i \in 1..MaxLog : log'[i].n > e.n
      OBVIOUS
    <2>1. Outlives(log, log')
      <3>1. CASE log' = log BY <3>1, OutlivesItself
      <3>2. CASE \E m \in Machine : EngineNext(m) BY <3>2, EngineDrops
      <3> QED BY <3>1, <3>2, OthersStay DEF vars
    <2>2. Len(log') = MaxLog /\ \A y \in ToSet(log') : y.n > e.n BY <2>1 DEF Outlives
    <2>3. log' \in Seq(Event) BY NextHolds, EachWatch DEF IInv, EngineSound
    <2>4. \A i \in 1..MaxLog : log'[i] \in ToSet(log') BY <2>2, <2>3, SetOfSeq
    <2> QED BY <2>2, <2>4
  <1>2. Init => LInv BY InitLogs
  <1>3. IInv /\ LInv /\ [Next]_vars => LInv' BY NextLogs
  <1> QED BY <1>1, <1>2, <1>3, Inductive, PTL DEF Spec, LogKeeps

-----------------------------------------------------------------------------
(* The watchers of the log.  A cycle passes over what stands before the key    *)
(* it starts from, and as the log is in order, that is what a cycle before it   *)
(* has told.                                                                    *)

\* Told by w, or there when w began.
Heard(w, x) == Foreign(x) => x \in base[w] \cup handed[w]

Mark(w) == IF w = "watch" THEN watcher[w].key ELSE watermark

\* Up to the event k the log holds only what w has heard or has in its queue,
\* and what is published from now on comes after k.
Passed(w, k, queue) ==
    k \in Event =>
       /\ Past(k)
       /\ \A x \in ToSet(log) : x.n <= k.n => Heard(w, x) \/ x \in queue

WatchOK(w) ==
    /\ \A x \in seen[w] : Heard(w, x)
    /\ Passed(w, Mark(w), {})
    /\ watcher[w].pc = "hand" =>
         /\ \A x \in watcher[w].read : Heard(w, x) \/ x \in ToSet(watcher[w].queue)
         /\ Passed(w, watcher[w].tail, ToSet(watcher[w].queue))

WInv ==
    /\ published \subseteq Event
    /\ base \in [Watcher -> SUBSET Event] /\ seen \in [Watcher -> SUBSET Event]
    /\ channel = "log" /\ "log" \notin spoiled =>
         ToSet(log) \subseteq published /\ \A w \in Watcher : WatchOK(w)

\* What a cycle passes over is no later than the key it starts from.
LEMMA PassedOver ==
    ASSUME NEW s \in Seq(Event), Ordered(s), NEW key, NEW x \in ToSet(s), x \notin ToSet(Fresh(s, key))
    PROVE  key \in Event /\ x.n <= key.n
  <1> DEFINE before == {i \in 1..Len(s) : \A j \in 1..i : s[j] # key}
             f == First(s, key)
             r == SubSeq(s, f + 1, Len(s))
  <1>1. PICK p \in 1..Len(s) : s[p] = key BY DEF Fresh
  <1>2. PICK i \in 1..Len(s) : x = s[i] BY SetOfSeq
  <1>3. f \in Nat /\ f <= p
    <2> DEFINE earlier == 1..(p - 1)
    <2>1. before \in SUBSET earlier BY <1>1
    <2>2. IsFiniteSet(earlier) /\ Cardinality(earlier) = p - 1
      <3>1. 1 \in Int /\ p - 1 \in Int /\ (IF 1 > p - 1 THEN 0 ELSE (p - 1) - 1 + 1) = p - 1 BY <1>1
      <3> QED BY <3>1, FS_Interval
    <2> HIDE DEF before, earlier
    <2>3. IsFiniteSet(before) /\ Cardinality(before) <= p - 1 BY <2>1, <2>2, FS_Subset
    <2>4. Cardinality(before) \in Nat BY <2>3, FS_CardinalityType
    <2>5. f = 1 + Cardinality(before) BY DEF First, before
    <2> QED BY <1>1, <2>3, <2>4, <2>5
  <1>4. Fresh(s, key) = r BY <1>1 DEF Fresh
  <1> HIDE DEF f
  <1>5. i <= f
    <2> SUFFICES ASSUME i > f PROVE FALSE BY <1>2, <1>3
    <2>1. f + 1 \in Int /\ Len(s) \in Int /\ f + 1 <= Len(s) BY <1>2, <1>3
    <2>2. \A j \in (f + 1)..Len(s) : s[j] \in Event BY <1>3
    <2>3. /\ r \in Seq(Event) /\ Len(r) = Len(s) - (f + 1) + 1
          /\ \A j \in 1..(Len(s) - (f + 1) + 1) : r[j] = s[(f + 1) + j - 1]
      BY <2>1, <2>2, SubSeqProperties
    <2> HIDE DEF r
    <2>4. i - f \in 1..Len(r) /\ i - f \in 1..(Len(s) - (f + 1) + 1) /\ (f + 1) + (i - f) - 1 = i
      <3> DEFINE n == Len(s)
                 k == Len(r)
      <3>1. n \in Int /\ i \in 1..n /\ k = n - (f + 1) + 1 BY <1>2, <2>1, <2>3
      <3> HIDE DEF n, k
      <3>2. i - f \in 1..k /\ i - f \in 1..(n - (f + 1) + 1) /\ (f + 1) + (i - f) - 1 = i BY <1>3, <3>1
      <3> QED BY <3>2 DEF n, k
    <2>5. r[i - f] = s[i] BY <2>3, <2>4
    <2>6. x \in ToSet(r) BY <1>2, <2>3, <2>4, <2>5, SetOfSeq
    <2> QED BY <1>4, <2>6
  <1>6. i <= p BY <1>1, <1>2, <1>3, <1>5
  <1> QED BY <1>1, <1>2, <1>6 DEF Ordered

\* A command adds to the log only events that come after all earlier ones.
LEMMA EngineAdds ==
    ASSUME ~Overlap, IInv, LInv, channel = "log", "log" \notin spoiled,
           NEW m \in Machine, EngineNext(m)
    PROVE  /\ \A x \in Event : Past(x) => Past(x)'
           /\ published \subseteq published'
           /\ \A y \in ToSet(log') : \/ y \in ToSet(log)
                                     \/ y \in published' /\ \A x \in Event : Past(x) => x.n < y.n
  <1>1. EngineSound /\ engine[m] \in Run /\ count \in Nat BY EachWatch, EachRun
  <1>2. \A q \in Machine : q # m => engine[q].pc = "idle" BY DEF EngineNext, Begin, LInv, Turns,
          ReadContext, PublishTopic, PublishRead, PublishWrite, AppendToDriveLog, Again, Flush, KillEngine
  <1>3. \E r : /\ Set(m, r) /\ count' \in Nat /\ count <= count'
               /\ r.pc \in Unsaid => \/ engine[m].pc \in Unsaid /\ r.event = engine[m].event
                                     \/ r.event.n \in Nat /\ r.event.n > count
    <2>1. CASE Begin(m)
      <3> DEFINE r == [Idle EXCEPT !.pc = "work", !.event = [machine |-> m, n |-> count + 1]]
      <3>1. Set(m, r) /\ count' = count + 1 BY <2>1 DEF Begin
      <3>2. r.event.n = count + 1 BY DEF Idle
      <3> HIDE DEF r
      <3>3. count' \in Nat /\ count <= count' /\ r.event.n \in Nat /\ r.event.n > count
        BY <1>1, <3>1, <3>2
      <3> QED BY <3>1, <3>3
    <2>2. CASE Again(m)
      <3> DEFINE r == [engine[m] EXCEPT !.pc = "work", !.again = TRUE,
                 !.event = [machine |-> m, n |-> count + 1]]
      <3>1. Set(m, r) /\ count' = count + 1 BY <2>2 DEF Again
      <3>2. r.event.n = count + 1 BY <1>1 DEF Run
      <3> HIDE DEF r
      <3>3. count' \in Nat /\ count <= count' /\ r.event.n \in Nat /\ r.event.n > count
        BY <1>1, <3>1, <3>2
      <3> QED BY <3>1, <3>3
    <2>3. CASE ~Begin(m) /\ ~Again(m)
      <3>1. count' = count /\ count <= count
        BY <1>1, <2>3 DEF EngineNext, ReadContext, PublishTopic, PublishRead, PublishWrite,
                          AppendToDriveLog, Flush, KillEngine
      <3>2. CASE ReadContext(m)
        <4> DEFINE r == [engine[m] EXCEPT !.cache = log, !.loaded = TRUE]
        <4>1. engine[m].pc \in Unsaid /\ (Set(m, r) \/ Set(m, Idle)) BY <3>2 DEF ReadContext, Unsaid
        <4>2. r.event = engine[m].event /\ Idle.pc \notin Unsaid BY <1>1 DEF Run, Idle, Unsaid
        <4> HIDE DEF r
        <4> QED BY <1>1, <3>1, <4>1, <4>2
      <3>3. CASE PublishRead(m)
        <4> DEFINE r == [engine[m] EXCEPT !.pc = "publish", !.copy = log]
                   q == [engine[m] EXCEPT !.pc = "publish"]
        <4>1. engine[m].pc \in Unsaid /\ (Set(m, r) \/ Set(m, q)) BY <3>3 DEF PublishRead, Unsaid
        <4>2. r.event = engine[m].event /\ q.event = engine[m].event BY <1>1 DEF Run
        <4> HIDE DEF r, q
        <4> QED BY <1>1, <3>1, <4>1, <4>2
      <3>4. CASE PublishTopic(m) \/ PublishWrite(m)
        <4> DEFINE r == [engine[m] EXCEPT !.pc = "append"]
                   q == [engine[m] EXCEPT !.pc = "append", !.copy = <<>>]
                   o == [engine[m] EXCEPT !.pc = "flush", !.copy = <<>>]
        <4>1. Set(m, r) \/ Set(m, q) \/ Set(m, o) BY <3>4 DEF PublishTopic, PublishWrite
        <4>2. r.pc \notin Unsaid /\ q.pc \notin Unsaid /\ o.pc \notin Unsaid BY <1>1 DEF Run, Unsaid
        <4> HIDE DEF r, q, o
        <4> QED BY <1>1, <3>1, <4>1, <4>2
      <3>5. CASE AppendToDriveLog(m)
        <4> DEFINE r == [engine[m] EXCEPT !.pc = "flush", !.dirty = TRUE, !.loaded = TRUE,
                       !.cache = Capped(Append(OwnLog(m), engine[m].event))]
                   q == [engine[m] EXCEPT !.pc = "flush", !.dirty = TRUE, !.loaded = TRUE,
                       !.cache = <<engine[m].event>>]
        <4>1. Set(m, r) \/ Set(m, q) BY <3>5 DEF AppendToDriveLog
        <4>2. r.pc \notin Unsaid /\ q.pc \notin Unsaid BY <1>1 DEF Run, Unsaid
        <4> HIDE DEF r, q
        <4> QED BY <1>1, <3>1, <4>1, <4>2
      <3>6. CASE Flush(m) \/ KillEngine(m)
        BY <1>1, <3>1, <3>6 DEF Flush, KillEngine, Unsaid, Idle
      <3> QED BY <2>3, <3>2, <3>3, <3>4, <3>5, <3>6 DEF EngineNext
    <2> QED BY <2>1, <2>2, <2>3
  <1>4. \A x \in Event : Past(x) => Past(x)' BY <1>1, <1>2, <1>3, PastStays
  <1>5. published \subseteq published'
    BY DEF EngineNext, Begin, ReadContext, PublishTopic, PublishRead, PublishWrite,
           AppendToDriveLog, Again, Flush, KillEngine
  <1>6. CASE log' = log BY <1>4, <1>5, <1>6
  <1>7. CASE PublishWrite(m) /\ log' = Capped(Append(engine[m].copy, engine[m].event))
             /\ published' = published \cup {engine[m].event}
    <2> DEFINE e == engine[m].event
    <2>1. engine[m].pc = "publish" BY <1>7 DEF PublishWrite
    <2>2. RunOK(m) /\ e \in Event /\ log \in Seq(Event) /\ Len(log) <= MaxLog BY <1>1, <2>1, AtWork
    <2>3. log' = Capped(Append(log, e)) BY <1>7, <2>1, <2>2 DEF RunOK
    <2>4. ToSet(log') \subseteq ToSet(log) \cup {e} BY <2>2, <2>3, OneMoreSet
    <2>5. \A x \in Event : Past(x) => x.n < e.n BY <2>1 DEF Past, Unsaid
    <2> QED BY <1>4, <1>5, <1>7, <2>4, <2>5
  <1>8. CASE Flush(m) /\ log' # log
    <2>1. engine[m].loaded /\ engine[m].pc = "flush" /\ log' = engine[m].cache BY <1>1, <1>8, FlushLogs
    <2>2. /\ RunOK(m) /\ engine[m].cache \in Seq(Event) /\ log \in Seq(Event)
      BY <1>1, <2>1, AtWork
    <2>3. Behind(engine[m].cache, log) BY <2>1, <2>2 DEF RunOK, Due
    <2>4. ToSet(log') \subseteq ToSet(log) BY <2>1, <2>2, <2>3, BehindSet
    <2> QED BY <1>4, <1>5, <2>4
  <1> QED BY <1>6, <1>7, <1>8 DEF EngineNext, Begin, ReadContext, PublishTopic, PublishRead,
             PublishWrite, AppendToDriveLog, Again, KillEngine

LEMMA InitWatched == Init => WInv
  <1> SUFFICES ASSUME Init PROVE WInv OBVIOUS
  <1>1. IInv /\ log \in Seq(Event) BY InitHolds, EachWatch
  <1>2. ToSet(log) \subseteq Event BY <1>1, SetOfEvents
  <1>3. published \subseteq Event /\ base \in [Watcher -> SUBSET Event] /\ seen \in [Watcher -> SUBSET Event]
    BY <1>2 DEF Init
  <1>4. ASSUME NEW w \in Watcher PROVE WatchOK(w)
    <2>1. watcher[w].pc = "off" /\ watcher[w].key = NoKey /\ watermark = FirstRun /\ seen[w] = {}
      BY DEF Init, Off
    <2>2. Mark(w) \notin Event BY <2>1, NullsDiffer DEF Mark
    <2> QED BY <2>1, <2>2 DEF WatchOK, Passed
  <1> QED BY <1>3, <1>4 DEF Init, WInv

LEMMA HistoryEvents ==
    ASSUME IInv, WInv, [Next]_vars
    PROVE  published' \subseteq Event /\ base' \in [Watcher -> SUBSET Event] /\ seen' \in [Watcher -> SUBSET Event]
  <1>1. /\ published \subseteq Event /\ base \in [Watcher -> SUBSET Event]
        /\ seen \in [Watcher -> SUBSET Event]
        /\ log \in Seq(Event) /\ EngineSound /\ \A w \in Watcher : watcher[w] \in Watch
    BY EachWatch DEF WInv
  <1>2. ToSet(log) \subseteq Event BY <1>1, SetOfEvents
  <1>3. CASE \E m \in Machine : EngineNext(m)
    <2>1. PICK m \in Machine : EngineNext(m) BY <1>3
    <2>2. published' = published
          \/ (engine[m].pc # "idle" /\ published' = published \cup {engine[m].event})
      BY <2>1 DEF EngineNext, Begin, ReadContext, PublishTopic, PublishRead, PublishWrite,
                  AppendToDriveLog, Again, Flush, KillEngine
    <2>3. engine[m].pc # "idle" => engine[m].event \in Event BY <1>1, EachRun DEF RunSound
    <2>4. UNCHANGED <<base, seen>> BY <2>1, EngineSpoils DEF watchVars
    <2> QED BY <1>1, <2>2, <2>3, <2>4
  <1>4. CASE Next /\ ~\E m \in Machine : EngineNext(m)
    <2>1. published' = published BY <1>4, OthersStay
    <2>2. CASE WatchStart \/ OnceFirst BY <1>1, <1>2, <2>1, <2>2 DEF WatchStart, OnceFirst
    <2>3. CASE WatchEnd \/ OnceSave
      <3>1. watcher["watch"].read \subseteq Event /\ watcher["once"].read \subseteq Event
        BY <1>1, EachWatch DEF Watch
      <3> QED BY <1>1, <2>1, <2>3, <3>1 DEF WatchEnd, OnceSave
    <2>4. CASE UNCHANGED <<base, seen>> BY <1>1, <2>1, <2>4
    <2>5. CASE \E w \in Watcher : Hand(w) \/ KillWatcher(w) BY <2>4, <2>5 DEF Hand, KillWatcher
    <2>6. CASE Poll \/ OncePoll \/ Receive \/ Pull \/ OnceAck
      BY <2>4, <2>6 DEF Poll, OncePoll, Receive, Pull, OnceAck
    <2>7. CASE TakeInbox \/ ClearInbox \/ PrintInbox \/ KillReader
      BY <2>4, <2>7 DEF TakeInbox, ClearInbox, PrintInbox, KillReader, watchVars
    <2> QED BY <1>4, <2>2, <2>3, <2>5, <2>6, <2>7 DEF Next
  <1> QED BY <1>1, <1>3, <1>4 DEF vars

\* A watcher that does nothing, while the log may get later events.
LEMMA WatchOKStays ==
    ASSUME NEW w \in Watcher, WatchOK(w), NEW S, ToSet(log') \subseteq S,
           watcher'[w] = watcher[w], Mark(w)' = Mark(w), seen'[w] = seen[w], base'[w] = base[w],
           handed[w] \subseteq handed'[w],
           \A x \in Event : Past(x) => Past(x)',
           \A y \in S : y \in ToSet(log) \/ \A x \in Event : Past(x) => x.n < y.n,
           S \subseteq Event
    PROVE  WatchOK(w)'
  <1>1. \A x : Heard(w, x) => Heard(w, x)' BY DEF Heard
  <1>2. ASSUME NEW k, NEW queue, Passed(w, k, queue), k \in Event
        PROVE  Past(k)' /\ \A x \in ToSet(log') : x.n <= k.n => Heard(w, x)' \/ x \in queue
    <2>1. Past(k) BY <1>2 DEF Passed
    <2>2. \A x \in ToSet(log') : x.n <= k.n => x \in ToSet(log)
      <3> SUFFICES ASSUME NEW x \in ToSet(log'), x.n <= k.n, x \notin ToSet(log) PROVE FALSE OBVIOUS
      <3>1. k.n < x.n BY <1>2, <2>1
      <3>2. k.n \in Nat /\ x.n \in Nat BY <1>2 DEF Event
      <3> QED BY <3>1, <3>2
    <2> QED BY <1>1, <1>2, <2>1, <2>2 DEF Passed
  <1>3. Passed(w, Mark(w), {})' BY <1>2 DEF Passed, WatchOK
  <1>4. watcher[w].pc = "hand" => Passed(w, watcher[w].tail, ToSet(watcher[w].queue))'
    BY <1>2 DEF Passed, WatchOK
  <1> QED BY <1>1, <1>3, <1>4 DEF WatchOK

LEMMA EngineWatched ==
    ASSUME ~Overlap, IInv, LInv, WInv, [Next]_vars, NEW m \in Machine, EngineNext(m) PROVE WInv'
  <1>1. /\ channel' = channel /\ spoiled \subseteq spoiled'
        /\ UNCHANGED <<watcher, watermark, base, seen, handed>>
    BY EngineSpoils DEF watchVars
  <1> SUFFICES ASSUME channel = "log", "log" \notin spoiled
               PROVE  ToSet(log') \subseteq published' /\ \A w \in Watcher : WatchOK(w)'
    BY <1>1, HistoryEvents DEF WInv
  <1>2. ToSet(log) \subseteq published /\ \A w \in Watcher : WatchOK(w) BY DEF WInv
  <1>3. /\ \A x \in Event : Past(x) => Past(x)'
        /\ published \subseteq published'
        /\ \A y \in ToSet(log') : \/ y \in ToSet(log)
                                  \/ y \in published' /\ \A x \in Event : Past(x) => x.n < y.n
    BY EngineAdds
  <1>4. ToSet(log') \subseteq Event BY <1>2, <1>3, HistoryEvents
  <1>5. ASSUME NEW w \in Watcher PROVE WatchOK(w)'
    <2>1. Mark(w)' = Mark(w) BY <1>1 DEF Mark
    <2> QED BY <1>1, <1>2, <1>3, <1>4, <2>1, WatchOKStays
  <1> QED BY <1>2, <1>3, <1>5

\* A step of one watcher.
LEMMA OneWatches ==
    ASSUME IInv, WInv, [Next]_vars, NEW w \in Watcher, UNCHANGED <<channel, engine, log, count, published>>,
           spoiled \subseteq spoiled',
           \A v \in Watcher : v # w =>
              /\ watcher'[v] = watcher[v] /\ Mark(v)' = Mark(v) /\ seen'[v] = seen[v] /\ base'[v] = base[v]
              /\ handed[v] \subseteq handed'[v],
           channel = "log" /\ "log" \notin spoiled => WatchOK(w)'
    PROVE  WInv'
  <1> SUFFICES ASSUME channel = "log", "log" \notin spoiled
               PROVE  ToSet(log') \subseteq published' /\ \A v \in Watcher : WatchOK(v)'
    BY HistoryEvents DEF WInv
  <1>1. ToSet(log) \subseteq published /\ \A v \in Watcher : WatchOK(v) BY DEF WInv
  <1>2. \A x \in Event : Past(x) => Past(x)' BY DEF Past
  <1>3. ToSet(log) \subseteq Event BY EachWatch, SetOfEvents
  <1>4. ASSUME NEW v \in Watcher, v # w PROVE WatchOK(v)'
    BY <1>1, <1>2, <1>3, <1>4, WatchOKStays
  <1> QED BY <1>1, <1>4

\* What a watcher may rely on.
LEMMA Watching ==
    ASSUME IInv, LInv, WInv, channel = "log", "log" \notin spoiled
    PROVE  /\ log \in Seq(Event) /\ ToSet(log) \subseteq Event /\ Ordered(log) /\ \A x \in ToSet(log) : Past(x)
           /\ ToSet(log) \subseteq published /\ \A w \in Watcher : WatchOK(w)
           /\ LastKey(log) \in Event => LastKey(log) \in ToSet(log)
  <1>1. log \in Seq(Event) BY EachWatch
  <1>2. ToSet(log) \subseteq Event BY <1>1, SetOfEvents
  <1>3. LastKey(log) \in Event => LastKey(log) \in ToSet(log)
    <2>1. CASE log = <<>> BY <2>1, NullsDiffer DEF LastKey
    <2>2. CASE log # <<>>
      <3>1. Len(log) \in 1..Len(log) BY <1>1, <2>2
      <3> QED BY <1>1, <2>2, <3>1, SetOfSeq DEF LastKey, Last
    <2> QED BY <2>1, <2>2
  <1> QED BY <1>1, <1>2, <1>3 DEF LInv, LogOK, WInv

\* Where a watcher begins it has heard of everything in the log.
LEMMA BeginsWatching ==
    ASSUME IInv, LInv, WInv, channel = "log", "log" \notin spoiled, NEW w \in Watcher,
           UNCHANGED <<engine, log, count>>, watcher'[w].pc # "hand",
           \/ Mark(w)' = LastKey(log) /\ base'[w] = published /\ seen'[w] = ToSet(log)
           \/ Mark(w)' = NoKey /\ base'[w] = {} /\ seen'[w] = {}
    PROVE  WatchOK(w)'
  <1>1. \A x : Past(x) => Past(x)' BY DEF Past
  <1>2. CASE Mark(w)' = LastKey(log) /\ base'[w] = published /\ seen'[w] = ToSet(log)
    <2>1. \A x \in ToSet(log) : Heard(w, x)' BY <1>2, Watching DEF Heard
    <2>2. Passed(w, Mark(w), {})' BY <1>1, <1>2, <2>1, Watching DEF Passed
    <2> QED BY <1>2, <2>1, <2>2 DEF WatchOK
  <1>3. CASE Mark(w)' = NoKey /\ seen'[w] = {}
    <2>1. Passed(w, Mark(w), {})' BY <1>3, NullsDiffer DEF Passed
    <2> QED BY <1>3, <2>1 DEF WatchOK
  <1> QED BY <1>2, <1>3

LEMMA StartWatched == ASSUME IInv, LInv, WInv, [Next]_vars, WatchStart PROVE WInv'
  <1>1. /\ UNCHANGED <<channel, engine, log, count, published, spoiled, handed, watermark>>
        /\ watcher'["once"] = watcher["once"] /\ seen'["once"] = seen["once"] /\ base'["once"] = base["once"]
    BY EachWatch DEF WatchStart, WatchSound, SetW, engineVars, WInv, Watcher
  <1>2. channel = "log" =>
          /\ watcher'["watch"].pc = "on"
          /\ \/ watcher'["watch"].key = LastKey(log) /\ base'["watch"] = published /\ seen'["watch"] = ToSet(log)
             \/ watcher'["watch"].key = NoKey /\ base'["watch"] = {} /\ seen'["watch"] = {}
    <2> DEFINE r == [Off EXCEPT !.pc = "on", !.key = LastKey(log)]
               q == [Off EXCEPT !.pc = "on"]
    <2>1. r.pc = "on" /\ r.key = LastKey(log) /\ q.pc = "on" /\ q.key = NoKey BY DEF Off
    <2>2. channel = "log" =>
             \/ SetW("watch", r) /\ base'["watch"] = published /\ seen'["watch"] = ToSet(log)
             \/ SetW("watch", q) /\ base'["watch"] = {} /\ seen'["watch"] = {}
      BY DEF WatchStart, WInv, Watcher
    <2> HIDE DEF r, q
    <2> QED BY <2>1, <2>2, EachWatch DEF WatchSound, SetW
  <1>3. Mark("once")' = Mark("once") /\ Mark("watch")' = watcher'["watch"].key BY <1>1 DEF Mark
  <1>4. channel = "log" /\ "log" \notin spoiled => WatchOK("watch")'
    BY <1>1, <1>2, <1>3, BeginsWatching DEF Watcher
  <1> QED BY <1>1, <1>3, <1>4, OneWatches DEF Watcher

LEMMA FirstWatched == ASSUME IInv, LInv, WInv, [Next]_vars, OnceFirst PROVE WInv'
  <1>1. /\ UNCHANGED <<channel, engine, log, count, published, spoiled, handed, watcher>>
        /\ seen'["watch"] = seen["watch"] /\ base'["watch"] = base["watch"]
    BY EachWatch DEF OnceFirst, engineVars, WInv, Watcher
  <1>2. /\ watcher'["once"].pc = "off"
        /\ \/ watermark' = LastKey(log) /\ base'["once"] = published /\ seen'["once"] = ToSet(log)
           \/ watermark' = NoKey /\ base'["once"] = {} /\ seen'["once"] = {}
    BY EachWatch DEF OnceFirst, WInv, Watcher
  <1>3. Mark("watch")' = Mark("watch") /\ Mark("once")' = watermark' BY <1>1 DEF Mark
  <1>4. channel = "log" /\ "log" \notin spoiled => WatchOK("once")'
    BY <1>1, <1>2, <1>3, BeginsWatching DEF Watcher
  <1> QED BY <1>1, <1>3, <1>4, OneWatches DEF Watcher

\* One cycle reads the log: what it does not queue it has heard of.
LEMMA ReadsLog ==
    ASSUME IInv, LInv, WInv, channel = "log", "log" \notin spoiled, NEW w \in Watcher,
           UNCHANGED <<engine, log, count, base, seen, handed>>, Mark(w)' = Mark(w),
           watcher'[w].tail = LastKey(log), watcher'[w].read = ToSet(log),
           watcher'[w].queue = Fresh(log, Mark(w))
    PROVE  WatchOK(w)'
  <1>1. \A x : Past(x) => Past(x)' BY DEF Past
  <1>2. \A x : Heard(w, x) => Heard(w, x)' BY DEF Heard
  <1>3. WatchOK(w) BY Watching
  <1>4. \A x \in ToSet(log) : Heard(w, x)' \/ x \in ToSet(watcher'[w].queue)
    <2> SUFFICES ASSUME NEW x \in ToSet(log), x \notin ToSet(Fresh(log, Mark(w))) PROVE Heard(w, x) BY <1>2
    <2>1. Mark(w) \in Event /\ x.n <= Mark(w).n BY Watching, PassedOver
    <2> QED BY <1>3, <2>1 DEF WatchOK, Passed
  <1>5. Passed(w, watcher[w].tail, ToSet(watcher[w].queue))' BY <1>1, <1>4, Watching DEF Passed
  <1>6. Passed(w, Mark(w), {})' BY <1>1, <1>2, <1>3 DEF Passed, WatchOK
  <1>7. \A x \in seen[w] : Heard(w, x)' BY <1>2, <1>3 DEF WatchOK
  <1> QED BY <1>4, <1>5, <1>6, <1>7 DEF WatchOK

LEMMA PollWatched == ASSUME IInv, LInv, WInv, [Next]_vars, Poll PROVE WInv'
  <1>1. /\ UNCHANGED <<channel, engine, log, count, published, spoiled, base, seen, handed, watermark>>
        /\ watcher'["once"] = watcher["once"]
    BY EachWatch DEF Poll, SetW, WatchSound, engineVars, Watcher
  <1>2. /\ watcher'["watch"].tail = LastKey(log) /\ watcher'["watch"].read = ToSet(log)
        /\ watcher'["watch"].queue = Fresh(log, watcher["watch"].key)
        /\ watcher'["watch"].key = watcher["watch"].key
    BY EachWatch DEF Poll, SetW, WatchSound, Watch, Watcher
  <1>3. Mark("once")' = Mark("once") /\ Mark("watch")' = Mark("watch") /\ Mark("watch") = watcher["watch"].key
    BY <1>1, <1>2 DEF Mark
  <1>4. channel = "log" /\ "log" \notin spoiled => WatchOK("watch")'
    BY <1>1, <1>2, <1>3, ReadsLog DEF Watcher
  <1> QED BY <1>1, <1>3, <1>4, OneWatches DEF Watcher

LEMMA OncePollWatched == ASSUME IInv, LInv, WInv, [Next]_vars, OncePoll PROVE WInv'
  <1>1. /\ UNCHANGED <<channel, engine, log, count, published, spoiled, base, seen, handed, watermark>>
        /\ watcher'["watch"] = watcher["watch"]
    BY EachWatch DEF OncePoll, SetW, WatchSound, engineVars, Watcher
  <1>2. /\ watcher'["once"].tail = LastKey(log) /\ watcher'["once"].read = ToSet(log)
        /\ watcher'["once"].queue = Fresh(log, watermark)
    BY EachWatch DEF OncePoll, SetW, WatchSound, Watcher
  <1>3. Mark("once")' = Mark("once") /\ Mark("watch")' = Mark("watch") /\ Mark("once") = watermark
    BY <1>1 DEF Mark
  <1>4. channel = "log" /\ "log" \notin spoiled => WatchOK("once")'
    BY <1>1, <1>2, <1>3, ReadsLog DEF Watcher
  <1> QED BY <1>1, <1>3, <1>4, OneWatches DEF Watcher

LEMMA HandWatched == ASSUME IInv, LInv, WInv, [Next]_vars, NEW w \in Watcher, Hand(w) PROVE WInv'
  <1> DEFINE e == Head(watcher[w].queue)
             q == watcher[w].queue
  <1>1. /\ UNCHANGED <<channel, engine, log, count, published, base, seen, watermark>>
        /\ watcher[w].pc = "hand" /\ q # <<>> /\ q \in Seq(Event) /\ spoiled \subseteq spoiled'
        /\ handed' = [handed EXCEPT ![w] = @ \cup {e}] \/ (~Foreign(e) /\ handed' = handed)
    BY EachWatch DEF Hand, WriteInbox, engineVars, Watch
  <1>2. /\ watcher'[w] = [watcher[w] EXCEPT !.queue = Tail(q)]
        /\ \A v \in Watcher : v # w => watcher'[v] = watcher[v]
    BY EachWatch DEF Hand, SetW, WatchSound
  <1>3. /\ watcher'[w].pc = "hand" /\ watcher'[w].queue = Tail(q) /\ watcher'[w].key = watcher[w].key
        /\ watcher'[w].tail = watcher[w].tail /\ watcher'[w].read = watcher[w].read
    BY <1>1, <1>2, EachWatch DEF Watch
  <1>4. \A v \in Watcher : handed[v] \subseteq handed'[v] /\ (Foreign(e) => e \in handed'[w])
    BY <1>1, EachWatch DEF InboxSound
  <1>5. \A v \in Watcher : Mark(v)' = Mark(v) BY <1>1, <1>2, <1>3 DEF Mark, Watcher
  <1>6. ASSUME channel = "log", "log" \notin spoiled PROVE WatchOK(w)'
    <2>1. \A x : Past(x) => Past(x)' BY <1>1 DEF Past
    <2>2. \A x : Heard(w, x) => Heard(w, x)' BY <1>1, <1>4 DEF Heard
    <2>3. ToSet(q) = {e} \cup ToSet(Tail(q)) BY <1>1, QueueHead
    <2>4. \A x : x = e => Heard(w, x)' BY <1>4 DEF Heard, Foreign
    <2> HIDE DEF e, q
    <2>5. \A x : Heard(w, x) \/ x \in ToSet(q) => Heard(w, x)' \/ x \in ToSet(Tail(q)) BY <2>2, <2>3, <2>4
    <2>6. WatchOK(w) BY <1>6, Watching
    <2>7. Passed(w, watcher[w].tail, ToSet(q)) /\ Passed(w, Mark(w), {}) BY <1>1, <2>6 DEF WatchOK, q
    <2>8. Passed(w, watcher[w].tail, ToSet(watcher[w].queue))' BY <1>1, <1>3, <2>1, <2>5, <2>7 DEF Passed
    <2>9. Passed(w, Mark(w), {})' BY <1>1, <1>5, <2>1, <2>2, <2>7 DEF Passed
    <2>10. \A x \in watcher[w].read : Heard(w, x)' \/ x \in ToSet(Tail(q)) BY <1>1, <2>5, <2>6 DEF WatchOK, q
    <2>11. \A x \in seen[w] : Heard(w, x)' BY <2>2, <2>6 DEF WatchOK
    <2> QED BY <1>1, <1>3, <2>8, <2>9, <2>10, <2>11 DEF WatchOK
  <1> QED BY <1>1, <1>2, <1>4, <1>5, <1>6, OneWatches

\* The end of a cycle: what it read has been told, and where it ended is where the
\* next one starts from, unless the watermark got lost.
LEMMA EndsCycle ==
    ASSUME IInv, LInv, WInv, channel = "log", "log" \notin spoiled, NEW w \in Watcher,
           watcher[w].pc = "hand", watcher[w].queue = <<>>,
           UNCHANGED <<engine, log, count, base, handed>>, watcher'[w].pc # "hand",
           seen'[w] = watcher[w].read, Mark(w)' = watcher[w].tail \/ Mark(w)' = FirstRun
    PROVE  WatchOK(w)'
  <1>1. \A x : Past(x) => Past(x)' BY DEF Past
  <1>2. \A x : Heard(w, x) => Heard(w, x)' BY DEF Heard
  <1>3. ToSet(watcher[w].queue) = {} BY NoEvents
  <1>4. WatchOK(w) BY Watching
  <1>5. /\ \A x \in watcher[w].read : Heard(w, x)'
        /\ Passed(w, watcher[w].tail, {})
    BY <1>2, <1>3, <1>4 DEF WatchOK
  <1>6. Passed(w, Mark(w), {})' BY <1>1, <1>2, <1>5, NullsDiffer DEF Passed
  <1> QED BY <1>5, <1>6 DEF WatchOK

LEMMA EndWatched == ASSUME IInv, LInv, WInv, [Next]_vars, WatchEnd PROVE WInv'
  <1>1. /\ UNCHANGED <<channel, engine, log, count, published, spoiled, base, handed, watermark>>
        /\ watcher'["once"] = watcher["once"] /\ seen'["once"] = seen["once"]
        /\ watcher["watch"].pc = "hand" /\ watcher["watch"].queue = <<>>
    BY EachWatch DEF WatchEnd, WatchSound, SetW, engineVars, inboxVars, WInv, Watcher
  <1>2. channel = "log" => seen'["watch"] = watcher["watch"].read
    BY DEF WatchEnd, WInv, Watcher
  <1>3. channel = "log" => watcher'["watch"].pc = "on" /\ watcher'["watch"].key = watcher["watch"].tail
    BY EachWatch DEF WatchEnd, WatchSound, SetW, Off, Watcher
  <1>4. Mark("once")' = Mark("once") /\ Mark("watch")' = watcher'["watch"].key BY <1>1 DEF Mark
  <1>5. channel = "log" /\ "log" \notin spoiled => WatchOK("watch")'
    BY <1>1, <1>2, <1>3, <1>4, EndsCycle DEF Watcher
  <1> QED BY <1>1, <1>4, <1>5, OneWatches DEF Watcher

LEMMA SaveWatched == ASSUME IInv, LInv, WInv, [Next]_vars, OnceSave PROVE WInv'
  <1>1. /\ UNCHANGED <<channel, engine, log, count, published, spoiled, base, handed>>
        /\ watcher'["watch"] = watcher["watch"] /\ seen'["watch"] = seen["watch"]
        /\ watcher["once"].pc = "hand" /\ watcher["once"].queue = <<>>
    BY EachWatch DEF OnceSave, WatchSound, SetW, engineVars, inboxVars, WInv, Watcher
  <1>2. /\ seen'["once"] = watcher["once"].read /\ watcher'["once"].pc = "off"
        /\ watermark' = watcher["once"].tail \/ watermark' = FirstRun
    BY EachWatch DEF OnceSave, WatchSound, SetW, Off, WInv, Watcher
  <1>3. Mark("watch")' = Mark("watch") /\ Mark("once")' = watermark' BY <1>1 DEF Mark
  <1>4. channel = "log" /\ "log" \notin spoiled => WatchOK("once")'
    BY <1>1, <1>2, <1>3, EndsCycle DEF Watcher
  <1> QED BY <1>1, <1>3, <1>4, OneWatches DEF Watcher

\* A watcher that is killed starts from where its last whole cycle ended, or anew.
LEMMA KillWatched == ASSUME IInv, LInv, WInv, [Next]_vars, NEW w \in Watcher, KillWatcher(w) PROVE WInv'
  <1>1. /\ UNCHANGED <<channel, engine, log, count, published, spoiled, base, seen, handed, watermark>>
        /\ watcher'[w] = Off /\ \A v \in Watcher : v # w => watcher'[v] = watcher[v]
    BY EachWatch DEF KillWatcher, WatchSound, SetW, engineVars, inboxVars
  <1>2. watcher'[w].pc = "off" /\ watcher'[w].key = NoKey BY <1>1 DEF Off
  <1>3. \A v \in Watcher : v # w => Mark(v)' = Mark(v) BY <1>1 DEF Mark, Watcher
  <1>4. ASSUME channel = "log", "log" \notin spoiled PROVE WatchOK(w)'
    <2>1. WatchOK(w) BY <1>4, Watching
    <2>2. \A x : Past(x) => Past(x)' BY <1>1 DEF Past
    <2>3. \A x : Heard(w, x) => Heard(w, x)' BY <1>1 DEF Heard
    <2>4. Mark(w)' = Mark(w) \/ Mark(w)' = NoKey BY <1>1, <1>2 DEF Mark
    <2>5. Passed(w, Mark(w), {})' BY <1>1, <2>1, <2>2, <2>3, <2>4, NullsDiffer DEF Passed, WatchOK
    <2> QED BY <1>1, <1>2, <2>1, <2>3, <2>5 DEF WatchOK
  <1> QED BY <1>1, <1>3, <1>4, OneWatches

LEMMA NextWatched == ~Overlap /\ IInv /\ LInv /\ WInv /\ [Next]_vars => WInv'
  <1> SUFFICES ASSUME ~Overlap, IInv, LInv, WInv, [Next]_vars PROVE WInv' OBVIOUS
  <1>1. CASE UNCHANGED vars BY <1>1 DEF vars, WInv, WatchOK, Passed, Past, Heard, Mark
  <1>2. CASE TakeInbox \/ ClearInbox \/ PrintInbox \/ KillReader
    <2>1. /\ UNCHANGED <<channel, engine, log, count, published, watcher, watermark, base, seen, handed>>
          /\ spoiled \subseteq spoiled'
      BY <1>2 DEF TakeInbox, ClearInbox, PrintInbox, KillReader, engineVars, watchVars
    <2> QED BY <2>1 DEF WInv, WatchOK, Passed, Past, Heard, Mark
  <1>3. CASE Receive \/ Pull \/ OnceAck
    <2>1. channel' # "log" BY <1>3 DEF Receive, Pull, OnceAck
    <2> QED BY <2>1, HistoryEvents DEF WInv
  <1>4. CASE \E m \in Machine : EngineNext(m) BY <1>4, EngineWatched
  <1> QED BY <1>1, <1>2, <1>3, <1>4, StartWatched, PollWatched, FirstWatched, OncePollWatched,
             HandWatched, KillWatched, EndWatched, SaveWatched DEF Next

\* No event is passed over where commands take turns: on the topic none gets
\* lost, and on the log what a whole cycle of a watcher read has gone to its
\* callback, from whatever key the cycle started and whatever the log had
\* dropped or held twice, unless a writer's read of the log failed.
THEOREM NothingMissedHolds == ASSUME ~Overlap PROVE Spec => []NothingMissed
  <1>1. Kept /\ WInv => NothingMissed
    BY DEF Kept, Told, MessagesKept, Watcher, WInv, WatchOK, Heard, NothingMissed
  <1>2. Init => LInv BY InitLogs
  <1>3. IInv /\ LInv /\ [Next]_vars => LInv' BY NextLogs
  <1>4. Init => WInv BY InitWatched
  <1>5. IInv /\ LInv /\ WInv /\ [Next]_vars => WInv' BY NextWatched
  <1> QED BY <1>1, <1>2, <1>3, <1>4, <1>5, Inductive, InitKept, NextKeeps, PTL DEF Spec

=============================================================================
