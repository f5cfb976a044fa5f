------------------------------ MODULE SyncEvents ------------------------------
(***************************************************************************)
(* How a machine tells the others of a push, a sync or a delete, and how   *)
(* the others come to hear of it.                                          *)
(*                                                                         *)
(*   the engine    SyncEngine._publish_event, _append_to_drive_log,        *)
(*                 _load_remote_log, _flush_publishes, _flush_remote_log   *)
(*   the channel   "topic": Google Pub/Sub (PubSubNotifier);               *)
(*                 "log": the sync log in the backend is the channel       *)
(*                 (PollingNotifier, DropboxLongPollNotifier);             *)
(*                 "none": S3, SFTP and FTP have no notifier               *)
(*   the watchers  of the machine Me: `watch`, which runs on, and          *)
(*                 `watch --once`, one cycle each time cron starts it      *)
(*   the inbox     the file the watchers append to and the command `inbox` *)
(*                 reads and empties, both under its lock                  *)
(*                                                                         *)
(* An event is a machine and a number: its time, user, action and files    *)
(* matter only as the key that tells it from another event, and the two    *)
(* copies of one event have one key.  The log keeps its last MaxLog        *)
(* events (MAX_LOG_ENTRIES = 200 in the code).                             *)
(***************************************************************************)
EXTENDS Naturals, Sequences, FiniteSets, SequencesExt

CONSTANTS
    Machine,      \* the machines of the project
    Me,           \* the machine whose watchers and inbox are modelled
    Channels,     \* the channels a run starts with
    MaxLog,       \* length at which the log drops its oldest events
    MaxEvents,    \* bound: commands that publish
    MaxFaults,    \* bound: kills, failed calls, writes cut short
    Overlap,      \* may two machines publish at a time?
    FirstRun,     \* what `watch --once` reads when it has no watermark
    NoKey,        \* watermark of an empty log
    Torn          \* a line cut short

ASSUME EventsAssumption ==
    /\ Me \in Machine
    /\ MaxLog \in Nat \ {0} /\ MaxEvents \in Nat /\ MaxFaults \in Nat
    /\ Overlap \in BOOLEAN
    /\ Channels \subseteq {"topic", "log", "none"}
    /\ {FirstRun, NoKey, Torn} \cap [machine: Machine, n: 0..MaxEvents] = {}
    /\ FirstRun # NoKey

Event == [machine: Machine, n: 0..MaxEvents]

Watcher == {"watch", "once"}

(***************************************************************************)
(* watcher[w].key is what `watch` keeps in memory; watermark is the file   *)
(* of `watch --once`; .read are the events this cycle found.  published,   *)
(* base[w] and seen[w] are history: the events published so far, when w    *)
(* began, and in the log when w's last whole cycle read it (the last two   *)
(* on the log channel only); handed[w] are the events w has given to its   *)
(* callback, dropped those it had acknowledged and was killed before that; *)
(* spoiled says whether a read of the log failed, or a line of the inbox   *)
(* was cut short or lost.                                                  *)
(***************************************************************************)
VARIABLES channel, running, engine, log, sub, watcher, watermark, inbox, reader,
          count, faults, base, seen, handed, dropped, published, printed, spoiled

engineVars == <<engine, count, published>>
watchVars  == <<watcher, watermark, base, seen, handed, dropped>>
inboxVars  == <<inbox, reader, printed>>
vars == <<channel, running, engine, log, sub, watcher, watermark, inbox, reader,
          count, faults, base, seen, handed, dropped, published, printed, spoiled>>

Idle == [pc |-> "idle", event |-> NoKey, cache |-> <<>>, loaded |-> FALSE,
         copy |-> <<>>, dirty |-> FALSE, again |-> FALSE]
Off  == [pc |-> "off", key |-> NoKey, queue |-> <<>>, tail |-> NoKey, read |-> {}]

Foreign(e) == e.machine # Me

\* Mutant: one event too many stays.
CappedLate(s) ==
    IF Len(s) > MaxLog + 1 THEN SubSeq(s, Len(s) - MaxLog, Len(s)) ELSE s
\* SyncLog.append.
Capped(s) == IF Len(s) > MaxLog THEN SubSeq(s, Len(s) - MaxLog + 1, Len(s)) ELSE s

Fault == faults < MaxFaults /\ faults' = faults + 1

\* _create_notifier: the channel follows from the backend, and without one no
\* watcher runs.  On the log channel a machine runs one kind of watcher: the
\* two share nothing there but the inbox.  The log may hold an event of
\* earlier days (left out on the topic, where no watcher reads the log).
Init ==
    /\ channel \in Channels
    /\ \/ channel = "topic" /\ running = Watcher
       \/ channel = "log" /\ running \in {{"watch"}, {"once"}}
       \/ channel = "none" /\ running = {}
    /\ \/ log = <<>>
       \/ /\ channel # "topic"
          /\ \E m \in Machine \ {Me} : log = <<[machine |-> m, n |-> 0]>>
    /\ engine = [m \in Machine |-> Idle]
    /\ sub = {}
    /\ watcher = [w \in Watcher |-> Off]
    /\ watermark = FirstRun
    /\ inbox = {} /\ printed = {} /\ spoiled = {}
    /\ reader = [pc |-> "off", lines |-> {}]
    /\ count = 0 /\ faults = 0
    /\ base = [w \in Watcher |-> {}]
    /\ seen = [w \in Watcher |-> {}]
    /\ handed = [w \in Watcher |-> {}]
    /\ dropped = {}
    /\ published = IF channel = "log" THEN ToSet(log) ELSE {}

-----------------------------------------------------------------------------
(* The engine                                                              *)

Set(m, r) == engine' = [engine EXCEPT ![m] = r]

\* A push, sync or delete that will publish gets under way.
Begin(m) ==
    /\ engine[m].pc = "idle" /\ count < MaxEvents
    /\ Overlap \/ \A o \in Machine : engine[o].pc = "idle"
    /\ count' = count + 1
    /\ Set(m, [Idle EXCEPT !.pc = "work", !.event = [machine |-> m, n |-> count + 1]])
    /\ UNCHANGED <<channel, running, log, sub, faults, published, watchVars, inboxVars, spoiled>>

\* _remote_change_context: a conflict prompt names who changed the file, so
\* the log is read, and kept, before the event is published.  An error here
\* ends the command.
ReadContext(m) ==
    /\ engine[m].pc = "work" /\ ~engine[m].loaded /\ ~engine[m].again
    /\ \/ Set(m, [engine[m] EXCEPT !.cache = log, !.loaded = TRUE]) /\ UNCHANGED faults
       \/ Fault /\ Set(m, Idle)
    /\ UNCHANGED <<channel, running, log, sub, count, published, watchVars, inboxVars, spoiled>>

\* PubSubNotifier.publish_event_async hands the event to the client library;
\* the service keeps it for the subscription of Me.
PublishTopic(m) ==
    /\ channel = "topic" /\ engine[m].pc = "work"
    /\ sub' = sub \cup {engine[m].event}
    /\ published' = published \cup {engine[m].event}
    /\ Set(m, [engine[m] EXCEPT !.pc = "append"])
    /\ UNCHANGED <<channel, running, log, count, faults, watchVars, inboxVars, spoiled>>

\* publish_event of the log notifiers, its download: any failure counts as an
\* empty log.
PublishRead(m) ==
    /\ channel = "log" /\ engine[m].pc = "work"
    /\ \/ /\ Set(m, [engine[m] EXCEPT !.pc = "publish", !.copy = log])
          /\ UNCHANGED <<faults, spoiled>>
       \/ /\ Fault /\ spoiled' = spoiled \cup {"log"}
          /\ Set(m, [engine[m] EXCEPT !.pc = "publish"])
    /\ UNCHANGED <<channel, running, log, sub, count, published, watchVars, inboxVars>>

\* ... and its upload.  When that fails _publish_event warns and leaves the
\* engine's own log alone.
PublishWrite(m) ==
    /\ engine[m].pc = "publish"
    /\ \/ /\ log' = Capped(Append(engine[m].copy, engine[m].event))
          /\ Set(m, [engine[m] EXCEPT !.pc = "append", !.copy = <<>>])
          /\ published' = published \cup {engine[m].event}
          /\ UNCHANGED faults
       \/ /\ Fault /\ Set(m, [engine[m] EXCEPT !.pc = "flush", !.copy = <<>>])
          /\ UNCHANGED <<log, published>>
    /\ UNCHANGED <<channel, running, sub, count, watchVars, inboxVars, spoiled>>

\* Mutant: the log is not read first.
OwnLogFresh(m) == IF engine[m].loaded THEN engine[m].cache ELSE <<>>
\* What _append_to_drive_log appends to: the log read earlier in this
\* command, else the log as it is now.
OwnLog(m) == IF engine[m].loaded THEN engine[m].cache ELSE log

\* _append_to_drive_log; a failed read counts as an empty log.
AppendToDriveLog(m) ==
    /\ \/ engine[m].pc = "append"
       \/ channel = "none" /\ engine[m].pc = "work"
    /\ \/ /\ Set(m, [engine[m] EXCEPT !.pc = "flush", !.dirty = TRUE, !.loaded = TRUE,
                       !.cache = Capped(Append(OwnLog(m), engine[m].event))])
          /\ UNCHANGED <<faults, spoiled>>
       \/ /\ ~engine[m].loaded /\ Fault /\ spoiled' = spoiled \cup {"log"}
          /\ Set(m, [engine[m] EXCEPT !.pc = "flush", !.dirty = TRUE, !.loaded = TRUE,
                       !.cache = <<engine[m].event>>])
    /\ UNCHANGED <<channel, running, log, sub, count, published, watchVars, inboxVars>>

\* A command that has pushed and deleted publishes a second event.
Again(m) ==
    /\ engine[m].pc = "flush" /\ ~engine[m].again /\ count < MaxEvents
    /\ count' = count + 1
    /\ Set(m, [engine[m] EXCEPT !.pc = "work", !.again = TRUE,
                 !.event = [machine |-> m, n |-> count + 1]])
    /\ UNCHANGED <<channel, running, log, sub, faults, published, watchVars, inboxVars, spoiled>>

\* _flush_publishes and _flush_remote_log at the end of the command.
Flush(m) ==
    /\ engine[m].pc = "flush"
    /\ \/ engine[m].dirty /\ log' = engine[m].cache /\ UNCHANGED faults
       \/ ~engine[m].dirty /\ UNCHANGED <<log, faults>>
       \/ engine[m].dirty /\ Fault /\ UNCHANGED log
    /\ Set(m, Idle)
    /\ UNCHANGED <<channel, running, sub, count, published, watchVars, inboxVars, spoiled>>

KillEngine(m) ==
    /\ engine[m].pc # "idle" /\ Fault
    /\ Set(m, Idle)
    /\ UNCHANGED <<channel, running, log, sub, count, published, watchVars, inboxVars, spoiled>>

-----------------------------------------------------------------------------
(* The watchers on the log                                                 *)

\* _get_last_log_key; None for an empty log.
LastKey(s) == IF s = <<>> THEN NoKey ELSE Last(s)

\* The place of the first event with the key, after all that come before it.
First(s, key) == 1 + Cardinality({i \in 1..Len(s) : \A j \in 1..i : s[j] # key})

\* Mutant: a key that has left the log counts as the end of it.
FreshIfFound(s, key) ==
    IF \E i \in 1..Len(s) : s[i] = key
    THEN SubSeq(s, First(s, key) + 1, Len(s)) ELSE IF key = NoKey THEN s ELSE <<>>
\* Mutant: the event after the key is taken for seen.
FreshPastNext(s, key) ==
    IF \E i \in 1..Len(s) : s[i] = key
    THEN SubSeq(s, First(s, key) + 2, Len(s)) ELSE s

\* _dispatch_new_events: what follows the first event with the key; the
\* whole log when no event has it.
Fresh(s, key) ==
    IF \E i \in 1..Len(s) : s[i] = key
    THEN SubSeq(s, First(s, key) + 1, Len(s)) ELSE s

SetW(w, r) == watcher' = [watcher EXCEPT ![w] = r]

\* watch() begins: the last event of the log, or none when it cannot be read,
\* is where it starts from.
WatchStart ==
    /\ "watch" \in running /\ watcher["watch"].pc = "off"
    /\ \/ /\ channel = "topic" /\ SetW("watch", [Off EXCEPT !.pc = "on"])
          /\ UNCHANGED <<faults, base, seen>>
       \/ /\ channel = "log" /\ SetW("watch", [Off EXCEPT !.pc = "on", !.key = LastKey(log)])
          /\ base' = [base EXCEPT !["watch"] = published]
          /\ seen' = [seen EXCEPT !["watch"] = ToSet(log)]
          /\ UNCHANGED faults
       \/ /\ channel = "log" /\ Fault /\ SetW("watch", [Off EXCEPT !.pc = "on"])
          /\ base' = [base EXCEPT !["watch"] = {}]
          /\ seen' = [seen EXCEPT !["watch"] = {}]
    /\ UNCHANGED <<channel, running, log, sub, engineVars, watermark, handed, dropped, inboxVars, spoiled>>

\* One poll, or one answer of the long poll, of watch().  A failed read
\* changes nothing.
Poll ==
    /\ channel = "log" /\ watcher["watch"].pc = "on" /\ log # <<>>
    /\ SetW("watch", [watcher["watch"] EXCEPT !.pc = "hand", !.tail = LastKey(log),
                        !.queue = Fresh(log, watcher["watch"].key), !.read = ToSet(log)])
    /\ UNCHANGED <<channel, running, log, sub, engineVars, faults, watermark, base, seen, handed,
                   dropped, inboxVars, spoiled>>

\* watch_once() without a watermark: the end of the log becomes it, and
\* nothing is told.
OnceFirst ==
    /\ channel = "log" /\ "once" \in running /\ watcher["once"].pc = "off" /\ watermark = FirstRun
    /\ \/ /\ watermark' = LastKey(log)
          /\ base' = [base EXCEPT !["once"] = published]
          /\ seen' = [seen EXCEPT !["once"] = ToSet(log)]
          /\ UNCHANGED faults
       \/ /\ Fault /\ watermark' = NoKey
          /\ base' = [base EXCEPT !["once"] = {}]
          /\ seen' = [seen EXCEPT !["once"] = {}]
    /\ UNCHANGED <<channel, running, log, sub, engineVars, watcher, handed, dropped, inboxVars, spoiled>>

\* watch_once() with one.
OncePoll ==
    /\ channel = "log" /\ "once" \in running /\ watcher["once"].pc = "off" /\ watermark # FirstRun /\ log # <<>>
    /\ SetW("once", [pc |-> "hand", key |-> watermark, tail |-> LastKey(log),
                     queue |-> Fresh(log, watermark), read |-> ToSet(log)])
    /\ UNCHANGED <<channel, running, log, sub, engineVars, faults, watermark, base, seen, handed,
                   dropped, inboxVars, spoiled>>

-----------------------------------------------------------------------------
(* The watchers on the topic.  The service delivers at least once and in   *)
(* any order; a message stays until it is acknowledged.  Both watchers use *)
(* the machine's one subscription.                                         *)

\* _on_message acknowledges before it calls the callback; the acknowledgement
\* can be lost.
Receive ==
    /\ channel = "topic" /\ watcher["watch"].pc = "on"
    /\ \E e \in sub :
          /\ \/ sub' = sub \ {e} /\ UNCHANGED faults
             \/ Fault /\ UNCHANGED sub
          /\ SetW("watch", [watcher["watch"] EXCEPT !.pc = "hand", !.queue = <<e>>])
    /\ UNCHANGED <<channel, running, log, engineVars, watermark, base, seen, handed, dropped,
                   inboxVars, spoiled>>

\* PubSubNotifier.watch_once pulls what there is and acknowledges at the end.
Pull ==
    /\ channel = "topic" /\ watcher["once"].pc = "off" /\ sub # {}
    /\ \E messages \in SetToSeqs(sub) :
          SetW("once", [Off EXCEPT !.pc = "hand", !.queue = messages, !.read = sub])
    /\ UNCHANGED <<channel, running, log, sub, engineVars, faults, watermark, base, seen, handed,
                   dropped, inboxVars, spoiled>>

-----------------------------------------------------------------------------
(* The callback: Notifier.notify writes the inbox before it shows the      *)
(* notice.  Own events are passed over.                                    *)

\* Mutant: the lock is not taken.
WriteInboxUnlocked(e) ==
    /\ inbox' = inbox \cup {e}
    /\ UNCHANGED <<faults, spoiled, reader, printed>>
\* _write_inbox appends one line, waiting for the lock the reader may hold.  A
\* disk that fills leaves a part of the line, and the exception is swallowed.
WriteInbox(e) ==
    /\ reader.pc # "locked"
    /\ \/ inbox' = inbox \cup {e} /\ UNCHANGED <<faults, spoiled>>
       \/ inbox' = inbox \cup {Torn} /\ spoiled' = spoiled \cup {"line"} /\ Fault
    /\ UNCHANGED <<reader, printed>>

Hand(w) ==
    LET e == Head(watcher[w].queue) IN
    /\ watcher[w].pc = "hand" /\ watcher[w].queue # <<>>
    /\ SetW(w, [watcher[w] EXCEPT !.queue = Tail(@)])
    /\ \/ /\ Foreign(e) /\ WriteInbox(e)
          /\ handed' = [handed EXCEPT ![w] = @ \cup {e}]
       \/ ~Foreign(e) /\ UNCHANGED <<faults, handed, inboxVars, spoiled>>
    /\ UNCHANGED <<channel, running, log, sub, engineVars, watermark, base, seen, dropped>>

\* The end of a cycle of watch().
WatchEnd ==
    /\ watcher["watch"].pc = "hand" /\ watcher["watch"].queue = <<>>
    /\ SetW("watch", [Off EXCEPT !.pc = "on",
                        !.key = IF channel = "log" THEN watcher["watch"].tail ELSE NoKey])
    /\ seen' = [seen EXCEPT !["watch"] = IF channel = "log" THEN watcher["watch"].read ELSE {}]
    /\ UNCHANGED <<channel, running, log, sub, engineVars, faults, watermark, base, handed,
                   dropped, inboxVars, spoiled>>

\* The end of watch_once() on the log: save_watermark rewrites its file in
\* place, so that a kill in between leaves no watermark.
OnceSave ==
    /\ channel = "log"
    /\ watcher["once"].pc = "hand" /\ watcher["once"].queue = <<>>
    /\ SetW("once", Off)
    /\ \/ watermark' = watcher["once"].tail /\ UNCHANGED faults
       \/ watermark' = FirstRun /\ watcher["once"].tail # watermark /\ Fault
    /\ seen' = [seen EXCEPT !["once"] = watcher["once"].read]
    /\ UNCHANGED <<channel, running, log, sub, engineVars, base, handed, dropped, inboxVars, spoiled>>

\* ... and on the topic: one acknowledgement for all of them, which can fail.
OnceAck ==
    /\ channel = "topic"
    /\ watcher["once"].pc = "hand" /\ watcher["once"].queue = <<>>
    /\ SetW("once", Off)
    /\ \/ sub' = sub \ watcher["once"].read /\ UNCHANGED faults
       \/ Fault /\ UNCHANGED sub
    /\ UNCHANGED <<channel, running, log, engineVars, watermark, base, seen, handed, dropped,
                   inboxVars, spoiled>>

KillWatcher(w) ==
    /\ watcher[w].pc # "off" /\ Fault
    /\ SetW(w, Off)
    /\ dropped' = IF w = "watch" /\ channel = "topic"
                  THEN dropped \cup ToSet(watcher[w].queue) ELSE dropped
    /\ UNCHANGED <<channel, running, log, sub, engineVars, watermark, base, seen, handed, inboxVars, spoiled>>

-----------------------------------------------------------------------------
(* The command `inbox` (read_and_clear_inbox)                              *)

TakeInbox ==
    /\ reader.pc = "off" /\ inbox # {}
    /\ reader' = [pc |-> "locked", lines |-> inbox]
    /\ UNCHANGED <<channel, running, log, sub, engineVars, faults, watchVars, inbox, printed, spoiled>>

ClearInbox ==
    /\ reader.pc = "locked"
    /\ inbox' = {}
    /\ reader' = [reader EXCEPT !.pc = "print"]
    /\ UNCHANGED <<channel, running, log, sub, engineVars, faults, watchVars, printed, spoiled>>

\* One line that is not JSON makes the whole batch an empty list.
PrintInbox ==
    /\ reader.pc = "print"
    /\ printed' = IF Torn \in reader.lines THEN printed ELSE printed \cup reader.lines
    /\ reader' = [pc |-> "off", lines |-> {}]
    /\ UNCHANGED <<channel, running, log, sub, engineVars, faults, watchVars, inbox, spoiled>>

KillReader ==
    /\ reader.pc # "off" /\ Fault
    /\ reader' = [pc |-> "off", lines |-> {}]
    /\ spoiled' = IF reader.pc = "print" THEN spoiled \cup {"line"} ELSE spoiled
    /\ UNCHANGED <<channel, running, log, sub, engineVars, watchVars, inbox, printed>>

-----------------------------------------------------------------------------
EngineNext(m) ==
    \/ Begin(m) \/ ReadContext(m) \/ PublishTopic(m) \/ PublishRead(m)
    \/ PublishWrite(m) \/ AppendToDriveLog(m) \/ Again(m) \/ Flush(m) \/ KillEngine(m)

Next ==
    \/ \E m \in Machine : EngineNext(m)
    \/ WatchStart \/ Poll \/ OnceFirst \/ OncePoll \/ Receive \/ Pull
    \/ \E w \in Watcher : Hand(w) \/ KillWatcher(w)
    \/ WatchEnd \/ OnceSave \/ OnceAck
    \/ TakeInbox \/ ClearInbox \/ PrintInbox \/ KillReader

Spec == Init /\ [][Next]_vars

OnceCycle  == OnceFirst \/ OncePoll \/ Pull \/ OnceSave \/ OnceAck
WatchCycle == Poll \/ WatchEnd

(***************************************************************************)
(* Cron starts `watch --once` again and again, `watch` polls for as long   *)
(* as it runs, and a cycle that has begun goes on; a command that holds    *)
(* the lock of the inbox goes on too, and the kernel gives the lock to one *)
(* that waits for it.  Nothing makes a user publish, watch or read the     *)
(* inbox.                                                                  *)
(***************************************************************************)
FairSpec ==
    /\ Spec
    /\ WF_vars(OnceCycle) /\ WF_vars(WatchCycle)
    /\ \A w \in Watcher : SF_vars(Hand(w))
    /\ WF_vars(ClearInbox)

-----------------------------------------------------------------------------
(* Properties                                                              *)

\* The log never grows past MAX_LOG_ENTRIES, whatever copy of it a command
\* uploads, and what watchers, watermark and inbox hold are events.
TypeOK ==
    /\ channel \in Channels
    /\ log \in Seq(Event) /\ Len(log) <= MaxLog
    /\ \A m \in Machine :
          /\ engine[m].pc \in {"idle", "work", "publish", "append", "flush"}
          /\ engine[m].event \in Event \cup {NoKey}
          /\ engine[m].cache \in Seq(Event) /\ engine[m].copy \in Seq(Event)
    /\ sub \subseteq Event
    /\ \A w \in Watcher :
          /\ watcher[w].pc \in {"off", "on", "hand"}
          /\ watcher[w].key \in Event \cup {NoKey} /\ watcher[w].tail \in Event \cup {NoKey}
          /\ watcher[w].queue \in Seq(Event)
    /\ watermark \in Event \cup {NoKey, FirstRun}
    /\ inbox \subseteq Event \cup {Torn} /\ reader.lines \subseteq Event \cup {Torn}

\* On the topic a message is still there until one of the watchers has given it to
\* the callback; only `watch`, which acknowledges first, can drop one when it is
\* killed.
MessagesKept ==
    channel = "topic" =>
        \A e \in published : Foreign(e) =>
            \/ e \in sub \cup dropped
            \/ \E w \in Watcher : e \in handed[w] \cup ToSet(watcher[w].queue)

\* No event is passed over: on the topic no message gets lost, and on the log, where
\* the commands do not overlap, what another machine logged, and a whole cycle of
\* a watcher read, has gone to the callback, whatever key the cycle started from,
\* although the log drops old events and holds events twice; only a writer whose
\* read of the log failed can put an event where the watcher has passed.
NothingMissed ==
    /\ MessagesKept
    /\ channel = "log" /\ "log" \notin spoiled =>
         \A w \in Watcher : watcher[w].pc # "hand" =>
            \A e \in seen[w] \ base[w] : Foreign(e) => e \in handed[w]

\* Where the commands do not overlap, an event leaves the log only when the log
\* is full of later ones: the two writers of one command, the notifier and the
\* engine with its copy of earlier, and the second event of a command do not
\* undo each other or an earlier command.  Only a read that failed starts the
\* log anew.
LogKeeps ==
    [][\A e \in ToSet(log) \ ToSet(log') :
         \/ "log" \in spoiled
         \/ Len(log') = MaxLog /\ \A i \in 1..MaxLog : log'[i].n > e.n]_vars

\* A line given to the inbox is in it, or with the command that took it, or
\* has been printed, however the writers and the reader interleave, unless a
\* line was cut short or a reader died between emptying and printing.
LinesKept ==
    "line" \notin spoiled => \A w \in Watcher : handed[w] \subseteq inbox \cup reader.lines \cup printed

Waiting(e) ==
    \/ /\ channel = "log" /\ "log" \notin spoiled
       /\ \/ watermark # FirstRun /\ e \in ToSet(log) \ base["once"]
          \/ watcher["watch"].pc # "off" /\ e \in ToSet(log) \ base["watch"]
    \/ channel = "topic" /\ e \in sub

\* What another machine has published is told to a machine that runs `watch`
\* or, from cron, `watch --once`, unless the log has lost it first, the
\* watcher was killed or its watermark was lost.
EventuallyTold ==
    \A m \in Machine \ {Me}, n \in 1..MaxEvents :
       LET e == [machine |-> m, n |-> n] IN
       Waiting(e) ~> \/ channel = "log" /\ ~Waiting(e)
                     \/ e \in dropped
                     \/ \E w \in Watcher : e \in handed[w]

\* "successive runs only dispatch events that arrived since the previous
\* invocation" (notifications/polling.py:87, the docstring of watch_once).
OnlyNewEvents ==
    (watcher["once"].pc = "hand") =>
       \A e \in ToSet(watcher["once"].queue) : Foreign(e) => e \notin seen["once"]
=============================================================================
