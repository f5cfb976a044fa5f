------------------------------ MODULE Throttling ------------------------------
(***************************************************************************)
(* The pauses of an upload: SyncEngine._upload_with_coordinator, which     *)
(* tries an upload again after a rate limit, BackoffCoordinator, by which  *)
(* all the workers of a command pause together, and TokenBucket, which     *)
(* keeps an upload under max_upload_kbps.                                  *)
(*                                                                         *)
(* A section the code runs under the coordinator's lock is one step.  The  *)
(* lock is let go for the callbacks that print "Pausing" and "Throttle     *)
(* cleared", so what follows a callback is a step of its own.              *)
(*                                                                         *)
(* Time is relative: Tick is one unit, the deadline, the timeouts and the  *)
(* sleeps are the units still to go, and a bucket fills as time passes     *)
(* instead of when it is next looked at, which comes to the same.  A       *)
(* thread may be late at every step.                                       *)
(***************************************************************************)
EXTENDS Integers

CONSTANTS
    Worker,       \* the threads of the pool (parallel_workers)
    Uploads,      \* uploads of the command
    MaxWaits,     \* max_throttle_wait_seconds a configuration may have
    Attempts,     \* max_retry_attempts a configuration may have
    Default,      \* DEFAULT_INITIAL_BACKOFF_SECONDS
    RetryAfter,   \* the waits a server may ask for, None when it names none
    None,         \* no deadline, no Retry-After
    Size,         \* bytes of a file
    Blocks,       \* bytes a backend pays for at a time
    Capacity,     \* TokenBucket.capacity
    Rates         \* max_upload_kbps, in bytes per unit of time; 0 is no cap

ASSUME ThrottlingAssumption ==
    /\ Uploads \in Nat /\ Default \in Nat
    /\ Size \in Nat \ {0} /\ Capacity \in Nat \ {0}
    /\ MaxWaits \subseteq Nat /\ Attempts \subseteq Nat /\ Rates \subseteq Nat
    /\ Blocks \subseteq Nat \ {0}
    /\ RetryAfter \subseteq Nat \cup {None} /\ None \notin Nat

(***************************************************************************)
(* window is the deadline, 0 once it has passed and before a worker finds  *)
(* it so; backoff is the length of the window when it was last set; hold   *)
(* is history: the longest time a server still asks the workers to wait,   *)
(* as far as the configuration lets it.                                    *)
(***************************************************************************)
VARIABLES maxWait, maxAttempts, rate, block, queued, worker, window, backoff, hold

config == <<maxWait, maxAttempts, rate, block>>
vars == <<maxWait, maxAttempts, rate, block, queued, worker, window, backoff, hold>>

Least(a, b) == IF a < b THEN a ELSE b
Greatest(a, b) == IF a > b THEN a ELSE b

\* The coordinator fires the callbacks once a window: it has always one to
\* clear when there is a deadline, so its two flags need no variable.
Idle == [pc |-> "idle", tries |-> 0, left |-> 0, need |-> 0, level |-> 0,
         timer |-> 0, asked |-> None]

\* _make_coordinator: a new one for every command.  max_retry_attempts below 1
\* counts as 1.
Init ==
    /\ maxWait \in MaxWaits /\ rate \in Rates /\ block \in Blocks
    /\ maxAttempts \in {Greatest(1, n) : n \in Attempts}
    /\ queued = Uploads
    /\ worker = [w \in Worker |-> Idle]
    /\ window = None /\ backoff = 0 /\ hold = 0

Set(w, r) == worker' = [worker EXCEPT ![w] = r]

At(w, pc) == worker[w].pc = pc

\* Condition.notify_all; w itself goes on to r.
NotifyAnd(w, r) ==
    worker' = [v \in Worker |->
        IF v = w THEN r
        ELSE IF At(v, "blocked") THEN [worker[v] EXCEPT !.timer = 0] ELSE worker[v]]

-----------------------------------------------------------------------------
(* BackoffCoordinator                                                      *)

\* An attempt starts: upload_file makes its own bucket, a full one.
Attempt(r) ==
    [r EXCEPT !.pc = "sending", !.left = Size, !.need = Least(block, Size),
              !.level = Capacity, !.timer = 0]

AtTop(w) == At(w, "check") \/ (At(w, "blocked") /\ worker[w].timer = 0)

\* wait_if_throttled, no window.
Pass(w) ==
    /\ AtTop(w) /\ window = None
    /\ Set(w, Attempt(worker[w]))
    /\ UNCHANGED <<queued, window, backoff, hold, config>>

\* wait_if_throttled, window open: wait until a notify or the deadline.
Block(w) ==
    /\ AtTop(w) /\ window # None /\ window # 0
    /\ Set(w, [worker[w] EXCEPT !.pc = "blocked", !.timer = window])
    /\ UNCHANGED <<queued, window, backoff, hold, config>>

\* wait_if_throttled, deadline passed: this worker ends the window, lets the
\* lock go and prints that the throttle is cleared.
Clear(w) ==
    /\ AtTop(w) /\ window = 0
    /\ window' = None /\ backoff' = 0
    /\ Set(w, [worker[w] EXCEPT !.pc = "clearing", !.timer = 0])
    /\ UNCHANGED <<queued, hold, config>>

\* It takes the lock again, wakes the others and returns without a second look
\* at the deadline.
Cleared(w) ==
    /\ At(w, "clearing")
    /\ NotifyAnd(w, Attempt(worker[w]))
    /\ UNCHANGED <<queued, window, backoff, hold, config>>

\* Mutant: one attempt more than the configuration allows.
NextTryOnceMore(r) ==
    IF r.tries <= maxAttempts
    THEN [r EXCEPT !.pc = "check", !.tries = r.tries + 1, !.asked = None]
    ELSE Idle
\* The loop of _upload_with_coordinator: the next attempt, or the error
\* "upload deferred by global rate limit".
NextTry(r) ==
    IF r.tries < maxAttempts
    THEN [r EXCEPT !.pc = "check", !.tries = r.tries + 1, !.asked = None]
    ELSE Idle

\* signal_rate_limit, no window open: a new one, then the lock is let go and
\* the pause is announced.
Open(w) ==
    /\ At(w, "refused") /\ window \in {None, 0}
    /\ LET asked == worker[w].asked
           wait  == Least(maxWait, IF asked = None THEN Default ELSE asked)
       IN  /\ window' = wait /\ backoff' = wait
           /\ hold' = IF asked = None THEN hold ELSE Greatest(hold, wait)
    /\ Set(w, [worker[w] EXCEPT !.pc = "starting"])
    /\ UNCHANGED <<queued, config>>

Announced(w) ==
    /\ At(w, "starting")
    /\ NotifyAnd(w, NextTry(worker[w]))
    /\ UNCHANGED <<queued, window, backoff, hold, config>>

\* ESCALATION_MULTIPLIER, rounded down to whole units.
Escalation == (backoff * 3) \div 2

\* Mutant: a longer wait the server asks for is passed over.
NewWindowOwn(asked) == Least(maxWait, Escalation)
\* signal_rate_limit, window open: half as long again, or what the server asks
\* for when that is more, up to the cap.
NewWindow(asked) ==
    Least(maxWait, IF asked # None /\ asked > Escalation THEN asked ELSE Escalation)

Escalate(w) ==
    /\ At(w, "refused") /\ window # None /\ window # 0
    /\ LET asked == worker[w].asked
           wait  == NewWindow(asked)
       IN  /\ window' = wait /\ backoff' = wait
           /\ hold' = IF asked = None THEN hold ELSE Greatest(hold, Least(maxWait, asked))
    /\ NotifyAnd(w, NextTry(worker[w]))
    /\ UNCHANGED <<queued, config>>

-----------------------------------------------------------------------------
(* The uploads and their buckets                                           *)

\* A free thread of the pool takes the next upload.
Take(w) ==
    /\ At(w, "idle") /\ queued > 0
    /\ queued' = queued - 1
    /\ Set(w, [Idle EXCEPT !.pc = "check", !.tries = 1])
    /\ UNCHANGED <<window, backoff, hold, config>>

\* Mutant: a request is not cut into waves the bucket can hold.
WaveWhole(need) == need
\* The part of a request the bucket is asked for at once.
Wave(need) == Least(need, Capacity)

\* Top of the loop of TokenBucket.consume, with part of the request unpaid.
Paying(w) ==
    /\ worker[w].need > 0
    /\ At(w, "sending") \/ (At(w, "asleep") /\ worker[w].timer = 0)

Covered(w) == rate = 0 \/ worker[w].level >= Wave(worker[w].need)

\* A wave is taken from the bucket; a NullBucket asks for nothing.
Pay(w) ==
    /\ Paying(w) /\ Covered(w)
    /\ LET wave == IF rate = 0 THEN 0 ELSE Wave(worker[w].need) IN
           Set(w, [worker[w] EXCEPT !.pc = "sending", !.level = @ - wave,
                                    !.need = IF rate = 0 THEN 0 ELSE @ - wave])
    /\ UNCHANGED <<queued, window, backoff, hold, config>>

\* Too little in the bucket: sleep until there should be enough.
Sleep(w) ==
    /\ Paying(w) /\ ~Covered(w)
    /\ LET deficit == Wave(worker[w].need) - worker[w].level IN
           Set(w, [worker[w] EXCEPT !.pc = "asleep", !.timer = (deficit + rate - 1) \div rate])
    /\ UNCHANGED <<queued, window, backoff, hold, config>>

Paid(w) == At(w, "sending") /\ worker[w].need = 0

\* A block is sent; the last one ends the upload.
Send(w) ==
    /\ Paid(w)
    /\ LET left == worker[w].left - Least(block, worker[w].left) IN
           Set(w, IF left = 0 THEN Idle
                  ELSE [worker[w] EXCEPT !.left = left, !.need = Least(block, left)])
    /\ UNCHANGED <<queued, window, backoff, hold, config>>

\* The server answers with a rate limit, with or without a Retry-After.
Refuse(w) ==
    /\ Paid(w)
    /\ \E asked \in RetryAfter :
           Set(w, [worker[w] EXCEPT !.pc = "refused", !.asked = asked, !.left = 0, !.level = 0])
    /\ UNCHANGED <<queued, window, backoff, hold, config>>

\* Any other error is raised to the caller.
Raise(w) ==
    /\ Paid(w)
    /\ Set(w, Idle)
    /\ UNCHANGED <<queued, window, backoff, hold, config>>

-----------------------------------------------------------------------------
Down(n) == IF n > 0 THEN n - 1 ELSE n

Tick ==
    /\ worker' = [w \in Worker |->
           [worker[w] EXCEPT !.timer = Down(@),
                             !.level = IF worker[w].pc \in {"sending", "asleep"}
                                       THEN Least(Capacity, @ + rate) ELSE @]]
    /\ window' = IF window = None THEN None ELSE Down(window)
    /\ hold' = Down(hold)
    /\ UNCHANGED <<queued, backoff, config>>

Step(w) ==
    \/ Take(w) \/ Pass(w) \/ Block(w) \/ Clear(w) \/ Cleared(w)
    \/ Open(w) \/ Announced(w) \/ Escalate(w)
    \/ Pay(w) \/ Sleep(w)
    \/ Send(w) \/ Refuse(w) \/ Raise(w)

Next == Tick \/ \E w \in Worker : Step(w)

Spec == Init /\ [][Next]_vars

\* Time passes and no thread is starved.  A server may answer every attempt
\* with a rate limit.
FairSpec == Spec /\ WF_vars(Tick) /\ \A w \in Worker : WF_vars(Step(w))

-----------------------------------------------------------------------------
\* A window is never longer than max_throttle_wait_seconds, a bucket never
\* holds more than its capacity nor owes a byte, and an upload makes no more
\* than max_retry_attempts attempts.
TypeOK ==
    /\ maxWait \in MaxWaits /\ maxAttempts \in Nat \ {0}
    /\ rate \in Rates /\ block \in Blocks
    /\ queued \in 0..Uploads
    /\ window \in (0..maxWait) \cup {None} /\ backoff \in 0..maxWait /\ hold \in 0..maxWait
    /\ \A w \in Worker :
        /\ worker[w].pc \in {"idle", "check", "blocked", "clearing", "sending", "asleep",
                             "refused", "starting"}
        /\ worker[w].tries \in 0..maxAttempts
        /\ worker[w].left \in 0..Size /\ worker[w].need \in 0..Size
        /\ worker[w].level \in 0..Capacity
        /\ worker[w].timer \in Nat /\ worker[w].asked \in RetryAfter \cup {None}

\* While a server asks to wait, whoever it told, no worker starts an attempt,
\* however the signals of several workers extend, shorten or end the window:
\* save the one worker that is just telling the user that the last window is
\* over, which does not look at the deadline again.
PauseHonoured ==
    [][\A w \in Worker :
        (~At(w, "sending") /\ ~At(w, "asleep") /\ At(w, "sending")')
            => hold = 0 \/ At(w, "clearing")]_vars

\* Every upload of the command comes to an end, sent, failed or deferred: no
\* worker waits for a notify that nobody sends, or for a bucket that can never
\* hold what it asks for.
EveryUploadEnds == <>[](queued = 0 /\ \A w \in Worker : At(w, "idle"))
=============================================================================
