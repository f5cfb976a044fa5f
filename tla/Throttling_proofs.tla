--------------------------- MODULE Throttling_proofs ---------------------------
(* Proofs about Throttling: type correctness, and that a pause is honoured. *)
EXTENDS Throttling, TLAPS

PC == {"idle", "check", "blocked", "clearing", "sending", "asleep", "refused", "starting"}

\* What a thread can be; TypeOK says the same field by field.
State == [pc : PC, tries : 0..maxAttempts, left : 0..Size, need : 0..Size,
          level : 0..Capacity, timer : Nat, asked : RetryAfter \cup {None}]

Typed ==
    /\ maxWait \in MaxWaits /\ maxAttempts \in Nat \ {0}
    /\ rate \in Rates /\ block \in Blocks
    /\ queued \in 0..Uploads
    /\ window \in (0..maxWait) \cup {None} /\ backoff \in 0..maxWait /\ hold \in 0..maxWait
    /\ worker \in [Worker -> State]

\* The window is at least as long as the longest wait still asked for, and a
\* window that is made longer starts from no less than what is left of it.
Held ==
    /\ window = None => hold = 0
    /\ window # None => hold <= window /\ window <= backoff

IInv == Typed /\ Held

USE ThrottlingAssumption DEF ThrottlingAssumption

LEMMA Numbers == Typed => /\ maxWait \in Nat /\ rate \in Nat /\ block \in Nat \ {0}
                          /\ None \notin 0..maxWait
  BY DEF Typed

LEMMA TypedIsTypeOK == Typed => TypeOK
  BY DEF Typed, TypeOK, State, PC

LEMMA InitHolds == Init => IInv
  <1> SUFFICES ASSUME Init PROVE IInv OBVIOUS
  <1>1. maxAttempts \in Nat \ {0} BY DEF Init, Greatest
  <1>2. Idle \in State BY <1>1 DEF Idle, State, PC
  <1> QED BY <1>1, <1>2 DEF Init, IInv, Typed, Held

\* The steps of one thread leave the others and the configuration alone.
LEMMA SetTyped ==
    ASSUME Typed, NEW w \in Worker, NEW r \in State, Set(w, r), UNCHANGED config
    PROVE  worker' \in [Worker -> State]'
  BY DEF Typed, Set, config, State

LEMMA NotifyTyped ==
    ASSUME Typed, NEW w \in Worker, NEW r \in State, NotifyAnd(w, r), UNCHANGED config
    PROVE  worker' \in [Worker -> State]'
  <1>1. State' = State BY DEF config, State
  <1>2. \A v \in Worker : [worker[v] EXCEPT !.timer = 0] \in State BY DEF Typed, State
  <1> QED BY <1>1, <1>2 DEF Typed, NotifyAnd

LEMMA AttemptTyped == ASSUME Typed, NEW r \in State PROVE Attempt(r) \in State
  <1>1. Size \in 0..Size /\ Capacity \in 0..Capacity OBVIOUS
  <1>2. Least(block, Size) \in 0..Size BY Numbers DEF Least
  <1> QED BY <1>1, <1>2 DEF Attempt, State, PC

LEMMA NextTryTyped == ASSUME Typed, NEW r \in State PROVE NextTry(r) \in State
  <1>1. Idle \in State BY DEF Idle, State, PC, Typed
  <1>2. CASE r.tries < maxAttempts
    <2>1. r.tries + 1 \in 0..maxAttempts BY <1>2 DEF State, Typed
    <2> QED BY <1>2, <2>1 DEF NextTry, State, PC
  <1>3. CASE ~(r.tries < maxAttempts) BY <1>1, <1>3 DEF NextTry
  <1> QED BY <1>2, <1>3

\* A step that leaves the pause alone keeps what it is measured by.
LEMMA PauseStays ==
    ASSUME IInv, worker' \in [Worker -> State]', UNCHANGED <<window, backoff, hold, config>>,
           queued' \in 0..Uploads
    PROVE  IInv'
  BY DEF IInv, Typed, Held, config

LEMMA PassHolds == ASSUME IInv, NEW w \in Worker, Pass(w) PROVE IInv'
  <1>1. worker[w] \in State BY DEF IInv, Typed
  <1>2. Attempt(worker[w]) \in State BY <1>1, AttemptTyped DEF IInv
  <1>3. worker' \in [Worker -> State]' BY <1>2, SetTyped DEF Pass, IInv
  <1> QED BY <1>3, PauseStays DEF Pass, IInv, Typed

LEMMA BlockHolds == ASSUME IInv, NEW w \in Worker, Block(w) PROVE IInv'
  <1>1. window \in Nat BY Numbers DEF Block, IInv, Typed
  <1>2. [worker[w] EXCEPT !.pc = "blocked", !.timer = window] \in State
    BY <1>1 DEF IInv, Typed, State, PC
  <1>3. worker' \in [Worker -> State]' BY <1>2, SetTyped DEF Block, IInv
  <1> QED BY <1>3, PauseStays DEF Block, IInv, Typed

LEMMA ClearHolds == ASSUME IInv, NEW w \in Worker, Clear(w) PROVE IInv'
  <1>1. [worker[w] EXCEPT !.pc = "clearing", !.timer = 0] \in State
    BY ZenonT(60) DEF IInv, Typed, State, PC
  <1>2. worker' \in [Worker -> State]' BY <1>1, SetTyped DEF Clear, IInv
  <1>3. hold = 0 BY Numbers DEF Clear, IInv, Typed, Held
  <1> QED BY <1>2, <1>3, Numbers DEF Clear, IInv, Typed, Held, config

LEMMA ClearedHolds == ASSUME IInv, NEW w \in Worker, Cleared(w) PROVE IInv'
  <1>1. worker[w] \in State BY DEF IInv, Typed
  <1>2. Attempt(worker[w]) \in State BY <1>1, AttemptTyped DEF IInv
  <1>3. worker' \in [Worker -> State]' BY <1>2, NotifyTyped DEF Cleared, IInv
  <1> QED BY <1>3, PauseStays DEF Cleared, IInv, Typed

\* A new window lasts as long as was asked, within the cap.
LEMMA OpenHolds == ASSUME IInv, NEW w \in Worker, Open(w) PROVE IInv'
  <1> DEFINE asked == worker[w].asked
             wait  == Least(maxWait, IF asked = None THEN Default ELSE asked)
  <1>1. asked \in Nat \cup {None} BY DEF IInv, Typed, State
  <1>2. wait \in 0..maxWait BY <1>1, Numbers DEF IInv, Least
  <1>3. /\ window' = wait /\ backoff' = wait
        /\ hold' = IF asked = None THEN hold ELSE Greatest(hold, wait)
    BY DEF Open
  <1>4. hold = 0 BY Numbers DEF Open, IInv, Typed, Held
  <1>5. hold' \in 0..maxWait /\ hold' <= wait BY <1>2, <1>3, <1>4, Numbers DEF IInv, Greatest
  <1>6. [worker[w] EXCEPT !.pc = "starting"] \in State BY DEF IInv, Typed, State, PC
  <1>7. worker' \in [Worker -> State]' BY <1>6, SetTyped DEF Open, IInv
  <1>8. UNCHANGED <<queued, config>> BY DEF Open
  <1> HIDE DEF wait, asked
  <1>9. wait \in 0..maxWait' /\ wait # None BY <1>2, <1>8, Numbers DEF config, IInv
  <1> QED BY <1>2, <1>3, <1>5, <1>7, <1>8, <1>9, Numbers DEF IInv, Typed, Held, config

LEMMA AnnouncedHolds == ASSUME IInv, NEW w \in Worker, Announced(w) PROVE IInv'
  <1>1. worker[w] \in State BY DEF IInv, Typed
  <1>2. NextTry(worker[w]) \in State BY <1>1, NextTryTyped DEF IInv
  <1>3. worker' \in [Worker -> State]' BY <1>2, NotifyTyped DEF Announced, IInv
  <1> QED BY <1>3, PauseStays DEF Announced, IInv, Typed

\* A longer window is no shorter than what is left of the old one, nor than what
\* the server asks for now, within the cap.
LEMMA EscalateHolds == ASSUME IInv, NEW w \in Worker, Escalate(w) PROVE IInv'
  <1> DEFINE asked == worker[w].asked
             wait  == NewWindow(asked)
  <1>1. asked \in Nat \cup {None} BY DEF IInv, Typed, State
  <1>2. window \in 0..maxWait /\ window <= backoff /\ hold <= window
    BY Numbers DEF Escalate, IInv, Typed, Held
  <1>3. Escalation \in Nat /\ backoff <= Escalation
    BY Numbers DEF Escalation, IInv, Typed
  <1>4. wait \in 0..maxWait /\ hold <= wait
    BY <1>1, <1>2, <1>3, Numbers DEF NewWindow, Least, IInv, Typed
  <1>5. asked # None => Least(maxWait, asked) \in 0..maxWait /\ Least(maxWait, asked) <= wait
    BY <1>1, <1>3, Numbers DEF NewWindow, Least, IInv, Typed
  <1>6. /\ window' = wait /\ backoff' = wait
        /\ hold' = IF asked = None THEN hold ELSE Greatest(hold, Least(maxWait, asked))
    BY DEF Escalate
  <1>7. worker[w] \in State BY DEF IInv, Typed
  <1>8. NextTry(worker[w]) \in State BY <1>7, NextTryTyped DEF IInv
  <1>9. worker' \in [Worker -> State]' BY <1>8, NotifyTyped DEF Escalate, IInv
  <1>10. UNCHANGED <<queued, config>> BY DEF Escalate
  <1> HIDE DEF wait, asked
  <1>11. hold' \in 0..maxWait /\ hold' <= wait
    BY <1>4, <1>5, <1>6, Numbers DEF IInv, Typed, Greatest
  <1>12. wait \in 0..maxWait' /\ wait # None BY <1>4, <1>10, Numbers DEF config, IInv
  <1> QED BY <1>6, <1>9, <1>10, <1>11, <1>12, Numbers DEF IInv, Typed, Held, config

LEMMA TakeHolds == ASSUME IInv, NEW w \in Worker, Take(w) PROVE IInv'
  <1>0. 1 \in 0..maxAttempts BY DEF IInv, Typed
  <1>1. [Idle EXCEPT !.pc = "check", !.tries = 1] \in State
    <2>1. Idle \in State BY DEF Idle, State, PC, IInv, Typed
    <2> QED BY <1>0, <2>1 DEF State, PC
  <1>2. worker' \in [Worker -> State]' BY <1>1, SetTyped DEF Take, IInv
  <1>3. queued' \in 0..Uploads BY DEF Take, IInv, Typed
  <1> QED BY <1>2, <1>3, PauseStays DEF Take

LEMMA PayHolds == ASSUME IInv, NEW w \in Worker, Pay(w) PROVE IInv'
  <1> DEFINE wave == IF rate = 0 THEN 0 ELSE Wave(worker[w].need)
             r == [worker[w] EXCEPT !.pc = "sending", !.level = worker[w].level - wave,
                      !.need = IF rate = 0 THEN 0 ELSE worker[w].need - wave]
  <1>1. worker[w] \in State BY DEF IInv, Typed
  <1>2. worker[w].need \in 0..Size /\ worker[w].level \in 0..Capacity BY <1>1 DEF State
  <1>3. wave \in Nat /\ wave <= worker[w].need /\ wave <= worker[w].level
    BY <1>2, Numbers DEF Pay, Covered, Wave, Least, IInv
  <1>4. worker[w].level - wave \in 0..Capacity BY <1>2, <1>3
  <1>5. (IF rate = 0 THEN 0 ELSE worker[w].need - wave) \in 0..Size BY <1>2, <1>3
  <1> HIDE DEF wave
  <1>6. r \in State BY <1>1, <1>4, <1>5 DEF State, PC
  <1>7. Set(w, r) BY DEF Pay, wave
  <1>8. worker' \in [Worker -> State]' BY <1>6, <1>7, SetTyped DEF Pay, IInv
  <1> QED BY <1>8, PauseStays DEF Pay, IInv, Typed

LEMMA Quotient == ASSUME NEW d \in Nat, NEW n \in Nat \ {0} PROVE (d + n - 1) \div n \in Nat
  OBVIOUS

LEMMA SleepHolds == ASSUME IInv, NEW w \in Worker, Sleep(w) PROVE IInv'
  <1> DEFINE d == Wave(worker[w].need) - worker[w].level
             t == (d + rate - 1) \div rate
  <1>1. worker[w] \in State BY DEF IInv, Typed
  <1>2. worker[w].need \in 0..Size /\ worker[w].level \in 0..Capacity BY <1>1 DEF State
  <1>3. rate \in Nat \ {0} /\ d \in Nat
    BY <1>2, Numbers DEF Sleep, Covered, Wave, Least, IInv
  <1> HIDE DEF d
  <1>4. t \in Nat BY <1>3, Quotient
  <1> HIDE DEF t
  <1>5. [worker[w] EXCEPT !.pc = "asleep", !.timer = t] \in State BY <1>1, <1>4 DEF State, PC
  <1>6. Set(w, [worker[w] EXCEPT !.pc = "asleep", !.timer = t]) BY DEF Sleep, d, t
  <1>7. worker' \in [Worker -> State]' BY <1>5, <1>6, SetTyped DEF Sleep, IInv
  <1> QED BY <1>7, PauseStays DEF Sleep, IInv, Typed

LEMMA SendHolds == ASSUME IInv, NEW w \in Worker, Send(w) PROVE IInv'
  <1> DEFINE left == worker[w].left - Least(block, worker[w].left)
             r == IF left = 0 THEN Idle
                  ELSE [worker[w] EXCEPT !.left = left, !.need = Least(block, left)]
  <1>1. worker[w] \in State BY DEF IInv, Typed
  <1>2. left \in 0..Size BY <1>1, Numbers DEF State, Least, IInv
  <1>3. Least(block, left) \in 0..Size BY <1>2, Numbers DEF Least, IInv
  <1> HIDE DEF left
  <1>4. r \in State
    <2>1. Idle \in State BY DEF State, PC, Idle, IInv, Typed
    <2>2. [worker[w] EXCEPT !.left = left, !.need = Least(block, left)] \in State
      BY <1>1, <1>2, <1>3 DEF State
    <2> QED BY <2>1, <2>2
  <1>5. Set(w, r) BY DEF Send, left
  <1>6. worker' \in [Worker -> State]' BY <1>4, <1>5, SetTyped DEF Send, IInv
  <1> QED BY <1>6, PauseStays DEF Send, IInv, Typed

LEMMA RefuseHolds == ASSUME IInv, NEW w \in Worker, Refuse(w) PROVE IInv'
  <1> PICK asked \in RetryAfter :
        Set(w, [worker[w] EXCEPT !.pc = "refused", !.asked = asked, !.left = 0, !.level = 0])
    BY DEF Refuse
  <1>0. worker[w] \in State /\ 0 \in 0..Size /\ 0 \in 0..Capacity BY DEF IInv, Typed
  <1>1. [worker[w] EXCEPT !.pc = "refused", !.asked = asked, !.left = 0, !.level = 0] \in State
    BY <1>0 DEF State, PC
  <1>2. worker' \in [Worker -> State]' BY <1>1, SetTyped DEF Refuse, IInv
  <1> QED BY <1>2, PauseStays DEF Refuse, IInv, Typed

LEMMA RaiseHolds == ASSUME IInv, NEW w \in Worker, Raise(w) PROVE IInv'
  <1>1. Idle \in State BY DEF Idle, State, PC, IInv, Typed
  <1>2. worker' \in [Worker -> State]' BY <1>1, SetTyped DEF Raise, IInv
  <1> QED BY <1>2, PauseStays DEF Raise, IInv, Typed

\* Window and hold run down together.
LEMMA TickHolds == ASSUME IInv, Tick PROVE IInv'
  <1>1. State' = State BY DEF Tick, config, State
  <1>2. ASSUME NEW w \in Worker PROVE worker'[w] \in State
    <2> DEFINE l == IF worker[w].pc \in {"sending", "asleep"}
                    THEN Least(Capacity, worker[w].level + rate) ELSE worker[w].level
               t == Down(worker[w].timer)
    <2>1. worker[w] \in State BY DEF IInv, Typed
    <2>2. l \in 0..Capacity BY <2>1, Numbers DEF State, Least, IInv
    <2>3. t \in Nat BY <2>1 DEF State, Down
    <2>4. worker'[w] = [worker[w] EXCEPT !.timer = t, !.level = l] BY DEF Tick
    <2> HIDE DEF l, t
    <2> QED BY <2>1, <2>2, <2>3, <2>4 DEF State
  <1>3. worker' \in [Worker -> State]' BY <1>1, <1>2 DEF Tick
  <1>4. CASE window = None
    <2>0. hold = 0 BY <1>4 DEF IInv, Held
    <2>1. hold' = 0 /\ window' = None
      <3>1. hold' = Down(hold) /\ window' = None BY <1>4 DEF Tick
      <3> QED BY <2>0, <3>1 DEF Down
    <2>2. maxWait' = maxWait BY DEF Tick, config
    <2>3. 0 \in 0..maxWait BY Numbers DEF IInv
    <2> QED BY <1>3, <2>1, <2>2, <2>3 DEF IInv, Typed, Held, Tick, config
  <1>5. CASE window # None
    <2>1. /\ window \in 0..maxWait /\ window' = Down(window) /\ hold' = Down(hold)
          /\ hold \in 0..maxWait /\ hold <= window /\ window <= backoff /\ backoff' = backoff
          /\ backoff \in 0..maxWait
      BY <1>5 DEF IInv, Typed, Held, Tick
    <2>2. /\ window' \in 0..maxWait /\ hold' \in 0..maxWait
          /\ hold' <= window' /\ window' <= backoff'
      BY <2>1, Numbers DEF Down, IInv
    <2> QED BY <1>3, <2>1, <2>2, Numbers DEF IInv, Typed, Held, Tick, config
  <1> QED BY <1>4, <1>5

LEMMA NextHolds == IInv /\ [Next]_vars => IInv'
  <1> SUFFICES ASSUME IInv, [Next]_vars PROVE IInv' OBVIOUS
  <1>1. CASE Tick BY <1>1, TickHolds
  <1>2. ASSUME NEW w \in Worker, Step(w) PROVE IInv'
    BY <1>2, TakeHolds, PassHolds, BlockHolds, ClearHolds, ClearedHolds, OpenHolds,
       AnnouncedHolds, EscalateHolds, PayHolds, SleepHolds, SendHolds, RefuseHolds, RaiseHolds
       DEF Step
  <1>3. CASE UNCHANGED vars BY <1>3 DEF vars, IInv, Typed, Held, State
  <1> QED BY <1>1, <1>2, <1>3 DEF Next

\* A window within the cap, a bucket within its capacity, attempts within the
\* budget (TypeOK of Throttling), for any threads, sizes, waits and rates.
THEOREM TypeCorrect == Spec => []TypeOK
  <1>1. IInv => TypeOK BY TypedIsTypeOK DEF IInv
  <1> QED BY InitHolds, NextHolds, <1>1, PTL DEF Spec

PauseStep ==
    \A w \in Worker :
        (~At(w, "sending") /\ ~At(w, "asleep") /\ At(w, "sending")')
            => hold = 0 \/ At(w, "clearing")

\* Only Pass and Cleared start an attempt, and Pass finds no window.
LEMMA StepHonours == IInv /\ [Next]_vars => PauseStep
  <1> SUFFICES ASSUME IInv, [Next]_vars, NEW v \in Worker,
                      ~At(v, "sending"), ~At(v, "asleep"), At(v, "sending")'
               PROVE  hold = 0 \/ At(v, "clearing")
    BY DEF PauseStep
  <1>0. \A w \in Worker : worker[w] \in State BY DEF IInv, Typed
  <1>1. CASE Tick
    <2>1. worker'[v].pc = worker[v].pc BY <1>0, <1>1 DEF Tick, State
    <2> QED BY <2>1 DEF At
  <1>2. ASSUME NEW w \in Worker, Step(w) PROVE hold = 0 \/ At(v, "clearing")
    <2>1. CASE Pass(w) BY <2>1 DEF Pass, IInv, Held
    <2>2. CASE Cleared(w)
      <3>1. v = w
        <4>1. v # w => worker'[v].pc = worker[v].pc
          BY <1>0, <2>2 DEF Cleared, NotifyAnd, State
        <4> QED BY <4>1 DEF At
      <3> QED BY <2>2, <3>1 DEF Cleared
    <2>3. CASE Announced(w) \/ Escalate(w)
      <3>1. NotifyAnd(w, NextTry(worker[w])) BY <2>3 DEF Announced, Escalate
      <3>2. v # w => worker'[v].pc = worker[v].pc BY <1>0, <3>1 DEF NotifyAnd, State
      <3>3. NextTry(worker[w]).pc # "sending" BY <1>0 DEF NextTry, Idle, State
      <3>4. v = w => worker'[v].pc # "sending" BY <3>1, <3>3 DEF NotifyAnd
      <3> QED BY <3>2, <3>4 DEF At
    <2>4. ASSUME NEW r, Set(w, r), r.pc # "sending" PROVE FALSE
      <3>1. v # w => worker'[v] = worker[v] BY <2>4 DEF Set, IInv, Typed
      <3>2. v = w => worker'[v] = r BY <2>4 DEF Set, IInv, Typed
      <3> QED BY <2>4, <3>1, <3>2 DEF At
    <2>5. CASE Take(w) \/ Block(w) \/ Clear(w) \/ Open(w) \/ Refuse(w) \/ Raise(w) \/ Sleep(w)
      <3>1. ASSUME NEW c \in {"blocked", "clearing", "starting"}, NEW t,
                   Set(w, [worker[w] EXCEPT !.pc = c, !.timer = t])
            PROVE  FALSE
        BY <1>0, <2>4, <3>1 DEF State
      <3>2. CASE Take(w) BY <2>4, <3>2 DEF Take, Idle
      <3>3. CASE Raise(w) BY <2>4, <3>3 DEF Raise, Idle
      <3>4. CASE Block(w) BY <3>1, <3>4 DEF Block
      <3>5. CASE Clear(w) BY <3>1, <3>5 DEF Clear
      <3>6. CASE Open(w) BY <1>0, <2>4, <3>6 DEF Open, State
      <3>7. CASE Refuse(w) BY <1>0, <2>4, <3>7 DEF Refuse, State
      <3>8. CASE Sleep(w) BY <1>0, <2>4, <3>8 DEF Sleep, State
      <3> QED BY <2>5, <3>2, <3>3, <3>4, <3>5, <3>6, <3>7, <3>8
    <2>6. CASE Pay(w) \/ Send(w)
      <3>1. v # w => worker'[v] = worker[v] BY <2>6 DEF Pay, Send, Set, IInv, Typed
      <3>2. At(w, "sending") \/ At(w, "asleep") BY <2>6 DEF Pay, Paying, Send, Paid, At
      <3> QED BY <3>1, <3>2 DEF At
    <2> QED BY <1>2, <2>1, <2>2, <2>3, <2>4, <2>5, <2>6 DEF Step
  <1>3. CASE UNCHANGED vars BY <1>3 DEF vars, At
  <1> QED BY <1>1, <1>2, <1>3 DEF Next

\* No worker starts an attempt while a server still asks to wait, save the one
\* that is printing the end of the last pause (PauseHonoured).
THEOREM PauseHonouredHolds == Spec => PauseHonoured
  <1>1. IInv /\ [Next]_vars => [PauseStep]_vars BY StepHonours
  <1> QED BY InitHolds, NextHolds, <1>1, PTL DEF Spec, PauseHonoured, PauseStep
=============================================================================
