---------------------------- MODULE SignerProofs ----------------------------
(***************************************************************************)
(* Proofs about FakeClock and CheckpointSigner, for any number of threads, *)
(* sleepers and signers, any HSM, retry policy and clock range.            *)
(***************************************************************************)
EXTENDS CheckpointSigner, TLAPS, FiniteSetTheorems, SequenceTheorems

\* What a thread that moves the clock, and a sleeper, may be doing.
ThreadState ==
  {Quiet} \cup [pc : {"swap", "notify"}, op : {"advance", "set"},
                n : 0..MaxNanos, current : 0..MaxNanos]
SleepState ==
  {Awake} \cup [pc : {"started", "never", "checking", "early", "waiting"},
                deadline : Nat, unseen : BOOLEAN]

ClockTypes ==
  /\ nanos \in 0..MaxNanos /\ applied \in 0..MaxNanos
  /\ thread \in [Threads -> ThreadState]
  /\ sleep \in [Sleepers -> SleepState]
  /\ ticks \in Seq(Nat) /\ next \in Nat /\ ticking \in BOOLEAN

\* The sleep of s is the one for the time d: it is over only when the clock
\* has reached d.
Due(s, d) == IF sleep[s] = Awake THEN d <= nanos ELSE sleep[s].deadline = d

\* The interval's next tick is the next multiple of its period.
ScheduleInv ==
  /\ next = (Len(ticks) + 1) * Period
  /\ Len(ticks) <= MaxTicks
  /\ ticking => Len(ticks) < MaxTicks /\ Due(Ticker, next)

ClockIndInv == ClockTypes /\ NoAdvanceLost /\ ScheduleInv /\ TicksOnSchedule

\* The record of a signer, whatever its request and its result.
SignerShape(r) ==
  r \in [pc : {r.pc}, handle : Nat, req : {r.req}, retries : 0..cast.max_retries,
         calls : Nat, failed : Nat, error : {r.error}, result : {r.result}]

NoResult == [type |-> "None"]

\* The HSM is called once more than it is retried, and the backoff before a
\* call counts with the retry and follows a failure that may go away.
CallsInv(r) ==
  /\ r.pc \in {"new", "generate", "insert", "ready", "lookup"}
       => r.calls = 0 /\ r.retries = 0 /\ r.result = NoResult
  /\ r.pc = "sign" => r.calls = r.retries + 1 /\ r.result = NoResult
  /\ r.pc = "backoff" =>
       r.calls = r.retries /\ r.retries >= 1 /\ r.result = NoResult /\ is_retryable(r.error)
  /\ r.calls <= cast.max_retries + 1
  /\ r.result.type = "HsmSigningFailed" =>
       /\ r.result.attempts = r.calls
       /\ is_retryable(r.result.source) => r.calls = cast.max_retries + 1

\* NotFound is answered only to a caller without a key.
ResultInv(r) ==
  r.result.type \in {"HsmSigningFailed", "NoPublicKey"} /\ r.result.source = NotFound
    => r.handle = NoKey

\* A handle is drawn once, and names a key from then on (MemoryHsm: from the
\* insertion on).
KeyInv ==
  /\ next_id \in Nat \ {0}
  /\ \A s \in Signers :
       /\ signer[s].pc \in {"new", "generate"} => signer[s].handle = NoKey
       /\ signer[s].pc = "insert" => cast.hsm = "memory"
       /\ cast.hsm # "other" /\ signer[s].handle # NoKey =>
            /\ signer[s].handle < next_id
            /\ signer[s].pc # "insert" => signer[s].handle \in keys
            /\ \A r \in Signers : r # s => signer[r].handle # signer[s].handle

\* Whoever is past its login finds the token logged in.
SessionInv ==
  /\ session \in [Signers -> {"none", "opened", "ready", "found"}]
  /\ loggedIn \in BOOLEAN
  /\ \A s \in Signers :
       /\ session[s] # "none" =>
            cast.hsm = "softhsm" /\ signer[s].pc \in {"generate", "lookup", "sign"}
       /\ session[s] = "found" => signer[s].pc = "sign"
       /\ session[s] \in {"ready", "found"} => loggedIn
  /\ loggedIn => \E s \in Signers : session[s] # "none"

\* A backoff is over only when its time has passed.
BackoffInv ==
  \A s \in Signers : signer[s].pc = "backoff" =>
    Due(s, signer[s].failed + backoff_for(signer[s].retries - 1))

SignersInv ==
  /\ cast \in Casts
  /\ signer = [s \in Signers |-> signer[s]]
  /\ \A s \in Signers :
       SignerShape(signer[s]) /\ CallsInv(signer[s]) /\ ResultInv(signer[s])

SignerIndInv ==
  /\ ClockIndInv /\ SignersInv /\ KeyInv /\ SessionInv /\ BackoffInv

-----------------------------------------------------------------------------
(* The clock.                                                              *)

\* The steps of the clock, its sleepers and the interval.
ClockStep ==
  \/ \E t \in Threads :
       \/ \E delta \in Deltas : Advance(t, delta)
       \/ \E to \in Times : Set(t, to)
       \/ Swap(t) \/ Reject(t) \/ Notify(t)
  \/ \E s \in Sleepers : Sleeping(s)
  \/ AwaitTick \/ Tick

\* Saturating arithmetic stays in the word, and keeps the order.
LEMMA SaturatingAdd ==
  ASSUME NEW a \in 0..MaxNanos, NEW b \in 0..MaxNanos, NEW n \in 0..MaxNanos, a <= b
  PROVE  /\ saturating_add(a, n) \in 0..MaxNanos /\ saturating_add(b, n) \in 0..MaxNanos
         /\ saturating_add(a, n) <= saturating_add(b, n)
         /\ b <= saturating_add(b, n)
BY ClockAssumption DEF saturating_add

\* A sleep that a step does not touch is not disturbed by a later time.
LEMMA DueStays ==
  ASSUME NEW s, NEW d \in Nat, nanos \in Nat, nanos' \in Nat, nanos <= nanos',
         sleep'[s] = sleep[s], Due(s, d)
  PROVE  Due(s, d)'
BY DEF Due

\* advance and set: the clock only moves forward, by what was asked.
LEMMA MoveClockInv ==
  ASSUME ClockIndInv, NEW t \in Threads,
         \/ \E delta \in Deltas : Advance(t, delta)
         \/ \E to \in Times : Set(t, to)
         \/ Swap(t) \/ Reject(t)
  PROVE  ClockTypes' /\ NoAdvanceLost' /\ nanos <= nanos' /\ UNCHANGED <<sleep, ticks, next, ticking>>
<1> USE ClockAssumption DEF ClockIndInv
<1>t. thread[t] \in ThreadState
  BY DEF ClockTypes
<1>1. ASSUME NEW op \in {"advance", "set"}, NEW n \in 0..MaxNanos, Load(t, op, n)
      PROVE  ClockTypes' /\ NoAdvanceLost' /\ nanos <= nanos' /\ UNCHANGED <<sleep, ticks, next, ticking>>
  <2>1. [pc |-> "swap", op |-> op, n |-> n, current |-> nanos] \in ThreadState
    BY DEF ClockTypes, ThreadState
  <2> QED BY <1>1, <2>1 DEF Load, ClockTypes, NoAdvanceLost
<1>2. \A n \in Nat : time_to_nanos(n) \in 0..MaxNanos
  BY DEF time_to_nanos
<1>3. ASSUME Reject(t)
      PROVE  ClockTypes' /\ NoAdvanceLost' /\ nanos <= nanos' /\ UNCHANGED <<sleep, ticks, next, ticking>>
  BY <1>3 DEF Reject, ClockTypes, NoAdvanceLost, ThreadState
<1>4. ASSUME Swap(t)
      PROVE  ClockTypes' /\ NoAdvanceLost' /\ nanos <= nanos' /\ UNCHANGED <<sleep, ticks, next, ticking>>
  <2>1. /\ thread[t].pc = "swap" /\ ~Backward(t)
        /\ UNCHANGED <<sleep, ticks, next, ticking>>
    BY <1>4 DEF Swap
  <2>2. thread[t] \in [pc : {"swap", "notify"}, op : {"advance", "set"},
                       n : 0..MaxNanos, current : 0..MaxNanos]
    BY <1>t, <2>1 DEF ThreadState, Quiet
  <2>3. CASE ~Exchanges(t)
    <3>1. thread' = [thread EXCEPT ![t].current = nanos] /\ nanos' = nanos /\ applied' = applied
      BY <1>4, <2>3 DEF Swap
    <3>2. [thread[t] EXCEPT !.current = nanos] \in ThreadState
      BY <2>2 DEF ThreadState, ClockTypes
    <3> QED BY <2>1, <3>1, <3>2 DEF ClockTypes, NoAdvanceLost
  <2>4. CASE Exchanges(t)
    <3>1. /\ nanos = thread[t].current /\ nanos' = Target(t)
          /\ applied' = IF thread[t].op = "advance" THEN saturating_add(applied, thread[t].n)
                        ELSE applied
          /\ thread' = [thread EXCEPT ![t].pc = "notify"]
      BY <1>4, <2>4 DEF Swap, Exchanges
    <3>2. [thread[t] EXCEPT !.pc = "notify"] \in ThreadState
      BY <2>2 DEF ThreadState
    <3>3. thread' \in [Threads -> ThreadState]
      BY <3>1, <3>2 DEF ClockTypes
    <3>4. thread[t].n \in 0..MaxNanos /\ nanos \in 0..MaxNanos /\ applied \in 0..MaxNanos
          /\ applied <= nanos
      BY <2>2 DEF ClockTypes, NoAdvanceLost
    <3>5. nanos' \in 0..MaxNanos /\ applied' \in 0..MaxNanos /\ applied' <= nanos' /\ nanos <= nanos'
      <4>1. CASE thread[t].op = "advance"
        BY <3>1, <3>4, <4>1, SaturatingAdd DEF Target
      <4>2. CASE thread[t].op # "advance"
        <5>1. thread[t].op = "set"
          BY <2>2, <4>2
        <5>2. nanos' = thread[t].n /\ applied' = applied /\ ~(thread[t].n < nanos)
          BY <2>1, <3>1, <4>2, <5>1 DEF Target, Backward
        <5> QED BY <3>4, <5>2
      <4> QED BY <4>1, <4>2
    <3> QED BY <2>1, <3>3, <3>5 DEF ClockTypes, NoAdvanceLost
  <2> QED BY <2>3, <2>4
<1> QED BY <1>1, <1>2, <1>3, <1>4 DEF Advance, Set

\* The sleepers: a check, a wait or a wake-up never ends a sleep early.
LEMMA SleepingInv ==
  ASSUME ClockIndInv, NEW s \in Sleepers, Sleeping(s)
  PROVE  /\ sleep' \in [Sleepers -> SleepState]
         /\ UNCHANGED <<nanos, thread, applied, ticks, next, ticking>>
         /\ \A r \in Sleepers : \A d \in Nat : Due(r, d) => Due(r, d)'
<1> USE DEF ClockIndInv
<1>t. sleep[s] \in SleepState /\ nanos \in Nat
  BY DEF ClockTypes
<1>0. UNCHANGED <<nanos, thread, applied, ticks, next, ticking>>
  BY DEF Sleeping, Subscribe, Check, Await, Changed
<1>1. sleep[s] \in [pc : {"started", "never", "checking", "early", "waiting"},
                    deadline : Nat, unseen : BOOLEAN]
  BY <1>t DEF Sleeping, Subscribe, Check, Await, Changed, SleepState, Awake
<1>2. sleep[s] # Awake
  BY <1>1 DEF Awake
<1>3. PICK v \in SleepState :
        /\ sleep' = [sleep EXCEPT ![s] = v]
        /\ \/ v = Awake /\ sleep[s].deadline <= nanos
           \/ v # Awake /\ v.deadline = sleep[s].deadline
  <2>1. CASE Subscribe(s) \/ Changed(s)
    <3>1. sleep' = [sleep EXCEPT ![s] = [sleep[s] EXCEPT !.pc = "checking", !.unseen = FALSE]]
      BY <2>1 DEF Subscribe, Changed, ClockTypes
    <3>2. /\ [sleep[s] EXCEPT !.pc = "checking", !.unseen = FALSE] \in
                [pc : {"started", "never", "checking", "early", "waiting"},
                 deadline : Nat, unseen : BOOLEAN]
          /\ [sleep[s] EXCEPT !.pc = "checking", !.unseen = FALSE].deadline = sleep[s].deadline
          /\ [sleep[s] EXCEPT !.pc = "checking", !.unseen = FALSE].pc = "checking"
      BY <1>1
    <3> QED BY <3>1, <3>2 DEF SleepState, Awake
  <2>2. CASE Await(s)
    <3>1. sleep' = [sleep EXCEPT ![s] = [sleep[s] EXCEPT !.pc = "waiting"]]
      BY <2>2 DEF Await, ClockTypes
    <3>2. /\ [sleep[s] EXCEPT !.pc = "waiting"] \in
                [pc : {"started", "never", "checking", "early", "waiting"},
                 deadline : Nat, unseen : BOOLEAN]
          /\ [sleep[s] EXCEPT !.pc = "waiting"].deadline = sleep[s].deadline
          /\ [sleep[s] EXCEPT !.pc = "waiting"].pc = "waiting"
      BY <1>1
    <3> QED BY <3>1, <3>2 DEF SleepState, Awake
  <2>3. CASE Check(s)
    <3>1. CASE nanos < sleep[s].deadline
      <4>1. sleep' = [sleep EXCEPT ![s] = [sleep[s] EXCEPT !.pc = "early"]]
        BY <2>3, <3>1 DEF Check, ClockTypes
      <4>2. /\ [sleep[s] EXCEPT !.pc = "early"] \in
                [pc : {"started", "never", "checking", "early", "waiting"},
                 deadline : Nat, unseen : BOOLEAN]
            /\ [sleep[s] EXCEPT !.pc = "early"].deadline = sleep[s].deadline
            /\ [sleep[s] EXCEPT !.pc = "early"].pc = "early"
        BY <1>1
      <4> QED BY <4>1, <4>2 DEF SleepState, Awake
    <3>2. CASE ~(nanos < sleep[s].deadline)
      <4>1. sleep' = [sleep EXCEPT ![s] = Awake]
        BY <2>3, <3>2 DEF Check, ClockTypes
      <4>2. sleep[s].deadline <= nanos
        BY <1>t, <1>1, <3>2
      <4> QED BY <4>1, <4>2 DEF SleepState
    <3> QED BY <3>1, <3>2
  <2> QED BY <2>1, <2>2, <2>3 DEF Sleeping
<1>4. sleep' \in [Sleepers -> SleepState]
  BY <1>3 DEF ClockTypes
<1>5. ASSUME NEW r \in Sleepers, NEW d \in Nat, Due(r, d)
      PROVE  Due(r, d)'
  <2>1. CASE r = s
    <3>1. sleep'[r] = v /\ sleep[s].deadline = d
      BY <1>2, <1>3, <1>5, <2>1 DEF Due, ClockTypes
    <3> QED BY <1>0, <1>3, <3>1 DEF Due
  <2>2. CASE r # s
    <3>1. sleep'[r] = sleep[r]
      BY <1>3, <2>2 DEF ClockTypes
    <3> QED BY <1>0, <1>5, <3>1 DEF Due
  <2> QED BY <2>1, <2>2
<1> QED BY <1>0, <1>4, <1>5

\* notify_waiters marks sleeps and ends none.
LEMMA NotifyInv ==
  ASSUME ClockIndInv, NEW t \in Threads, Notify(t)
  PROVE  /\ ClockTypes'
         /\ UNCHANGED <<nanos, applied, ticks, next, ticking>>
         /\ \A r \in Sleepers : \A d \in Nat : Due(r, d) => Due(r, d)'
<1> USE DEF ClockIndInv
<1>1. /\ thread' = [thread EXCEPT ![t] = Quiet]
      /\ sleep' = [s \in Sleepers |-> IF sleep[s].pc \in {"checking", "early", "waiting"}
                                      THEN [sleep[s] EXCEPT !.unseen = TRUE] ELSE sleep[s]]
      /\ UNCHANGED <<nanos, applied, ticks, next, ticking>>
  BY DEF Notify
<1>2. ASSUME NEW s \in Sleepers
      PROVE  /\ sleep'[s] \in SleepState
             /\ sleep'[s] = Awake <=> sleep[s] = Awake
             /\ sleep[s] # Awake => sleep'[s].deadline = sleep[s].deadline
  <2>1. sleep[s] \in SleepState
    BY DEF ClockTypes
  <2>2. CASE sleep[s].pc \in {"checking", "early", "waiting"}
    <3>1. sleep'[s] = [sleep[s] EXCEPT !.unseen = TRUE]
      BY <1>1, <2>2
    <3>2. sleep[s] # Awake
      BY <2>2 DEF Awake
    <3>3. sleep[s] \in [pc : {"started", "never", "checking", "early", "waiting"},
                        deadline : Nat, unseen : BOOLEAN]
      BY <2>1, <3>2 DEF SleepState
    <3>4. /\ sleep'[s] \in [pc : {"started", "never", "checking", "early", "waiting"},
                            deadline : Nat, unseen : BOOLEAN]
          /\ sleep'[s].deadline = sleep[s].deadline
      BY <3>1, <3>3
    <3> QED BY <3>2, <3>4 DEF SleepState, Awake
  <2>3. CASE sleep[s].pc \notin {"checking", "early", "waiting"}
    BY <1>1, <2>1, <2>3
  <2> QED BY <2>2, <2>3
<1>3. sleep' \in [Sleepers -> SleepState]
  BY <1>1, <1>2
<1>4. ClockTypes'
  BY <1>1, <1>3 DEF ClockTypes, ThreadState
<1>5. ASSUME NEW r \in Sleepers, NEW d \in Nat, Due(r, d)
      PROVE  Due(r, d)'
  BY <1>1, <1>2, <1>5 DEF Due
<1> QED BY <1>1, <1>4, <1>5

\* The schedule does not notice a step that moves the clock forward.
LEMMA ScheduleKept ==
  ASSUME ClockIndInv, nanos' \in Nat, nanos <= nanos',
         UNCHANGED <<ticks, next, ticking>>,
         \A d \in Nat : Due(Ticker, d) => Due(Ticker, d)'
  PROVE  ScheduleInv' /\ TicksOnSchedule'
<1> USE ClockAssumption DEF ClockIndInv
<1>1. ScheduleInv'
  <2>1. Due(Ticker, next)' <=> (IF sleep'[Ticker] = Awake THEN next <= nanos' ELSE sleep'[Ticker].deadline = next)
    BY DEF Due
  <2>2. next \in Nat
    BY DEF ClockTypes
  <2>3. ticking => Due(Ticker, next)'
    BY <2>1, <2>2 DEF ScheduleInv, Due
  <2> QED BY <2>3 DEF ScheduleInv
<1>2. TicksOnSchedule'
  <2> SUFFICES ASSUME NEW i \in DOMAIN ticks
               PROVE  ticks[i] = i * Period /\ ticks[i] <= nanos'
    BY DEF TicksOnSchedule
  <2>1. ticks[i] \in Nat /\ nanos \in Nat
    BY DEF ClockTypes
  <2> QED BY <2>1 DEF TicksOnSchedule
<1> QED BY <1>1, <1>2

\* tick() goes to sleep until the next scheduled time.
LEMMA AwaitTickInv ==
  ASSUME ClockIndInv, AwaitTick
  PROVE  /\ ClockIndInv' /\ nanos' = nanos
         /\ \A s \in Sleepers : s # Ticker => sleep'[s] = sleep[s]
<1> USE ClockAssumption DEF ClockIndInv
<1>1. /\ ~ticking /\ Len(ticks) < MaxTicks /\ ticking' = TRUE
      /\ sleep' = [sleep EXCEPT ![Ticker] = FallAsleep(next)]
      /\ UNCHANGED <<nanos, thread, applied, ticks, next>>
  BY DEF AwaitTick
<1>2. /\ FallAsleep(next) \in [pc : {"started", "never", "checking", "early", "waiting"},
                               deadline : Nat, unseen : BOOLEAN]
      /\ FallAsleep(next).deadline = next /\ FallAsleep(next).pc \in {"never", "started"}
  BY DEF FallAsleep, ClockTypes
<1>3. /\ sleep'[Ticker] = FallAsleep(next)
      /\ \A s \in Sleepers : s # Ticker => sleep'[s] = sleep[s]
      /\ sleep' \in [Sleepers -> SleepState]
  BY <1>1, <1>2 DEF ClockTypes, SleepState
<1>4. ClockTypes' /\ NoAdvanceLost' /\ TicksOnSchedule'
  BY <1>1, <1>3 DEF ClockTypes, NoAdvanceLost, TicksOnSchedule
<1>5. FallAsleep(next) # Awake
  BY <1>2 DEF Awake
<1>6. ScheduleInv'
  BY <1>1, <1>2, <1>3, <1>5 DEF ScheduleInv, Due
<1> QED BY <1>1, <1>3, <1>4, <1>6

\* tick() returns the scheduled time and schedules the next one from it.
LEMMA TickInv ==
  ASSUME ClockIndInv, Tick
  PROVE  ClockIndInv' /\ UNCHANGED <<nanos, sleep>>
<1> USE ClockAssumption DEF ClockIndInv
<1>1. /\ ticking /\ sleep[Ticker].pc = "awake" /\ ticking' = FALSE
      /\ ticks' = Append(ticks, next) /\ next' = next + Period
      /\ UNCHANGED <<nanos, thread, sleep, applied>>
  BY DEF Tick, Following
<1>2. ticks \in Seq(Nat) /\ next \in Nat /\ Len(ticks) \in Nat /\ sleep[Ticker] \in SleepState
  BY DEF ClockTypes
<1>3. sleep[Ticker] = Awake
  BY <1>1, <1>2 DEF SleepState, Awake
<1>4. next <= nanos /\ Len(ticks) < MaxTicks /\ next = (Len(ticks) + 1) * Period
  BY <1>1, <1>3 DEF ScheduleInv, Due
<1>5. /\ ticks' \in Seq(Nat) /\ Len(ticks') = Len(ticks) + 1
      /\ \A i \in 1..Len(ticks) : ticks'[i] = ticks[i]
      /\ ticks'[Len(ticks) + 1] = next
  BY <1>1, <1>2
<1>6. ClockTypes' /\ NoAdvanceLost'
  <2>0. ticking' \in BOOLEAN
    BY <1>1
  <2>1. next' \in Nat
    <3>1. next' = next + Period
      BY <1>1
    <3> QED BY <1>2, <3>1
  <2>2. UNCHANGED <<nanos, thread, sleep, applied>>
    BY <1>1
  <2>3. ticks' \in Seq(Nat)
    BY <1>5
  <2> QED BY <2>0, <2>1, <2>2, <2>3 DEF ClockTypes, NoAdvanceLost
<1>7. ScheduleInv'
  <2>1. \A a, p \in Nat : (a + 1) * p + p = ((a + 1) + 1) * p
    OBVIOUS
  <2>2. next' = (Len(ticks') + 1) * Period
    BY <1>1, <1>2, <1>4, <1>5, <2>1
  <2> QED BY <1>1, <1>2, <1>4, <1>5, <2>2 DEF ScheduleInv
<1>8. TicksOnSchedule'
  <2> SUFFICES ASSUME NEW i \in 1..Len(ticks')
               PROVE  ticks'[i] = i * Period /\ ticks'[i] <= nanos'
    BY <1>5 DEF TicksOnSchedule
  <2>1. CASE i = Len(ticks) + 1
    BY <1>1, <1>4, <1>5, <2>1
  <2>2. CASE i # Len(ticks) + 1
    <3>1. i \in 1..Len(ticks) /\ i \in DOMAIN ticks
      BY <1>2, <1>5, <2>2
    <3> QED BY <1>1, <1>5, <3>1 DEF TicksOnSchedule
  <2> QED BY <2>1, <2>2
<1> QED BY <1>1, <1>6, <1>7, <1>8

\* Every step of the clock keeps it on schedule, and ends no sleep early.
LEMMA ClockStepInv ==
  ASSUME ClockIndInv, ClockStep
  PROVE  /\ ClockIndInv'
         /\ \A s \in Sleepers : s # Ticker => \A d \in Nat : Due(s, d) => Due(s, d)'
<1> USE ClockAssumption DEF ClockIndInv
<1>0. nanos \in Nat
  BY DEF ClockTypes
<1>1. CASE \E t \in Threads : \/ \E delta \in Deltas : Advance(t, delta)
                              \/ \E to \in Times : Set(t, to)
                              \/ Swap(t) \/ Reject(t)
  <2>1. ClockTypes' /\ NoAdvanceLost' /\ nanos <= nanos' /\ UNCHANGED <<sleep, ticks, next, ticking>>
    BY <1>1, MoveClockInv
  <2>2. nanos' \in Nat
    BY <2>1 DEF ClockTypes
  <2>3. \A s \in Sleepers : \A d \in Nat : Due(s, d) => Due(s, d)'
    BY <1>0, <2>1, <2>2, DueStays
  <2> QED BY <2>1, <2>2, <2>3, ScheduleKept
<1>2. CASE \E t \in Threads : Notify(t)
  <2>1. /\ ClockTypes'
        /\ UNCHANGED <<nanos, applied, ticks, next, ticking>>
        /\ \A r \in Sleepers : \A d \in Nat : Due(r, d) => Due(r, d)'
    BY <1>2, NotifyInv
  <2>2. NoAdvanceLost'
    BY <2>1 DEF NoAdvanceLost
  <2> QED BY <1>0, <2>1, <2>2, ScheduleKept
<1>3. CASE \E s \in Sleepers : Sleeping(s)
  <2>1. /\ sleep' \in [Sleepers -> SleepState]
        /\ UNCHANGED <<nanos, thread, applied, ticks, next, ticking>>
        /\ \A r \in Sleepers : \A d \in Nat : Due(r, d) => Due(r, d)'
    BY <1>3, SleepingInv
  <2>2. ClockTypes' /\ NoAdvanceLost'
    BY <2>1 DEF ClockTypes, NoAdvanceLost
  <2> QED BY <1>0, <2>1, <2>2, ScheduleKept
<1>4. CASE AwaitTick
  <2>1. ClockIndInv' /\ nanos' = nanos /\ \A s \in Sleepers : s # Ticker => sleep'[s] = sleep[s]
    BY <1>4, AwaitTickInv
  <2> QED BY <1>0, <2>1, DueStays
<1>5. CASE Tick
  <2>1. ClockIndInv' /\ UNCHANGED <<nanos, sleep>>
    BY <1>5, TickInv
  <2> QED BY <1>0, <2>1, DueStays
<1> QED BY <1>1, <1>2, <1>3, <1>4, <1>5 DEF ClockStep

-----------------------------------------------------------------------------
(* The retry schedule.                                                     *)

\* backoff_for is a duration: the doubling is a number for every index.
LEMMA BackoffType ==
  ASSUME NEW i \in Nat
  PROVE  backoff_for(i) \in Nat
<1>1. PICK k \in Nat : k = IF i < 63 THEN i ELSE 63
  OBVIOUS
<1>2. IsFiniteSet(1..k) /\ Cardinality(1..k) = k
  BY FS_Interval
<1>3. IsFiniteSet(SUBSET (1..k)) /\ Cardinality(SUBSET (1..k)) = 2^k
  BY <1>2, FS_SUBSET
<1>4. 2^k \in Nat
  BY <1>3, FS_CardinalityType
<1>5. base_backoff * 2^k \in Nat
  BY <1>4, SignerAssumption
<1> QED BY <1>1, <1>5, SignerAssumption DEF backoff_for
-----------------------------------------------------------------------------
(* What an answer does to the caller.                                      *)

Good(r) == SignerShape(r) /\ CallsInv(r) /\ ResultInv(r)

\* A step of s leaves the other callers alone.
LEMMA OneSigner ==
  ASSUME SignersInv, NEW s \in Signers, NEW v, Good(v),
         signer' = [signer EXCEPT ![s] = v], cast' = cast
  PROVE  /\ SignersInv' /\ signer'[s] = v
         /\ \A r \in Signers : r # s => signer'[r] = signer[r]
<1>1. signer'[s] = v /\ \A r \in Signers : r # s => signer'[r] = signer[r]
  BY DEF SignersInv
<1>2. signer' = [r \in Signers |-> signer'[r]]
  BY DEF SignersInv
<1>3. ASSUME NEW r \in Signers
      PROVE  (SignerShape(signer[r]) /\ CallsInv(signer[r]) /\ ResultInv(signer[r]))'
  <2>1. Good(signer'[r])
    BY <1>1 DEF SignersInv, Good
  <2> QED BY <2>1 DEF Good, SignerShape, CallsInv, ResultInv
<1> QED BY <1>1, <1>2, <1>3 DEF SignersInv

\* A caller that falls asleep is not the ticker: the clock is not concerned.
LEMMA BackoffSleep ==
  ASSUME ClockIndInv, NEW s \in Signers, NEW d \in Nat,
         sleep' = [sleep EXCEPT ![s] = FallAsleep(d)],
         UNCHANGED <<nanos, thread, applied, ticks, next, ticking>>
  PROVE  /\ ClockIndInv' /\ Due(s, d)'
         /\ \A r \in Sleepers : r # s => sleep'[r] = sleep[r]
<1> USE ClockAssumption, SignerAssumption DEF ClockIndInv
<1>1. /\ FallAsleep(d) \in [pc : {"started", "never", "checking", "early", "waiting"},
                            deadline : Nat, unseen : BOOLEAN]
      /\ FallAsleep(d).deadline = d /\ FallAsleep(d).pc \in {"never", "started"}
  BY DEF FallAsleep
<1>2. /\ sleep'[s] = FallAsleep(d)
      /\ \A r \in Sleepers : r # s => sleep'[r] = sleep[r]
      /\ sleep' \in [Sleepers -> SleepState]
  BY <1>1 DEF ClockTypes, SleepState
<1>3. FallAsleep(d) # Awake
  BY <1>1 DEF Awake
<1>4. ClockTypes' /\ NoAdvanceLost'
  BY <1>2 DEF ClockTypes, NoAdvanceLost
<1>5. nanos \in Nat /\ nanos' \in Nat /\ nanos <= nanos' /\ sleep'[Ticker] = sleep[Ticker]
  BY <1>2 DEF ClockTypes
<1>6. \A e \in Nat : Due(Ticker, e) => Due(Ticker, e)'
  BY <1>5, DueStays
<1>7. ScheduleInv' /\ TicksOnSchedule'
  BY <1>5, <1>6, ScheduleKept
<1> QED BY <1>1, <1>2, <1>3, <1>4, <1>7 DEF Due

\* The backoffs under way are kept when no sleep changes, and none begins.
LEMMA BackoffKept ==
  ASSUME BackoffInv, SignersInv, NEW s \in Signers, UNCHANGED <<sleep, nanos>>,
         signer'[s].pc # "backoff",
         \A r \in Signers : r # s => signer'[r] = signer[r]
  PROVE  BackoffInv'
<1> SUFFICES ASSUME NEW r \in Signers, signer'[r].pc = "backoff"
             PROVE  Due(r, signer[r].failed + backoff_for(signer[r].retries - 1))' /\ signer'[r] = signer[r]
  BY DEF BackoffInv, Due, backoff_for
<1>1. r # s /\ signer'[r] = signer[r]
  OBVIOUS
<1>2. Due(r, signer[r].failed + backoff_for(signer[r].retries - 1))
  BY <1>1 DEF BackoffInv
<1> QED BY <1>1, <1>2 DEF Due, backoff_for

\* sign_with_retry and sign_checkpoint: the object, an error, or a backoff.
LEMMA ReturnedInv ==
  ASSUME SignerIndInv, NEW s \in Signers, NEW result, Returned(s, result), cast' = cast,
         signer[s].pc = "sign",
         result = NotFound => signer[s].handle = NoKey
  PROVE  /\ ClockIndInv' /\ SignersInv' /\ BackoffInv'
         /\ signer'[s].pc \in {"done", "backoff"} /\ signer'[s].handle = signer[s].handle
         /\ \A r \in Signers : r # s => signer'[r] = signer[r]
<1> DEFINE me == signer[s]
<1>1. /\ SignerShape(me) /\ CallsInv(me) /\ ResultInv(me) /\ SignersInv /\ BackoffInv
      /\ ClockIndInv /\ cast.max_retries \in Nat
  BY SignerAssumption DEF SignerIndInv, SignersInv
<1>2. me.calls = me.retries + 1 /\ me.result = NoResult
  BY <1>1 DEF CallsInv
<1>3. ASSUME NEW r, signer' = [signer EXCEPT ![s] = Finish(s, r)], UNCHANGED clockVars,
             r.type = "HsmSigningFailed" =>
               /\ r.attempts = me.calls
               /\ is_retryable(r.source) => me.calls = cast.max_retries + 1,
             r.type # "NoPublicKey",
             r.type = "HsmSigningFailed" /\ r.source = NotFound => me.handle = NoKey
      PROVE  /\ ClockIndInv' /\ SignersInv' /\ BackoffInv'
             /\ signer'[s].pc \in {"done", "backoff"} /\ signer'[s].handle = signer[s].handle
             /\ \A q \in Signers : q # s => signer'[q] = signer[q]
  <2>1. /\ Finish(s, r).pc = "done" /\ Finish(s, r).handle = me.handle
        /\ Finish(s, r).calls = me.calls /\ Finish(s, r).retries = me.retries
        /\ Finish(s, r).result = r /\ SignerShape(Finish(s, r))
    BY <1>1 DEF Finish, SignerShape
  <2>2. Good(Finish(s, r))
    BY <1>1, <1>3, <2>1 DEF Good, CallsInv, ResultInv
  <2>3. /\ SignersInv' /\ signer'[s] = Finish(s, r)
        /\ \A q \in Signers : q # s => signer'[q] = signer[q]
    BY <1>1, <1>3, <2>2, OneSigner
  <2>4. BackoffInv'
    BY <1>1, <1>3, <2>1, <2>3, BackoffKept DEF clockVars
  <2>5. ClockIndInv'
    BY <1>1, <1>3 DEF clockVars, ClockIndInv, ClockTypes, NoAdvanceLost, ScheduleInv, TicksOnSchedule, Due
  <2> QED BY <2>1, <2>3, <2>4, <2>5
<1>4. CASE result.type = "Ok"
  <2> DEFINE r == IF result.len = P1363_SIGNATURE_LEN THEN Framed(signer[s].req, result.len)
                  ELSE [type |-> "MalformedSignature", actual |-> result.len]
  <2>1. signer' = [signer EXCEPT ![s] = Finish(s, r)] /\ UNCHANGED clockVars
    BY <1>4 DEF Returned
  <2>2. r.type \in {"Ok", "MalformedSignature"}
    BY DEF Framed
  <2> HIDE DEF r
  <2> QED BY <1>3, <2>1, <2>2
<1>5. CASE result.type # "Ok" /\ ~Retries(s, result)
  <2> DEFINE r == [type |-> "HsmSigningFailed", attempts |-> Attempts(s), source |-> result]
  <2>1. signer' = [signer EXCEPT ![s] = Finish(s, r)] /\ UNCHANGED clockVars
    BY <1>5 DEF Returned
  <2>2. /\ r.type = "HsmSigningFailed" /\ r.attempts = me.calls /\ r.source = result
    BY <1>2 DEF Attempts
  <2>3. is_retryable(result) => me.calls = cast.max_retries + 1
    <3>1. is_retryable(result) => ~(me.retries < cast.max_retries)
      BY <1>5 DEF Retries
    <3> QED BY <1>1, <1>2, <3>1 DEF SignerShape
  <2> HIDE DEF r
  <2> QED BY <1>3, <2>1, <2>2, <2>3
<1>6. CASE result.type # "Ok" /\ Retries(s, result)
  <2> DEFINE v == [me EXCEPT !.pc = "backoff", !.retries = me.retries + 1, !.failed = nanos,
                       !.error = result]
  <2>1. /\ sleep' = [sleep EXCEPT ![s] = FallAsleep(nanos + backoff_for(me.retries))]
        /\ UNCHANGED <<nanos, thread, applied, ticks, next, ticking>>
    BY <1>6 DEF Returned
  <2>2. signer' = [signer EXCEPT ![s] = v]
    BY <1>1, <1>6 DEF Returned, SignersInv
  <2>3. me.retries < cast.max_retries /\ me.retries \in Nat /\ nanos \in Nat
    BY <1>1, <1>6 DEF Retries, SignerShape, ClockIndInv, ClockTypes
  <2>4. PICK d \in Nat : d = nanos + backoff_for(me.retries)
    BY <2>3, BackoffType
  <2>5. /\ v.pc = "backoff" /\ v.handle = me.handle /\ v.retries = me.retries + 1
        /\ v.calls = me.calls /\ v.result = me.result /\ v.failed = nanos /\ v.error = result
    BY <1>1 DEF SignerShape
  <2>6. SignerShape(v)
    <3>1. me.retries + 1 \in 0..cast.max_retries
      BY <1>1, <2>3
    <3> QED BY <1>1, <2>3, <3>1 DEF SignerShape
  <2> HIDE DEF v
  <2>7. Good(v)
    <3>1. NoResult.type = "None"
      BY DEF NoResult
    <3>2. is_retryable(v.error)
      BY <1>6, <2>5 DEF Retries
    <3> QED BY <1>1, <1>2, <2>3, <2>5, <2>6, <3>1, <3>2 DEF Good, CallsInv, ResultInv
  <2>8. /\ SignersInv' /\ signer'[s] = v
        /\ \A r \in Signers : r # s => signer'[r] = signer[r]
    BY <1>1, <2>2, <2>7, OneSigner
  <2>9. /\ ClockIndInv' /\ Due(s, d)'
        /\ \A r \in Sleepers : r # s => sleep'[r] = sleep[r]
    BY <1>1, <2>1, <2>4, BackoffSleep
  <2>10. BackoffInv'
    <3> SUFFICES ASSUME NEW r \in Signers, signer'[r].pc = "backoff"
                 PROVE  Due(r, signer[r].failed + backoff_for(signer[r].retries - 1))'
      BY DEF BackoffInv
    <3>1. CASE r = s
      <4>1. d = signer'[s].failed + backoff_for(signer'[s].retries - 1)
        BY <2>3, <2>4, <2>5, <2>8
      <4> QED BY <2>9, <3>1, <4>1 DEF Due, backoff_for
    <3>2. CASE r # s
      <4>1. signer'[r] = signer[r] /\ sleep'[r] = sleep[r] /\ nanos' = nanos
        BY <2>1, <2>8, <2>9, <3>2, SignerAssumption
      <4>2. Due(r, signer[r].failed + backoff_for(signer[r].retries - 1))
        BY <1>1, <4>1 DEF BackoffInv
      <4> QED BY <4>1, <4>2 DEF Due, backoff_for
    <3> QED BY <3>1, <3>2
  <2> QED BY <2>5, <2>8, <2>9, <2>10
<1> QED BY <1>4, <1>5, <1>6

\* The facts about one caller that the steps below start from.
LEMMA OneSignerFacts ==
  ASSUME SignerIndInv, NEW s \in Signers
  PROVE  /\ SignerShape(signer[s]) /\ CallsInv(signer[s]) /\ ResultInv(signer[s])
         /\ cast.max_retries \in Nat
         /\ signer[s].pc \notin {"generate", "lookup", "sign"} \/ cast.hsm # "softhsm"
              => session[s] = "none"
BY SignerAssumption DEF SignerIndInv, SignersInv, SessionInv

\* No key changes hands when nobody draws a handle or inserts a key.
LEMMA HandlesKept ==
  ASSUME KeyInv, NEW s \in Signers, UNCHANGED <<cast, keys, next_id>>,
         \A r \in Signers : r # s => signer'[r] = signer[r],
         signer'[s].handle = signer[s].handle,
         signer[s].pc # "insert", signer'[s].pc # "insert",
         signer'[s].pc \in {"new", "generate"} => signer[s].pc \in {"new", "generate"}
  PROVE  KeyInv'
<1>1. \A r \in Signers : signer'[r].handle = signer[r].handle
  OBVIOUS
<1>2. ASSUME NEW r \in Signers
      PROVE  /\ signer'[r].pc \in {"new", "generate"} => signer'[r].handle = NoKey
             /\ signer'[r].pc = "insert" => cast.hsm = "memory"
             /\ cast.hsm # "other" /\ signer'[r].handle # NoKey =>
                  /\ signer'[r].handle < next_id
                  /\ signer'[r].pc # "insert" => signer'[r].handle \in keys
                  /\ \A q \in Signers : q # r => signer'[q].handle # signer'[r].handle
  <2>1. CASE r = s
    BY <1>1, <2>1 DEF KeyInv
  <2>2. CASE r # s
    BY <1>1, <2>2 DEF KeyInv
  <2> QED BY <2>1, <2>2
<1> QED BY <1>2 DEF KeyInv, NoKey

\* A session that is dropped ends the login only if it is the last one.
LEMMA SessionClosed ==
  ASSUME SessionInv, NEW s \in Signers, CloseSession(s), cast' = cast,
         \A r \in Signers : r # s => signer'[r] = signer[r]
  PROVE  SessionInv'
<1>1. /\ session' = [session EXCEPT ![s] = "none"]
      /\ loggedIn' = (loggedIn /\ \E r \in Signers : r # s /\ session[r] # "none")
  BY DEF CloseSession
<1>2. /\ session' \in [Signers -> {"none", "opened", "ready", "found"}] /\ session'[s] = "none"
      /\ \A r \in Signers : r # s => session'[r] = session[r]
  BY <1>1 DEF SessionInv
<1>3. ASSUME NEW r \in Signers
      PROVE  /\ session'[r] # "none" =>
                  cast.hsm = "softhsm" /\ signer'[r].pc \in {"generate", "lookup", "sign"}
             /\ session'[r] = "found" => signer'[r].pc = "sign"
             /\ session'[r] \in {"ready", "found"} => loggedIn'
  <2>1. CASE r = s
    BY <1>2, <2>1
  <2>2. CASE r # s
    <3>1. session'[r] = session[r] /\ signer'[r] = signer[r]
      BY <1>2, <2>2
    <3>2. session[r] \in {"ready", "found"} => loggedIn
      BY DEF SessionInv
    <3>3. session[r] \in {"ready", "found"} => loggedIn'
      BY <1>1, <2>2, <3>2
    <3> QED BY <3>1, <3>3 DEF SessionInv
  <2> QED BY <2>1, <2>2
<1>4. loggedIn' => \E r \in Signers : session'[r] # "none"
  BY <1>1, <1>2
<1>5. loggedIn' \in BOOLEAN
  BY <1>1
<1> QED BY <1>2, <1>3, <1>4, <1>5 DEF SessionInv

\* A caller that has no session does not disturb those of others.
LEMMA SessionsKept ==
  ASSUME SessionInv, NEW s \in Signers, UNCHANGED <<session, loggedIn, cast>>,
         session[s] = "none",
         \A r \in Signers : r # s => signer'[r] = signer[r]
  PROVE  SessionInv'
<1>1. ASSUME NEW r \in Signers
      PROVE  /\ session[r] # "none" =>
                  cast.hsm = "softhsm" /\ signer'[r].pc \in {"generate", "lookup", "sign"}
             /\ session[r] = "found" => signer'[r].pc = "sign"
  <2>1. CASE r = s
    BY <2>1
  <2>2. CASE r # s
    BY <2>2 DEF SessionInv
  <2> QED BY <2>1, <2>2
<1> QED BY <1>1 DEF SessionInv

\* A step that leaves the clock alone keeps what holds of it.
LEMMA ClockKept ==
  ASSUME ClockIndInv, UNCHANGED clockVars
  PROVE  ClockIndInv'
BY DEF clockVars, ClockIndInv, ClockTypes, NoAdvanceLost, ScheduleInv, TicksOnSchedule, Due

\* A caller goes on by itself: nobody else notices.
LEMMA CallerMoves ==
  ASSUME SignerIndInv, NEW s \in Signers, NEW v, Good(v),
         signer' = [signer EXCEPT ![s] = v], UNCHANGED <<clockVars, hsmVars>>,
         v.handle = signer[s].handle, v.pc \notin {"backoff", "insert"},
         signer[s].pc # "insert", session[s] = "none",
         v.pc \in {"new", "generate"} => signer[s].pc \in {"new", "generate"}
  PROVE  SignerIndInv'
<1>1. UNCHANGED <<cast, keys, next_id, session, loggedIn, sleep, nanos>>
  BY DEF clockVars, hsmVars
<1>2. ClockIndInv /\ SignersInv /\ KeyInv /\ SessionInv /\ BackoffInv
  BY DEF SignerIndInv
<1>3. /\ SignersInv' /\ signer'[s] = v
      /\ \A r \in Signers : r # s => signer'[r] = signer[r]
  BY <1>1, <1>2, OneSigner
<1>4. KeyInv'
  BY <1>1, <1>2, <1>3, HandlesKept
<1>5. SessionInv'
  BY <1>1, <1>2, <1>3, SessionsKept
<1>6. BackoffInv'
  BY <1>1, <1>2, <1>3, BackoffKept
<1>7. ClockIndInv'
  BY <1>2, ClockKept
<1> QED BY <1>3, <1>4, <1>5, <1>6, <1>7 DEF SignerIndInv

-----------------------------------------------------------------------------
(* The caller's steps.                                                     *)

\* generate_key is called, or the handle is one of the configuration.
LEMMA CallerBegins ==
  ASSUME SignerIndInv, NEW s \in Signers, GenerateKey(s) \/ UseUnknownKey(s) \/ GetPublicKey(s)
  PROVE  SignerIndInv'
<1>1. PICK p \in {"generate", "ready", "lookup"} :
        /\ signer' = [signer EXCEPT ![s].pc = p]
        /\ p = "generate" => signer[s].pc = "new"
  BY DEF GenerateKey, UseUnknownKey, GetPublicKey
<1>2. signer[s].pc \in {"new", "ready"} /\ UNCHANGED <<clockVars, hsmVars>>
  BY DEF GenerateKey, UseUnknownKey, GetPublicKey
<1> DEFINE v == [signer[s] EXCEPT !.pc = p]
<1>3. signer' = [signer EXCEPT ![s] = v]
  BY <1>1 DEF SignerIndInv, SignersInv
<1>4. /\ SignerShape(signer[s]) /\ CallsInv(signer[s]) /\ ResultInv(signer[s])
      /\ session[s] = "none"
  BY <1>2, OneSignerFacts
<1>5. /\ SignerShape(v) /\ v.pc = p /\ v.handle = signer[s].handle /\ v.calls = signer[s].calls
      /\ v.retries = signer[s].retries /\ v.result = signer[s].result
  BY <1>4 DEF SignerShape
<1> HIDE DEF v
<1>6. Good(v)
  BY <1>1, <1>2, <1>4, <1>5 DEF Good, CallsInv, ResultInv
<1> QED BY <1>1, <1>2, <1>3, <1>4, <1>5, <1>6, CallerMoves

\* sign_checkpoint calls the HSM, or fails before it does.
LEMMA SignCheckpointInv ==
  ASSUME SignerIndInv, NEW s \in Signers, NEW req, sign_checkpoint(s, req)
  PROVE  SignerIndInv'
<1> DEFINE me == signer[s]
           v == IF InputAssembles(req) THEN [me EXCEPT !.pc = "sign", !.req = req, !.calls = 1]
                ELSE Finish(s, [type |-> "Input"])
<1>1. me.pc = "ready" /\ UNCHANGED <<clockVars, hsmVars>>
  BY DEF sign_checkpoint
<1>2. signer' = [signer EXCEPT ![s] = v]
  BY DEF sign_checkpoint, SignerIndInv, SignersInv
<1>3. /\ SignerShape(me) /\ CallsInv(me) /\ ResultInv(me) /\ session[s] = "none"
      /\ cast.max_retries \in Nat
  BY <1>1, OneSignerFacts
<1>4. me.calls = 0 /\ me.retries = 0 /\ me.result = NoResult
  BY <1>1, <1>3 DEF CallsInv
<1>5. Good(v) /\ v.handle = me.handle /\ v.pc \in {"sign", "done"}
  <2>1. CASE InputAssembles(req)
    <3>1. v = [me EXCEPT !.pc = "sign", !.req = req, !.calls = 1]
      BY <2>1
    <3> HIDE DEF v
    <3>2. /\ v.pc = "sign" /\ v.handle = me.handle /\ v.calls = 1
          /\ v.retries = me.retries /\ v.result = me.result /\ v.failed = me.failed
      BY <1>3, <3>1 DEF SignerShape
    <3>3. SignerShape(v)
      BY <1>3, <3>1 DEF SignerShape
    <3> QED BY <1>3, <1>4, <3>2, <3>3 DEF Good, CallsInv, ResultInv, NoResult
  <2>2. CASE ~InputAssembles(req)
    <3>1. v = [me EXCEPT !.pc = "done", !.result = [type |-> "Input"]]
      BY <2>2 DEF Finish
    <3>2. /\ SignerShape(v) /\ v.pc = "done" /\ v.handle = me.handle /\ v.calls = 0
          /\ v.result = [type |-> "Input"]
      BY <1>3, <1>4, <3>1 DEF SignerShape
    <3> HIDE DEF v
    <3> QED BY <1>3, <3>2 DEF Good, CallsInv, ResultInv
  <2> QED BY <2>1, <2>2
<1> HIDE DEF v
<1> QED BY <1>1, <1>2, <1>3, <1>5, CallerMoves

\* The backoff is over and the HSM is called once more.
LEMMA RetryInv ==
  ASSUME SignerIndInv, NEW s \in Signers, Retry(s)
  PROVE  SignerIndInv'
<1> DEFINE me == signer[s]
           v == [me EXCEPT !.pc = "sign", !.calls = me.calls + 1, !.failed = 0, !.error = NoError]
<1>1. me.pc = "backoff" /\ UNCHANGED <<clockVars, hsmVars>>
  BY DEF Retry
<1>2. signer' = [signer EXCEPT ![s] = v]
  BY DEF Retry, SignerIndInv, SignersInv
<1>3. /\ SignerShape(me) /\ CallsInv(me) /\ ResultInv(me) /\ session[s] = "none"
      /\ cast.max_retries \in Nat
  BY <1>1, OneSignerFacts
<1>4. me.calls = me.retries /\ me.result = NoResult
  BY <1>1, <1>3 DEF CallsInv
<1>5. /\ v.pc = "sign" /\ v.handle = me.handle /\ v.calls = me.calls + 1
      /\ v.retries = me.retries /\ v.result = me.result
  BY <1>3 DEF SignerShape
<1>8. SignerShape(v)
  <2>1. me.calls + 1 \in Nat
    BY <1>3 DEF SignerShape
  <2> QED BY <1>3, <2>1 DEF SignerShape
<1> HIDE DEF v
<1>6. me.retries \in 0..cast.max_retries
  BY <1>3 DEF SignerShape
<1>7. Good(v)
  BY <1>3, <1>4, <1>5, <1>6, <1>8 DEF Good, CallsInv, ResultInv, NoResult
<1> QED BY <1>1, <1>2, <1>3, <1>5, <1>7, CallerMoves

-----------------------------------------------------------------------------
(* What the HSM's answers do, whichever HSM it is.                         *)

\* get_public_key returned.
LEMMA ExportedInv ==
  ASSUME SignerIndInv, NEW s \in Signers, NEW result, Exported(s, result), cast' = cast,
         signer[s].pc = "lookup",
         result = NotFound => signer[s].handle = NoKey
  PROVE  /\ ClockIndInv' /\ SignersInv' /\ BackoffInv'
         /\ signer'[s].pc \in {"ready", "done"} /\ signer'[s].handle = signer[s].handle
         /\ \A r \in Signers : r # s => signer'[r] = signer[r]
<1> DEFINE me == signer[s]
           v == IF result.type = "Ok" THEN [me EXCEPT !.pc = "ready"]
                ELSE Finish(s, [type |-> "NoPublicKey", source |-> result])
<1>1. signer' = [signer EXCEPT ![s] = v] /\ UNCHANGED clockVars
  BY DEF Exported, SignerIndInv, SignersInv
<1>2. SignerShape(me) /\ CallsInv(me) /\ ResultInv(me)
  BY OneSignerFacts
<1>3. Good(v) /\ v.handle = me.handle /\ v.pc \in {"ready", "done"}
  <2>1. CASE result.type = "Ok"
    <3>1. v = [me EXCEPT !.pc = "ready"]
      BY <2>1
    <3> HIDE DEF v
    <3>2. /\ SignerShape(v) /\ v.pc = "ready" /\ v.handle = me.handle /\ v.calls = me.calls
          /\ v.retries = me.retries /\ v.result = me.result
      BY <1>2, <3>1 DEF SignerShape
    <3> QED BY <1>2, <3>2 DEF Good, CallsInv, ResultInv
  <2>2. CASE result.type # "Ok"
    <3>1. v = [me EXCEPT !.pc = "done", !.result = [type |-> "NoPublicKey", source |-> result]]
      BY <2>2 DEF Finish
    <3> HIDE DEF v
    <3>2. /\ SignerShape(v) /\ v.pc = "done" /\ v.handle = me.handle /\ v.calls = me.calls
          /\ v.result = [type |-> "NoPublicKey", source |-> result]
      BY <1>2, <3>1 DEF SignerShape
    <3>3. v.result.type = "NoPublicKey" /\ v.result.source = result
      BY <3>2
    <3> QED BY <1>2, <3>2, <3>3 DEF Good, CallsInv, ResultInv
  <2> QED BY <2>1, <2>2
<1> HIDE DEF v
<1>4. /\ SignersInv' /\ signer'[s] = v
      /\ \A r \in Signers : r # s => signer'[r] = signer[r]
  BY <1>1, <1>3, OneSigner DEF SignerIndInv
<1>5. ClockIndInv'
  BY <1>1, ClockKept DEF SignerIndInv
<1>6. BackoffInv'
  BY <1>1, <1>3, <1>4, BackoffKept DEF SignerIndInv, clockVars
<1> QED BY <1>3, <1>4, <1>5, <1>6

\* generate_key returned, or inserted the key it drew.
LEMMA GeneratedInv ==
  ASSUME SignerIndInv, NEW s \in Signers, NEW h \in Nat, Generated(s, h), cast' = cast,
         signer[s].pc \in {"generate", "insert"}
  PROVE  /\ ClockIndInv' /\ SignersInv' /\ BackoffInv'
         /\ signer'[s].pc = (IF h = NoKey THEN "done" ELSE "ready") /\ signer'[s].handle = h
         /\ \A r \in Signers : r # s => signer'[r] = signer[r]
<1> DEFINE me == signer[s]
           p == IF h = NoKey THEN "done" ELSE "ready"
           v == [me EXCEPT !.pc = p, !.handle = h]
<1>1. signer' = [signer EXCEPT ![s] = v] /\ UNCHANGED clockVars
  BY DEF Generated, SignerIndInv, SignersInv
<1>2. SignerShape(me) /\ CallsInv(me) /\ ResultInv(me)
  BY OneSignerFacts
<1>3. p \in {"done", "ready"}
  OBVIOUS
<1> HIDE DEF p
<1>4. /\ SignerShape(v) /\ v.pc = p /\ v.handle = h /\ v.calls = me.calls
      /\ v.retries = me.retries /\ v.result = me.result
  BY <1>2 DEF SignerShape
<1> HIDE DEF v
<1>5. Good(v)
  BY <1>2, <1>3, <1>4 DEF Good, CallsInv, ResultInv, NoResult
<1>6. /\ SignersInv' /\ signer'[s] = v
      /\ \A r \in Signers : r # s => signer'[r] = signer[r]
  BY <1>1, <1>5, OneSigner DEF SignerIndInv
<1>7. ClockIndInv'
  BY <1>1, ClockKept DEF SignerIndInv
<1>8. BackoffInv'
  BY <1>1, <1>3, <1>4, <1>6, BackoffKept DEF SignerIndInv, clockVars
<1> QED BY <1>4, <1>6, <1>7, <1>8 DEF p

-----------------------------------------------------------------------------
(* MemoryHsm, and any other implementation of the trait.                   *)

\* The handle that fetch_add drew is nobody else's, inserted or not yet.
LEMMA MemoryDrawIdInv ==
  ASSUME SignerIndInv, NEW s \in Signers, MemoryDrawId(s)
  PROVE  SignerIndInv'
<1> DEFINE me == signer[s]
           v == [me EXCEPT !.pc = "insert", !.handle = next_id]
<1>1. /\ cast.hsm = "memory" /\ me.pc = "generate" /\ next_id' = next_id + 1
      /\ UNCHANGED <<clockVars, cast, keys, session, loggedIn>>
  BY DEF MemoryDrawId
<1>2. signer' = [signer EXCEPT ![s] = v]
  BY DEF MemoryDrawId, SignerIndInv, SignersInv
<1>3. /\ SignerShape(me) /\ CallsInv(me) /\ ResultInv(me) /\ session[s] = "none"
  BY <1>1, OneSignerFacts
<1>4. ClockIndInv /\ SignersInv /\ KeyInv /\ SessionInv /\ BackoffInv
  BY DEF SignerIndInv
<1>5. next_id \in Nat \ {0}
  BY <1>4 DEF KeyInv
<1>6. /\ SignerShape(v) /\ v.pc = "insert" /\ v.handle = next_id /\ v.calls = me.calls
      /\ v.retries = me.retries /\ v.result = me.result
  BY <1>3, <1>5 DEF SignerShape
<1> HIDE DEF v
<1>7. Good(v)
  BY <1>1, <1>3, <1>6 DEF Good, CallsInv, ResultInv, NoResult
<1>8. /\ SignersInv' /\ signer'[s] = v
      /\ \A r \in Signers : r # s => signer'[r] = signer[r]
  BY <1>1, <1>2, <1>4, <1>7, OneSigner
<1>9. SessionInv'
  BY <1>1, <1>3, <1>4, <1>8, SessionsKept
<1>10. BackoffInv'
  BY <1>1, <1>4, <1>6, <1>8, BackoffKept DEF clockVars
<1>11. ClockIndInv'
  BY <1>1, <1>4, ClockKept
<1>12. KeyInv'
  <2>1. \A r \in Signers : r # s => signer[r].handle < next_id /\ signer[r].handle \in Nat
    BY <1>1, <1>4, <1>5 DEF KeyInv, NoKey, SignersInv, SignerShape
  <2>2. ASSUME NEW r \in Signers
        PROVE  /\ signer'[r].pc \in {"new", "generate"} => signer'[r].handle = NoKey
               /\ signer'[r].handle < next_id'
               /\ signer'[r].pc # "insert" /\ signer'[r].handle # NoKey => signer'[r].handle \in keys
               /\ signer'[r].handle # NoKey =>
                    \A q \in Signers : q # r => signer'[q].handle # signer'[r].handle
    <3>1. CASE r = s
      BY <1>1, <1>5, <1>6, <1>8, <2>1, <3>1
    <3>2. CASE r # s
      <4>1. signer'[r] = signer[r] /\ signer[r].handle < next_id /\ signer[r].handle \in Nat
        BY <1>8, <2>1, <3>2
      <4>2. /\ signer[r].pc \in {"new", "generate"} => signer[r].handle = NoKey
            /\ signer[r].handle # NoKey =>
                 /\ signer[r].pc # "insert" => signer[r].handle \in keys
                 /\ \A q \in Signers : q # r => signer[q].handle # signer[r].handle
        BY <1>1, <1>4 DEF KeyInv
      <4>3. signer[r].handle < next_id'
        BY <1>1, <1>5, <4>1
      <4>4. signer'[s].handle # signer[r].handle
        BY <1>5, <1>6, <1>8, <4>1
      <4> QED BY <1>8, <4>1, <4>2, <4>3, <4>4
    <3> QED BY <3>1, <3>2
  <2>3. next_id' \in Nat \ {0}
    BY <1>1, <1>5
  <2> QED BY <1>1, <2>2, <2>3 DEF KeyInv
<1> QED BY <1>8, <1>9, <1>10, <1>11, <1>12 DEF SignerIndInv

\* The key is in the map from the insertion on.
LEMMA MemoryInsertInv ==
  ASSUME SignerIndInv, NEW s \in Signers, MemoryInsert(s)
  PROVE  SignerIndInv'
<1> DEFINE h == signer[s].handle
<1>1. /\ signer[s].pc = "insert" /\ keys' = keys \cup {h} /\ Generated(s, h)
      /\ UNCHANGED <<cast, next_id, session, loggedIn>>
  BY DEF MemoryInsert
<1>2. KeyInv /\ SessionInv /\ session[s] = "none" /\ h \in Nat
  BY <1>1, OneSignerFacts DEF SignerIndInv, SignerShape
<1>3. /\ ClockIndInv' /\ SignersInv' /\ BackoffInv'
      /\ signer'[s].pc \in {"done", "ready"} /\ signer'[s].handle = h
      /\ \A r \in Signers : r # s => signer'[r] = signer[r]
  BY <1>1, <1>2, GeneratedInv
<1>4. SessionInv'
  BY <1>1, <1>2, <1>3, SessionsKept
<1>5. KeyInv'
  <2>1. \A r \in Signers : signer'[r].handle = signer[r].handle
    BY <1>3
  <2>2. ASSUME NEW r \in Signers
        PROVE  /\ signer'[r].pc \in {"new", "generate"} => signer'[r].handle = NoKey
               /\ signer'[r].pc = "insert" => cast.hsm = "memory"
               /\ cast.hsm # "other" /\ signer'[r].handle # NoKey =>
                    /\ signer'[r].handle < next_id
                    /\ signer'[r].pc # "insert" => signer'[r].handle \in keys'
                    /\ \A q \in Signers : q # r => signer'[q].handle # signer'[r].handle
    <3>1. CASE r = s
      BY <1>1, <1>2, <1>3, <2>1, <3>1 DEF KeyInv
    <3>2. CASE r # s
      BY <1>1, <1>2, <1>3, <2>1, <3>2 DEF KeyInv
    <3> QED BY <3>1, <3>2
  <2> QED BY <1>1, <1>2, <2>2 DEF KeyInv, NoKey
<1> QED BY <1>3, <1>4, <1>5 DEF SignerIndInv

\* A key that a caller holds is in the HSM, so only a caller without one is
\* told that it was not found.
LEMMA HeldKeyFound ==
  ASSUME SignerIndInv, NEW s \in Signers, cast.hsm # "other",
         signer[s].pc \in {"lookup", "sign"}, signer[s].handle \notin keys
  PROVE  signer[s].handle = NoKey
BY DEF SignerIndInv, KeyInv

\* sign and get_public_key, of MemoryHsm or another implementation, answer.
LEMMA AnsweredInv ==
  ASSUME SignerIndInv, NEW s \in Signers, NEW result, UNCHANGED hsmVars, cast.hsm # "softhsm",
         \/ signer[s].pc = "sign" /\ Returned(s, result)
         \/ signer[s].pc = "lookup" /\ Exported(s, result),
         result = NotFound => signer[s].handle = NoKey
  PROVE  SignerIndInv'
<1>1. UNCHANGED <<cast, keys, next_id, session, loggedIn>>
  BY DEF hsmVars
<1>2. /\ ClockIndInv' /\ SignersInv' /\ BackoffInv'
      /\ signer'[s].pc \in {"done", "backoff", "ready"} /\ signer'[s].handle = signer[s].handle
      /\ \A r \in Signers : r # s => signer'[r] = signer[r]
  BY <1>1, ReturnedInv, ExportedInv
<1>3. session[s] = "none" /\ signer[s].pc # "insert" /\ KeyInv /\ SessionInv
  BY OneSignerFacts DEF SignerIndInv
<1>4. KeyInv' /\ SessionInv'
  BY <1>1, <1>2, <1>3, HandlesKept, SessionsKept
<1> QED BY <1>2, <1>4 DEF SignerIndInv

\* The steps of MemoryHsm and of any other implementation of the trait.
LEMMA TraitStepInv ==
  ASSUME SignerIndInv, NEW s \in Signers,
         \/ MemorySign(s) \/ MemoryGetPublicKey(s) \/ OtherGenerates(s)
         \/ \E result \in Answers : OtherExports(s, result)
         \/ \E result \in Answers : OtherSigns(s, result)
  PROVE  SignerIndInv'
<1>1. CASE MemorySign(s)
  <2>1. PICK result : /\ result = IF signer[s].handle \in keys THEN Signature(64) ELSE NotFound
                      /\ Returned(s, result)
    BY <1>1 DEF MemorySign
  <2>2. result = NotFound => signer[s].handle \notin keys
    BY <2>1 DEF Signature, NotFound
  <2>3. cast.hsm = "memory" /\ signer[s].pc = "sign" /\ UNCHANGED hsmVars
    BY <1>1 DEF MemorySign
  <2> QED BY <2>1, <2>2, <2>3, HeldKeyFound, AnsweredInv
<1>2. CASE MemoryGetPublicKey(s)
  <2>1. PICK result : /\ result = IF signer[s].handle \in keys THEN [type |-> "Ok"] ELSE NotFound
                      /\ Exported(s, result)
    BY <1>2 DEF MemoryGetPublicKey
  <2>2. result = NotFound => signer[s].handle \notin keys
    BY <2>1 DEF NotFound
  <2>3. cast.hsm = "memory" /\ signer[s].pc = "lookup" /\ UNCHANGED hsmVars
    BY <1>2 DEF MemoryGetPublicKey
  <2> QED BY <2>1, <2>2, <2>3, HeldKeyFound, AnsweredInv
<1>3. CASE OtherGenerates(s)
  <2>1. cast.hsm = "other" /\ signer[s].pc = "generate" /\ Generated(s, 1)
        /\ UNCHANGED <<cast, keys, next_id, session, loggedIn>>
    BY <1>3 DEF OtherGenerates, hsmVars
  <2>2. /\ ClockIndInv' /\ SignersInv' /\ BackoffInv'
        /\ signer'[s].pc = (IF 1 = NoKey THEN "done" ELSE "ready")
        /\ \A r \in Signers : r # s => signer'[r] = signer[r]
    BY <2>1, GeneratedInv
  <2>3. KeyInv /\ SessionInv /\ session[s] = "none"
    BY <2>1, OneSignerFacts DEF SignerIndInv
  <2>4. SessionInv'
    BY <2>1, <2>2, <2>3, SessionsKept
  <2>5. KeyInv'
    BY <2>1, <2>2, <2>3 DEF KeyInv, NoKey
  <2> QED BY <2>2, <2>4, <2>5 DEF SignerIndInv
<1>4. CASE \E result \in Answers : OtherExports(s, result) \/ OtherSigns(s, result)
  <2>1. PICK result \in Answers : OtherExports(s, result) \/ OtherSigns(s, result)
    BY <1>4
  <2>2. result # NotFound
    BY <2>1 DEF Answers, Signature, Transport, NotFound
  <2>3. /\ cast.hsm = "other" /\ UNCHANGED hsmVars
        /\ \/ signer[s].pc = "sign" /\ Returned(s, result)
           \/ signer[s].pc = "lookup" /\ Exported(s, result)
    BY <2>1 DEF OtherExports, OtherSigns
  <2> QED BY <2>2, <2>3, AnsweredInv
<1> QED BY <1>1, <1>2, <1>3, <1>4

-----------------------------------------------------------------------------
(* SoftHsm.                                                                *)

\* An operation ends, with an answer or an error, and drops its session.
LEMMA OutcomeInv ==
  ASSUME SignerIndInv, NEW s \in Signers, NEW result, Outcome(s, result),
         UNCHANGED <<cast, keys, next_id>>,
         signer[s].pc \in {"generate", "lookup", "sign"},
         result = NotFound => signer[s].handle = NoKey
  PROVE  SignerIndInv'
<1>1. /\ CloseSession(s)
      /\ signer[s].pc = "sign" => Returned(s, result)
      /\ signer[s].pc = "lookup" => Exported(s, result)
      /\ signer[s].pc = "generate" => Generated(s, NoKey)
  BY DEF Outcome
<1>2. KeyInv /\ SessionInv
  BY DEF SignerIndInv
<1>3. signer[s].pc = "generate" => signer[s].handle = NoKey
  BY <1>2 DEF KeyInv
<1>4. /\ ClockIndInv' /\ SignersInv' /\ BackoffInv'
      /\ signer'[s].pc \in {"done", "backoff", "ready"} /\ signer'[s].handle = signer[s].handle
      /\ \A r \in Signers : r # s => signer'[r] = signer[r]
  <2>1. CASE signer[s].pc = "sign"
    BY <1>1, <2>1, ReturnedInv
  <2>2. CASE signer[s].pc = "lookup"
    BY <1>1, <2>2, ExportedInv
  <2>3. CASE signer[s].pc = "generate"
    <3>1. NoKey \in Nat
      BY DEF NoKey
    <3> QED BY <1>1, <1>3, <2>3, <3>1, GeneratedInv
  <2> QED BY <2>1, <2>2, <2>3
<1>5. KeyInv'
  BY <1>2, <1>4, HandlesKept
<1>6. SessionInv'
  BY <1>1, <1>2, <1>4, SessionClosed
<1> QED BY <1>4, <1>5, <1>6 DEF SignerIndInv

\* A session moves on while the caller waits.
LEMMA SessionStep ==
  ASSUME SignerIndInv, NEW s \in Signers, NEW p \in {"opened", "ready", "found"},
         session' = [session EXCEPT ![s] = p], loggedIn' \in BOOLEAN,
         UNCHANGED <<clockVars, cast, keys, next_id, signer>>,
         cast.hsm = "softhsm", signer[s].pc \in {"generate", "lookup", "sign"},
         p = "found" => signer[s].pc = "sign",
         p \in {"ready", "found"} => loggedIn',
         loggedIn => loggedIn', loggedIn' => loggedIn \/ p = "ready"
  PROVE  SignerIndInv'
<1>1. SessionInv'
  <2>1. /\ session' \in [Signers -> {"none", "opened", "ready", "found"}] /\ session'[s] = p
        /\ \A r \in Signers : r # s => session'[r] = session[r]
    BY DEF SignerIndInv, SessionInv
  <2>2. ASSUME NEW r \in Signers
        PROVE  /\ session'[r] # "none" =>
                    cast.hsm = "softhsm" /\ signer[r].pc \in {"generate", "lookup", "sign"}
               /\ session'[r] = "found" => signer[r].pc = "sign"
               /\ session'[r] \in {"ready", "found"} => loggedIn'
    <3>1. CASE r = s
      BY <2>1, <3>1
    <3>2. CASE r # s
      <4>1. session'[r] = session[r]
        BY <2>1, <3>2
      <4> QED BY <4>1 DEF SignerIndInv, SessionInv
    <3> QED BY <3>1, <3>2
  <2>3. \E r \in Signers : session'[r] # "none"
    BY <2>1
  <2> QED BY <2>1, <2>2, <2>3 DEF SessionInv
<1>2. ClockIndInv'
  BY ClockKept DEF SignerIndInv
<1>3. KeyInv'
  BY DEF SignerIndInv, KeyInv
<1>4. SignersInv'
  BY DEF SignerIndInv, SignersInv, SignerShape, CallsInv, ResultInv
<1>5. BackoffInv'
  BY DEF SignerIndInv, BackoffInv, Due, clockVars
<1> QED BY <1>1, <1>2, <1>3, <1>4, <1>5 DEF SignerIndInv

\* The token's new key is nobody else's.
LEMMA GenerateKeyPairInv ==
  ASSUME SignerIndInv, NEW s \in Signers, GenerateKeyPair(s)
  PROVE  SignerIndInv'
<1>1. /\ cast.hsm = "softhsm" /\ signer[s].pc = "generate"
      /\ keys' = keys \cup {next_id} /\ next_id' = next_id + 1
      /\ Generated(s, next_id) /\ CloseSession(s) /\ cast' = cast
  BY DEF GenerateKeyPair, Token
<1>2. KeyInv /\ SessionInv /\ SignersInv /\ next_id \in Nat \ {0}
  BY DEF SignerIndInv, KeyInv
<1>3. /\ ClockIndInv' /\ SignersInv' /\ BackoffInv'
      /\ signer'[s].pc = "ready" /\ signer'[s].handle = next_id
      /\ \A r \in Signers : r # s => signer'[r] = signer[r]
  BY <1>1, <1>2, GeneratedInv DEF NoKey
<1>4. SessionInv'
  BY <1>1, <1>2, <1>3, SessionClosed
<1>5. KeyInv'
  <2>1. \A r \in Signers : r # s => signer[r].handle < next_id /\ signer[r].handle \in Nat
    BY <1>1, <1>2 DEF KeyInv, NoKey, SignersInv, SignerShape
  <2>2. ASSUME NEW r \in Signers
        PROVE  /\ signer'[r].pc \in {"new", "generate"} => signer'[r].handle = NoKey
               /\ signer'[r].pc # "insert"
               /\ signer'[r].handle < next_id'
               /\ signer'[r].handle # NoKey => signer'[r].handle \in keys'
               /\ signer'[r].handle # NoKey =>
                    \A q \in Signers : q # r => signer'[q].handle # signer'[r].handle
    <3>1. CASE r = s
      BY <1>1, <1>2, <1>3, <2>1, <3>1
    <3>2. CASE r # s
      <4>1. signer'[r] = signer[r] /\ signer[r].handle < next_id /\ signer[r].handle \in Nat
        BY <1>3, <2>1, <3>2
      <4>2. /\ signer[r].pc \in {"new", "generate"} => signer[r].handle = NoKey
            /\ signer[r].pc # "insert"
            /\ signer[r].handle # NoKey =>
                 /\ signer[r].handle \in keys
                 /\ \A q \in Signers : q # r => signer[q].handle # signer[r].handle
        BY <1>1, <1>2 DEF KeyInv
      <4>3. signer[r].handle < next_id'
        BY <1>1, <1>2, <4>1
      <4>4. signer'[s].handle # signer[r].handle
        BY <1>2, <1>3, <4>1
      <4> QED BY <1>1, <1>3, <4>1, <4>2, <4>3, <4>4
    <3> QED BY <3>1, <3>2
  <2>3. next_id' \in Nat \ {0}
    BY <1>1, <1>2
  <2> QED BY <1>1, <2>2, <2>3 DEF KeyInv
<1> QED BY <1>3, <1>4, <1>5 DEF SignerIndInv

\* The steps of a session of the token.
LEMMA TokenStepInv ==
  ASSUME SignerIndInv, NEW s \in Signers,
         \/ OpenSession(s) \/ Login(s) \/ FindKey(s) \/ FindPublicKey(s)
         \/ \E len \in Lengths : SignDigest(s, len)
         \/ \E rv \in Faults : TokenFails(s, rv)
  PROVE  SignerIndInv'
<1>1. CASE OpenSession(s)
  <2>1. /\ session' = [session EXCEPT ![s] = "opened"]
        /\ UNCHANGED <<clockVars, cast, keys, next_id, loggedIn, signer>>
        /\ cast.hsm = "softhsm" /\ signer[s].pc \in {"generate", "lookup", "sign"}
    BY <1>1 DEF OpenSession, Token
  <2>2. loggedIn \in BOOLEAN
    BY DEF SignerIndInv, SessionInv
  <2> QED BY <2>1, <2>2, SessionStep
<1>2. CASE Login(s)
  <2>1. /\ session' = [session EXCEPT ![s] = "ready"] /\ loggedIn' = TRUE
        /\ UNCHANGED <<clockVars, cast, keys, next_id, signer>>
        /\ cast.hsm = "softhsm" /\ signer[s].pc \in {"generate", "lookup", "sign"}
    BY <1>2 DEF Login, Token
  <2> QED BY <2>1, SessionStep
<1>3. CASE FindKey(s)
  <2>1. /\ cast.hsm = "softhsm" /\ signer[s].pc = "sign" /\ session[s] = "ready"
        /\ UNCHANGED <<cast, keys, next_id>>
    BY <1>3 DEF FindKey, Token
  <2>2. loggedIn = TRUE
    BY <2>1 DEF SignerIndInv, SessionInv
  <2>3. CASE signer[s].handle \in keys
    <3>1. /\ session' = [session EXCEPT ![s] = "found"]
          /\ UNCHANGED <<clockVars, loggedIn, signer>>
      BY <1>3, <2>2, <2>3 DEF FindKey
    <3> QED BY <2>1, <2>2, <3>1, SessionStep
  <2>4. CASE signer[s].handle \notin keys
    <3>1. Outcome(s, NotFound)
      BY <1>3, <2>4 DEF FindKey
    <3>2. signer[s].handle = NoKey
      BY <2>1, <2>4, HeldKeyFound
    <3> QED BY <2>1, <3>1, <3>2, OutcomeInv
  <2> QED BY <2>3, <2>4
<1>4. CASE FindPublicKey(s)
  <2>1. PICK result : /\ result = IF signer[s].handle \in keys THEN [type |-> "Ok"] ELSE NotFound
                      /\ Outcome(s, result)
    BY <1>4 DEF FindPublicKey
  <2>2. result = NotFound => signer[s].handle \notin keys
    BY <2>1 DEF NotFound
  <2>3. cast.hsm = "softhsm" /\ signer[s].pc = "lookup" /\ UNCHANGED <<cast, keys, next_id>>
    BY <1>4 DEF FindPublicKey, Token
  <2> QED BY <2>1, <2>2, <2>3, HeldKeyFound, OutcomeInv
<1>5. CASE \E len \in Lengths : SignDigest(s, len)
  <2>1. PICK len \in Lengths : SignDigest(s, len)
    BY <1>5
  <2>2. PICK result : /\ result = IF len = P1363_SIGNATURE_LEN THEN Signature(len) ELSE Transport(FALSE)
                      /\ Outcome(s, result)
    BY <2>1 DEF SignDigest
  <2>3. result # NotFound
    BY <2>2 DEF Signature, Transport, NotFound
  <2>4. signer[s].pc \in {"generate", "lookup", "sign"} /\ UNCHANGED <<cast, keys, next_id>>
    BY <2>1 DEF SignDigest, Token
  <2> QED BY <2>2, <2>3, <2>4, OutcomeInv
<1>6. CASE \E rv \in Faults : TokenFails(s, rv)
  <2>1. PICK rv \in Faults : TokenFails(s, rv)
    BY <1>6
  <2>2. map_pkcs11(rv) # NotFound
    BY DEF map_pkcs11, Transport, NotFound
  <2>3. /\ Outcome(s, map_pkcs11(rv))
        /\ signer[s].pc \in {"generate", "lookup", "sign"} /\ UNCHANGED <<cast, keys, next_id>>
    BY <2>1 DEF TokenFails, Token
  <2> QED BY <2>2, <2>3, OutcomeInv
<1> QED BY <1>1, <1>2, <1>3, <1>4, <1>5, <1>6

-----------------------------------------------------------------------------
(* All steps.                                                              *)

\* The clock, its sleepers and its ticker do not touch the signing.
LEMMA ClockOnlyInv ==
  ASSUME SignerIndInv, ClockStep, UNCHANGED <<hsmVars, signer>>
  PROVE  SignerIndInv'
<1>1. UNCHANGED <<cast, keys, next_id, session, loggedIn, signer>>
  BY DEF hsmVars
<1>2. /\ ClockIndInv'
      /\ \A s \in Sleepers : s # Ticker => \A d \in Nat : Due(s, d) => Due(s, d)'
  BY ClockStepInv DEF SignerIndInv
<1>3. SignersInv'
  BY <1>1 DEF SignerIndInv, SignersInv, SignerShape, CallsInv, ResultInv
<1>4. KeyInv' /\ SessionInv'
  BY <1>1 DEF SignerIndInv, KeyInv, SessionInv
<1>5. BackoffInv'
  <2> SUFFICES ASSUME NEW s \in Signers, signer'[s].pc = "backoff"
               PROVE  Due(s, signer[s].failed + backoff_for(signer[s].retries - 1))'
    BY DEF BackoffInv
  <2>1. SignerShape(signer[s]) /\ CallsInv(signer[s]) /\ cast.max_retries \in Nat
    BY OneSignerFacts
  <2>2. signer[s].failed \in Nat /\ signer[s].retries - 1 \in Nat
    BY <1>1, <2>1 DEF SignerShape, CallsInv
  <2>3. PICK d \in Nat : d = signer[s].failed + backoff_for(signer[s].retries - 1)
    BY <2>2, BackoffType
  <2>4. Due(s, d)
    BY <1>1, <2>3 DEF SignerIndInv, BackoffInv
  <2>5. Due(s, d)'
    BY <1>2, <2>4, SignerAssumption
  <2>6. d = signer'[s].failed + backoff_for(signer'[s].retries - 1)
    BY <1>1, <2>3
  <2> QED BY <2>5, <2>6 DEF Due, backoff_for
<1> QED BY <1>2, <1>3, <1>4, <1>5 DEF SignerIndInv

\* The inductive invariant of the signer: the clock's types and schedule, the
\* count of calls at every point of sign_with_retry, who holds which key, who
\* is in which session of the token, and when each backoff is due.
THEOREM SignerInvariant == Spec => []SignerIndInv
<1>1. Init => SignerIndInv
  <2> SUFFICES ASSUME Init PROVE SignerIndInv
    OBVIOUS
  <2>1. /\ nanos = 0 /\ applied = 0 /\ thread = [t \in Threads |-> Quiet]
        /\ sleep = [s \in Sleepers |-> Awake] /\ ticks = <<>> /\ next = Period /\ ticking = FALSE
        /\ cast \in Casts /\ keys = {} /\ next_id = 1
        /\ session = [s \in Signers |-> "none"] /\ loggedIn = FALSE
        /\ signer = [s \in Signers |-> NewSigner]
    BY DEF Init, ClockInit
  <2>2. ClockIndInv
    <3>0. ticks \in Seq(Nat)
      BY <2>1
    <3>4. Quiet \in ThreadState /\ Awake \in SleepState
      BY DEF ThreadState, SleepState
    <3>5. nanos \in 0..MaxNanos /\ applied \in 0..MaxNanos /\ next \in Nat /\ NoAdvanceLost
      BY <2>1, ClockAssumption DEF NoAdvanceLost
    <3>1. ClockTypes /\ NoAdvanceLost
      BY <2>1, <3>0, <3>4, <3>5 DEF ClockTypes
    <3>2. Len(ticks) = 0
      BY <2>1
    <3>3. ScheduleInv /\ TicksOnSchedule
      BY <2>1, <3>2, ClockAssumption DEF ScheduleInv, TicksOnSchedule
    <3> QED BY <3>1, <3>3 DEF ClockIndInv
  <2>3. /\ SignerShape(NewSigner) /\ CallsInv(NewSigner) /\ ResultInv(NewSigner)
        /\ NewSigner.pc = "new" /\ NewSigner.handle = NoKey
    BY <2>1, SignerAssumption
       DEF NewSigner, SignerShape, CallsInv, ResultInv, NoResult, NoError, NoKey, is_retryable
  <2>4. SignersInv /\ KeyInv
    BY <2>1, <2>3 DEF SignersInv, KeyInv
  <2>5. SessionInv /\ BackoffInv
    BY <2>1, <2>3 DEF SessionInv, BackoffInv
  <2> QED BY <2>2, <2>4, <2>5 DEF SignerIndInv
<1>2. SignerIndInv /\ [Next]_vars => SignerIndInv'
  <2> SUFFICES ASSUME SignerIndInv, [Next]_vars PROVE SignerIndInv'
    OBVIOUS
  <2>1. CASE TickerStep
    <3>1. ClockStep /\ UNCHANGED <<hsmVars, signer>>
      BY <2>1, ClockAssumption DEF TickerStep, ClockStep
    <3> QED BY <3>1, ClockOnlyInv
  <2>2. CASE \E t \in Threads \cap cast.actors : MoveClock(t)
    <3>1. ClockStep /\ UNCHANGED <<hsmVars, signer>>
      BY <2>2 DEF MoveClock, ClockStep
    <3> QED BY <3>1, ClockOnlyInv
  <2>3. ASSUME NEW s \in Signers, GenerateKey(s) \/ UseUnknownKey(s) \/ GetPublicKey(s)
        PROVE  SignerIndInv'
    BY <2>3, CallerBegins
  <2>4. ASSUME NEW s \in Signers, NEW req \in Requests, sign_checkpoint(s, req)
        PROVE  SignerIndInv'
    BY <2>4, SignCheckpointInv
  <2>5. ASSUME NEW s \in Signers, HsmStep(s)
        PROVE  SignerIndInv'
    BY <2>5, MemoryDrawIdInv, MemoryInsertInv, TraitStepInv, GenerateKeyPairInv, TokenStepInv
       DEF HsmStep
  <2>6. ASSUME NEW s \in Signers, Sleeping(s), UNCHANGED <<hsmVars, signer>>
        PROVE  SignerIndInv'
    <3>1. ClockStep
      BY <2>6, SignerAssumption DEF ClockStep
    <3> QED BY <2>6, <3>1, ClockOnlyInv
  <2>7. ASSUME NEW s \in Signers, SignerStep(s)
        PROVE  SignerIndInv'
    BY <2>5, <2>6, <2>7, RetryInv DEF SignerStep
  <2>8. CASE UNCHANGED vars
    <3>1. UNCHANGED <<clockVars, cast, keys, next_id, session, loggedIn, signer>>
      BY <2>8 DEF vars, hsmVars
    <3>2. ClockIndInv'
      BY <3>1, ClockKept DEF SignerIndInv
    <3>3. SignersInv' /\ KeyInv' /\ SessionInv'
      BY <3>1 DEF SignerIndInv, SignersInv, SignerShape, CallsInv, ResultInv, KeyInv, SessionInv
    <3>4. BackoffInv'
      BY <3>1 DEF SignerIndInv, BackoffInv, Due, clockVars
    <3> QED BY <3>2, <3>3, <3>4 DEF SignerIndInv
  <2> QED BY <2>1, <2>2, <2>3, <2>4, <2>7, <2>8 DEF Next
<1> QED BY <1>1, <1>2, PTL DEF Spec

-----------------------------------------------------------------------------
(* What follows from it.                                                   *)

\* FakeClock and Interval: however threads race to move the clock, no advance
\* is lost and the ticks are the multiples of the period, none early and none
\* skipped; and nobody stays logged in to the token without a session.
THEOREM ClockKeepsTime == Spec => []ClockInv
<1>1. SignerIndInv => ClockInv
  <2> SUFFICES ASSUME SignerIndInv PROVE ClockInv
    OBVIOUS
  <2>1. nanos \in 0..MaxNanos /\ applied \in 0..MaxNanos /\ Len(ticks) <= MaxTicks
    BY DEF SignerIndInv, ClockIndInv, ClockTypes, ScheduleInv
  <2>2. \A s \in Signers : signer[s].retries \in 0..cast.max_retries
    BY DEF SignerIndInv, SignersInv, SignerShape
  <2>3. TypeOK
    BY <2>1, <2>2 DEF SignerIndInv, SessionInv, TypeOK
  <2> QED BY <2>3 DEF SignerIndInv, ClockIndInv, ClockInv
<1> QED BY <1>1, SignerInvariant, PTL

\* sign_with_retry: the attempts it reports are the calls of the HSM, within
\* the budget, and a transient failure is reported only when that is used up.
THEOREM AttemptsReportedAreCalls == Spec => []AttemptsAccountedFor
<1>1. SignerIndInv => AttemptsAccountedFor
  BY DEF SignerIndInv, SignersInv, CallsInv, AttemptsAccountedFor
<1> QED BY <1>1, SignerInvariant, PTL

\* MemoryHsm and SoftHsm: a key that generate_key returned is always found
\* again, whatever other sessions of the process do, and is nobody else's.
THEOREM KeyStaysFound == Spec => []KeyNeverLost
<1>1. SignerIndInv => KeyNeverLost
  BY DEF SignerIndInv, SignersInv, ResultInv, KeyInv, KeyNeverLost
<1> QED BY <1>1, SignerInvariant, PTL

\* The answers of the HSM end a call, and begin none.
LEMMA AnswersCallNothing ==
  ASSUME SignersInv, NEW s \in Signers, NEW x,
         Returned(s, x) \/ Exported(s, x) \/ Generated(s, x)
  PROVE  \A r \in Signers : signer'[r].calls = signer[r].calls
<1>0. /\ SignerShape(signer[s])
      /\ signer = [r \in Signers |-> signer[r]]
  BY DEF SignersInv
<1>f. \A y : Finish(s, y).calls = signer[s].calls
  BY <1>0 DEF Finish, SignerShape
<1>1. CASE Returned(s, x)
  <2>1. CASE \E y : signer' = [signer EXCEPT ![s] = Finish(s, y)]
    BY <1>0, <1>f, <2>1
  <2>2. CASE signer' = [signer EXCEPT ![s].pc = "backoff", ![s].retries = @ + 1,
                                      ![s].failed = nanos, ![s].error = x]
    BY <1>0, <2>2 DEF SignerShape
  <2> QED BY <1>1, <2>1, <2>2 DEF Returned
<1>2. CASE Exported(s, x)
  <2>1. CASE signer' = [signer EXCEPT ![s] = [@ EXCEPT !.pc = "ready"]]
    BY <1>0, <2>1 DEF SignerShape
  <2>2. CASE \E y : signer' = [signer EXCEPT ![s] = Finish(s, y)]
    BY <1>0, <1>f, <2>2
  <2> QED BY <1>0, <1>2, <2>1, <2>2 DEF Exported
<1>3. CASE Generated(s, x)
  BY <1>0, <1>3 DEF Generated, SignerShape
<1> QED BY <1>1, <1>2, <1>3

\* Only sign_with_retry calls hsm.sign a second time.
LEMMA OnlyRetryCallsAgain ==
  ASSUME SignerIndInv, Next
  PROVE  \A r \in Signers : signer[r].calls > 0 /\ signer'[r].calls # signer[r].calls => Retry(r)
<1>0. SignersInv /\ \A r \in Signers : SignerShape(signer[r]) /\ CallsInv(signer[r])
  BY DEF SignerIndInv, SignersInv
<1>1. CASE UNCHANGED signer
  BY <1>1
<1>2. ASSUME NEW s \in Signers, GenerateKey(s) \/ UseUnknownKey(s) \/ GetPublicKey(s)
      PROVE  \A r \in Signers : signer'[r].calls = signer[r].calls
  BY <1>0, <1>2 DEF GenerateKey, UseUnknownKey, GetPublicKey, SignersInv, SignerShape
<1>3. ASSUME NEW s \in Signers, NEW req \in Requests, sign_checkpoint(s, req)
      PROVE  \A r \in Signers : signer[r].calls > 0 => signer'[r].calls = signer[r].calls
  <2>1. signer[s].calls = 0
    BY <1>0, <1>3 DEF sign_checkpoint, CallsInv
  <2>2. \A r \in Signers : r # s => signer'[r] = signer[r]
    BY <1>0, <1>3 DEF sign_checkpoint, SignersInv
  <2> QED BY <2>1, <2>2
<1>4. ASSUME NEW s \in Signers, Retry(s), NEW r \in Signers, r # s
      PROVE  signer'[r] = signer[r]
  BY <1>0, <1>4 DEF Retry, SignersInv
<1>5. ASSUME NEW s \in Signers, HsmStep(s)
      PROVE  \A r \in Signers : signer'[r].calls = signer[r].calls
  <2>1. CASE MemoryDrawId(s)
    BY <1>0, <2>1 DEF MemoryDrawId, SignersInv, SignerShape
  <2>2. CASE OpenSession(s) \/ Login(s)
    BY <2>2 DEF OpenSession, Login
  <2>3. CASE MemoryInsert(s) \/ OtherGenerates(s) \/ GenerateKeyPair(s)
    BY <1>0, <2>3, AnswersCallNothing DEF MemoryInsert, OtherGenerates, GenerateKeyPair
  <2>4. CASE MemorySign(s) \/ MemoryGetPublicKey(s)
    BY <1>0, <2>4, AnswersCallNothing DEF MemorySign, MemoryGetPublicKey
  <2>5. CASE \E result \in Answers : OtherExports(s, result) \/ OtherSigns(s, result)
    BY <1>0, <2>5, AnswersCallNothing DEF OtherExports, OtherSigns
  <2>6. ASSUME NEW result, Outcome(s, result), signer[s].pc \in {"generate", "lookup", "sign"}
        PROVE  \A r \in Signers : signer'[r].calls = signer[r].calls
    <3>1. Returned(s, result) \/ Exported(s, result) \/ Generated(s, NoKey)
      BY <2>6 DEF Outcome
    <3> QED BY <1>0, <3>1, AnswersCallNothing
  <2>7. CASE FindKey(s) \/ FindPublicKey(s)
    <3>1. signer[s].pc \in {"generate", "lookup", "sign"}
      BY <2>7 DEF FindKey, FindPublicKey
    <3>2. UNCHANGED signer \/ \E result : Outcome(s, result)
      BY <2>7 DEF FindKey, FindPublicKey
    <3> QED BY <2>6, <3>1, <3>2
  <2>8. CASE (\E len \in Lengths : SignDigest(s, len)) \/ (\E rv \in Faults : TokenFails(s, rv))
    <3>1. signer[s].pc \in {"generate", "lookup", "sign"}
      BY <2>8 DEF SignDigest, TokenFails, Token
    <3>2. \E result : Outcome(s, result)
      BY <2>8 DEF SignDigest, TokenFails
    <3> QED BY <2>6, <3>1, <3>2
  <2> QED BY <1>5, <2>1, <2>2, <2>3, <2>4, <2>5, <2>7, <2>8 DEF HsmStep
<1>6. ASSUME NEW s \in Signers, SignerStep(s)
      PROVE  \A r \in Signers : signer'[r].calls # signer[r].calls => Retry(r)
  <2>1. CASE HsmStep(s)
    BY <1>5, <2>1
  <2>2. CASE Retry(s)
    BY <1>4, <2>2
  <2>3. CASE UNCHANGED signer
    BY <2>3
  <2> QED BY <1>6, <2>1, <2>2, <2>3 DEF SignerStep
<1>7. CASE TickerStep \/ \E t \in Threads \cap cast.actors : MoveClock(t)
  BY <1>7 DEF TickerStep, MoveClock
<1> QED BY <1>2, <1>3, <1>6, <1>7 DEF Next

\* sign_with_retry: the HSM is never asked again after a terminal failure, nor
\* before the backoff of that retry has passed on the injected clock, whatever
\* woke the sleeper.
THEOREM RetriesWaitOutBackoff == Spec => BackoffPasses
<1> DEFINE Waited == \A s \in Signers :
             signer'[s].calls = signer[s].calls + 1 /\ signer[s].calls > 0
               => /\ is_retryable(signer[s].error)
                  /\ nanos >= signer[s].failed + backoff_for(signer[s].retries - 1)
<1>1. SignerIndInv /\ [Next]_vars => [Waited]_vars
  <2> SUFFICES ASSUME SignerIndInv, Next, NEW s \in Signers,
                      signer'[s].calls = signer[s].calls + 1, signer[s].calls > 0
               PROVE  /\ is_retryable(signer[s].error)
                      /\ nanos >= signer[s].failed + backoff_for(signer[s].retries - 1)
    OBVIOUS
  <2>1. SignerShape(signer[s]) /\ CallsInv(signer[s]) /\ cast.max_retries \in Nat
    BY OneSignerFacts
  <2>2. signer'[s].calls # signer[s].calls
    BY <2>1 DEF SignerShape
  <2>3. signer[s].pc = "backoff" /\ sleep[s].pc = "awake"
    BY <2>2, OnlyRetryCallsAgain DEF Retry
  <2>4. sleep[s] = Awake
    <3>1. sleep[s] \in SleepState
      BY SignerAssumption DEF SignerIndInv, ClockIndInv, ClockTypes
    <3> QED BY <2>3, <3>1 DEF SleepState, Awake
  <2>5. signer[s].failed + backoff_for(signer[s].retries - 1) <= nanos
    BY <2>3, <2>4 DEF SignerIndInv, BackoffInv, Due
  <2>6. signer[s].failed \in Nat /\ signer[s].retries - 1 \in Nat /\ nanos \in Nat
    BY <2>1, <2>3 DEF SignerShape, CallsInv, SignerIndInv, ClockIndInv, ClockTypes
  <2>7. backoff_for(signer[s].retries - 1) \in Nat
    BY <2>6, BackoffType
  <2>8. is_retryable(signer[s].error)
    BY <2>1, <2>3 DEF CallsInv
  <2> QED BY <2>5, <2>6, <2>7, <2>8
<1> QED BY <1>1, SignerInvariant, PTL DEF Spec, BackoffPasses
=============================================================================
