----------------------------- MODULE FakeClock -----------------------------
(***************************************************************************)
(* The injected clock (crates/clock): FakeClock, one atomic word that      *)
(* threads advance or set by compare-exchange, with a watch channel that   *)
(* wakes sleepers; sleep_until, which waits on it; and Interval, the       *)
(* cadence ticker on top.                                                  *)
(*                                                                         *)
(* Of the watch channel only this matters: a receiver knows whether a      *)
(* message was sent since it last looked (unseen), from its subscription   *)
(* on.                                                                     *)
(***************************************************************************)
EXTENDS Naturals, Sequences

CONSTANTS Threads,     \* those that move the clock
          Sleepers,    \* those that wait for it
          Deltas,      \* durations to advance by
          Times,       \* times to set it to
          MaxNanos,    \* u64::MAX nanoseconds
          MaxTime,     \* the last SystemTime
          Ticker,      \* the sleeper that runs an Interval
          Period, MaxTicks

ASSUME ClockAssumption ==
  /\ Deltas \subseteq Nat /\ Times \subseteq Nat /\ MaxNanos \in Nat /\ MaxTime \in Nat /\ MaxNanos <= MaxTime
  /\ Ticker \in Sleepers /\ Period \in Nat /\ MaxTicks \in Nat

VARIABLES nanos,       \* the atomic word
          thread,      \* [Threads -> the call of advance or set under way]
          sleep,       \* [Sleepers -> the sleep under way]
          applied,     \* what completed advances come to, saturated
          ticks,       \* the scheduled times that Interval::tick returned
          next,        \* Interval::next
          ticking      \* tick() is under way

clockVars == <<nanos, thread, sleep, applied, ticks, next, ticking>>

Quiet == [pc |-> "idle"]
Awake == [pc |-> "awake"]

\* FakeClock::new and Interval::new, at time zero.
ClockInit ==
  /\ nanos = 0 /\ applied = 0
  /\ thread = [t \in Threads |-> Quiet]
  /\ sleep = [s \in Sleepers |-> Awake]
  /\ ticks = <<>> /\ next = Period /\ ticking = FALSE

\* A duration or a time as the word holds it; what does not fit is clamped.
time_to_nanos(t) == IF t > MaxNanos THEN MaxNanos ELSE t

saturating_add(a, b) == IF a + b > MaxNanos THEN MaxNanos ELSE a + b

-----------------------------------------------------------------------------
(* Moving the clock.                                                       *)

\* advance and set load the word first.
Load(t, op, n) ==
  /\ thread[t].pc = "idle"
  /\ thread' = [thread EXCEPT ![t] = [pc |-> "swap", op |-> op, n |-> n, current |-> nanos]]
  /\ UNCHANGED <<nanos, sleep, applied, ticks, next, ticking>>

Advance(t, delta) == Load(t, "advance", time_to_nanos(delta))
Set(t, to) == Load(t, "set", time_to_nanos(to))

\* The value to store, from the one that was loaded.
Target(t) ==
  IF thread[t].op = "advance" THEN saturating_add(thread[t].current, thread[t].n) ELSE thread[t].n

\* set is refused: ClockWentBackward.
Backward(t) == thread[t].op = "set" /\ thread[t].n < thread[t].current

Reject(t) ==
  /\ thread[t].pc = "swap" /\ Backward(t)
  /\ thread' = [thread EXCEPT ![t] = Quiet]
  /\ UNCHANGED <<nanos, sleep, applied, ticks, next, ticking>>

\* A store in place of the compare-exchange.
Exchanges_always(t) == TRUE

\* compare_exchange succeeds.
Exchanges(t) == nanos = thread[t].current

Swap(t) ==
  /\ thread[t].pc = "swap" /\ ~Backward(t)
  /\ \/ /\ Exchanges(t)
        /\ nanos' = Target(t)
        /\ applied' = IF thread[t].op = "advance" THEN saturating_add(applied, thread[t].n)
                      ELSE applied
        /\ thread' = [thread EXCEPT ![t].pc = "notify"]
     \/ /\ ~Exchanges(t)
        /\ thread' = [thread EXCEPT ![t].current = nanos]
        /\ UNCHANGED <<nanos, applied>>
  /\ UNCHANGED <<sleep, ticks, next, ticking>>

\* Only those that wait already are woken.
Notify_waiting(t) ==
  /\ thread[t].pc = "notify"
  /\ thread' = [thread EXCEPT ![t] = Quiet]
  /\ sleep' = [s \in Sleepers |-> IF sleep[s].pc = "waiting"
                                  THEN [sleep[s] EXCEPT !.unseen = TRUE] ELSE sleep[s]]
  /\ UNCHANGED <<nanos, applied, ticks, next, ticking>>

\* notify_waiters: every receiver has something unseen.
Notify(t) ==
  /\ thread[t].pc = "notify"
  /\ thread' = [thread EXCEPT ![t] = Quiet]
  /\ sleep' = [s \in Sleepers |-> IF sleep[s].pc \in {"checking", "early", "waiting"}
                                  THEN [sleep[s] EXCEPT !.unseen = TRUE] ELSE sleep[s]]
  /\ UNCHANGED <<nanos, applied, ticks, next, ticking>>

-----------------------------------------------------------------------------
(* Waiting for the clock.                                                  *)

\* sleep_until(deadline) starts; sleep never ends when the sum overflows.
FallAsleep(deadline) ==
  [pc |-> IF deadline > MaxTime THEN "never" ELSE "started", deadline |-> deadline, unseen |-> FALSE]

Subscribe(s) ==
  /\ sleep[s].pc = "started"
  /\ sleep' = [sleep EXCEPT ![s].pc = "checking", ![s].unseen = FALSE]
  /\ UNCHANGED <<nanos, thread, applied, ticks, next, ticking>>

\* while now() < deadline
Check(s) ==
  /\ sleep[s].pc = "checking"
  /\ sleep' = [sleep EXCEPT ![s] = IF nanos < @.deadline
                                   THEN [@ EXCEPT !.pc = "early"] ELSE Awake]
  /\ UNCHANGED <<nanos, thread, applied, ticks, next, ticking>>

\* ticks.changed() finds nothing unseen and waits.
Await(s) ==
  /\ sleep[s].pc = "early" /\ ~sleep[s].unseen
  /\ sleep' = [sleep EXCEPT ![s].pc = "waiting"]
  /\ UNCHANGED <<nanos, thread, applied, ticks, next, ticking>>

\* The sleeper takes any tick for its own.
Changed_once(s) ==
  /\ sleep[s].pc \in {"early", "waiting"} /\ sleep[s].unseen
  /\ sleep' = [sleep EXCEPT ![s] = Awake]
  /\ UNCHANGED <<nanos, thread, applied, ticks, next, ticking>>

\* ticks.changed() resolves and the loop checks again.
Changed(s) ==
  /\ sleep[s].pc \in {"early", "waiting"} /\ sleep[s].unseen
  /\ sleep' = [sleep EXCEPT ![s].pc = "checking", ![s].unseen = FALSE]
  /\ UNCHANGED <<nanos, thread, applied, ticks, next, ticking>>

Sleeping(s) == Subscribe(s) \/ Check(s) \/ Await(s) \/ Changed(s)

\* deadline.checked_add(period): the schedule does not drift.
Following(deadline) == deadline + Period

\* Interval::tick sleeps until next, ...
AwaitTick ==
  /\ ~ticking /\ Len(ticks) < MaxTicks
  /\ ticking' = TRUE
  /\ sleep' = [sleep EXCEPT ![Ticker] = FallAsleep(next)]
  /\ UNCHANGED <<nanos, thread, applied, ticks, next>>

\* ... returns it and schedules the one after; past the last time, never.
Tick ==
  /\ ticking /\ sleep[Ticker].pc = "awake"
  /\ ticking' = FALSE
  /\ ticks' = Append(ticks, next)
  /\ next' = Following(next)
  /\ UNCHANGED <<nanos, thread, sleep, applied>>
=============================================================================
