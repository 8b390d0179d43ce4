--------------------------- MODULE LagScheduler ---------------------------
(***************************************************************************)
(* LagScheduler<K, E> of the replication simulator                         *)
(* (crates/dev-replicator/src/lag.rs): which discovered changes are due.   *)
(* A scheduler is a record of its policy, its pending queue and the set of *)
(* dedup keys it drained.  Both pollers are built on these operators.      *)
(***************************************************************************)
EXTENDS Integers, Sequences

CONSTANT Stalled   \* LagPolicy::Stalled; LagPolicy::Fixed(d) is the number d

new(policy) == [policy |-> policy, pending |-> <<>>, applied |-> {}]

set_policy(s, policy) == [s EXCEPT !.policy = policy]

PendingKeys(s) == {s.pending[i].key : i \in 1..Len(s.pending)}

\* A check of the queue alone, which forgets what was drained.
is_known_pending_only(s, key) == key \in PendingKeys(s)

\* discover is a no-op for a key that is pending or was drained before.
is_known(s, key) == key \in s.applied \/ key \in PendingKeys(s)

discover(s, key, event, at) ==
  IF is_known(s, key) THEN s
  ELSE [s EXCEPT !.pending = Append(@, [key |-> key, event |-> event, at |-> at])]

\* SystemTime::duration_since, zero for a time in the future.
Age(d, now) == IF now >= d.at THEN now - d.at ELSE 0

is_due(s, i, now) == Age(s.pending[i], now) >= s.policy

\* The length of the longest prefix of the queue that is due.
DueLen(s, now) ==
  IF s.policy = Stalled THEN 0
  ELSE CHOOSE n \in 0..Len(s.pending) :
         /\ \A i \in 1..n : is_due(s, i, now)
         /\ n < Len(s.pending) => ~is_due(s, n + 1, now)

rest_after(s, n) == SubSeq(s.pending, n + 1, Len(s.pending))

\* drain_due: what it returns, and the scheduler it leaves.
drained(s, now) == SubSeq(s.pending, 1, DueLen(s, now))

drain_due(s, now) ==
  [s EXCEPT !.pending = rest_after(s, DueLen(s, now)),
            !.applied = @ \cup {drained(s, now)[i].key : i \in 1..DueLen(s, now)}]
============================================================================
