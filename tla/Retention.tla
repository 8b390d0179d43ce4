----------------------------- MODULE Retention -----------------------------
(***************************************************************************)
(* How long an object is retained (crates/retention): the configuration a  *)
(* policy is built from and the date the policy computes for each class of *)
(* object.  Times and durations are seconds; SystemTime and i64 end at     *)
(* constants of the model.                                                 *)
(***************************************************************************)
EXTENDS Integers

CONSTANTS SECS_PER_DAY, SECS_PER_MINUTE,
          MaxI64,        \* i64::MAX
          MaxTime,       \* the last SystemTime
          Indefinite     \* 9999-12-31T23:59:59Z

ASSUME RetentionAssumption ==
  /\ SECS_PER_DAY \in Nat \ {0} /\ SECS_PER_MINUTE \in Nat \ {0}
  /\ MaxI64 \in Nat /\ MaxTime \in Nat /\ Indefinite \in 0..MaxTime

ObjectClass == {"Entry", "Tile", "PruningCheckpoint"}

Refused(why) == [type |-> "Err", why |-> why]
Built(value) == [type |-> "Ok", value |-> value]

\* The window of n units; zero, negative and overflowing values are refused.
Window(n, unit, nonPositive) ==
  IF n <= 0 THEN Refused(nonPositive)
  ELSE IF n * unit > MaxI64 THEN Refused("DurationOverflow")
  ELSE Built(n * unit)

from_days(days) == Window(days, SECS_PER_DAY, "NonPositiveDays")
from_minutes(minutes) == Window(minutes, SECS_PER_MINUTE, "NonPositiveMinutes")

\* RetentionPolicyConfig::build: the days are validated even when the minutes
\* override them.  dev_override_minutes is <<>> for None, or <<minutes>>.
build(config) ==
  IF from_days(config.retention_days).type = "Err" \/ config.dev_override_minutes = <<>>
  THEN from_days(config.retention_days)
  ELSE from_minutes(config.dev_override_minutes[1])

\* A pruning checkpoint treated like the entries it covers.
retain_until_by_duration(policy, class, write_time) ==
  IF write_time + policy > MaxTime THEN Refused("Overflow") ELSE Built(write_time + policy)

\* RetentionPolicy::retain_until, with SystemTime::checked_add.
retain_until(policy, class, write_time) ==
  IF class = "PruningCheckpoint" THEN Built(Indefinite)
  ELSE IF write_time + policy > MaxTime THEN Refused("Overflow")
  ELSE Built(write_time + policy)
=============================================================================
