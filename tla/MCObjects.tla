----------------------------- MODULE MCObjects -----------------------------
(* Two keys, one for entries and one for pruning checkpoints, with every   *)
(* call on the first.                                                      *)
EXTENDS Objects
LOCAL INSTANCE TLC

entry == <<"e", "1">>
checkpoint == <<"c", "1">>

MCKeys == {entry, checkpoint}

OpOn(type, key, class, mode, until) ==
  [type |-> type, key |-> key, class |-> class, mode |-> mode, until |-> until,
   prefix |-> <<"e">>, data |-> 0, asked |-> 0]

Plain(type) == OpOn(type, entry, "none", "none", 0)

MCCalls ==
  { OpOn("put", entry, "none", "IfNotExists", 0), OpOn("put", entry, "none", "Overwrite", 0),
    OpOn("put_with_retention", entry, "Entry", "none", 0),
    OpOn("put_with_retention", checkpoint, "PruningCheckpoint", "none", 0),
    OpOn("delete", checkpoint, "none", "none", 0),
    OpOn("extend_retention", entry, "none", "none", 1),
    OpOn("extend_retention", entry, "none", "none", 3),
    Plain("get"), Plain("head"), Plain("delete"), Plain("get_retention"),
    [Plain("list") EXCEPT !.prefix = <<>>] }

Config(days, minutes) == [retention_days |-> days, dev_override_minutes |-> minutes]

\* A window of one second in place of four days.
MCConfigs == {Config(4, <<1>>)}

\* Around every limit: a policy comes from positive days only, the minutes
\* replace them, and what it gives a date is its window later, or refused.
ASSUME MCPolicies ==
  \A days \in -1..5, minutes \in {<<>>} \cup {<<n>> : n \in -1..10} :
    LET built == build(Config(days, minutes))
        window == IF minutes = <<>> THEN days * SECS_PER_DAY ELSE minutes[1] * SECS_PER_MINUTE
    IN  /\ built.type = "Ok" <=> days > 0 /\ days * SECS_PER_DAY <= MaxI64 /\ window \in 1..MaxI64
        /\ built.type = "Ok" => \A t \in 0..MaxTime :
             LET date == retain_until(built.value, "Entry", t)
             IN  IF t + window > MaxTime THEN date.type = "Err" ELSE date.value = t + window

ClientSymmetry == Permutations(Clients)
=============================================================================
