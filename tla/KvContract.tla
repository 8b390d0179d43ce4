---------------------------- MODULE KvContract ----------------------------
(***************************************************************************)
(* What the trait ReplicatedKv promises its callers                        *)
(* (crates/cloud-types/src/replicated_kv.rs), whatever the backend.        *)
(*                                                                         *)
(* A call is answered once.  A write either takes effect as a whole or not *)
(* at all; a refusal says that a condition did not hold and that nothing   *)
(* was written, a terminal Transport error that nothing was written; after *)
(* a retryable one the write may have happened, or happen later.  Backends *)
(* may differ on an Increment past u64::MAX and on an update without       *)
(* actions of an item that is no map.                                      *)
(*                                                                         *)
(* The promise that nothing was written has exceptions, each an action     *)
(* whose name ends in Again: a write that took effect, got no answer and   *)
(* was sent again is answered for its last attempt.  A transaction carries *)
(* a token, so conditions are never what its repetition is refused for.    *)
(***************************************************************************)
EXTENDS KvItems, AwsErrors

CONSTANTS Clients,     \* callers of the store
          Calls        \* the calls they make

VARIABLES items,       \* [key -> value or NoItem]
          pending,     \* [Clients -> the call under way]
          answer,      \* [Clients -> the answer to the last call]
          abandoned    \* writes whose caller gave up and which may still arrive

vars == <<items, pending, answer, abandoned>>

Idle == [open |-> FALSE]
Under(op, took, refused) == [open |-> TRUE, op |-> op, took |-> took, refused |-> refused]
Started(op) == Under(op, FALSE, FALSE)

\* The conditions of an update of a map hold and its Increments are of U64
\* attributes, but one passes u64::MAX: one backend stores the sum.
Overflows(op, value) ==
  /\ op.type = "Update" /\ check_conditions(value, op.conditions) /\ IsMap(value)
  /\ \A j \in 1..Len(op.expr) :
       op.expr[j].type = "Increment" => IsU64(attribute_value(value, op.expr[j].attribute))
  /\ \E j \in 1..Len(op.expr) : ~ActionApplies(value[2], op.expr[j])

\* An update without actions of an item that is no map: a check for one backend.
Vacuous(op, value) ==
  /\ op.type = "Update" /\ check_conditions(value, op.conditions)
  /\ value # NoItem /\ ~IsMap(value) /\ op.expr = <<>>

\* op may take effect on value.
Possible(op, value) == Validates(op, value) \/ Overflows(op, value) \/ Vacuous(op, value)

Permitted(op) == \A i \in 1..Len(op.ops) : Possible(op.ops[i], items[op.ops[i].key])

Result(op) == IF Accepts(items, op.ops) THEN ApplyPlan(items, op.ops) ELSE Transacted(items, op.ops)

\* What a successful write returns: the item after the update.
Returned(op) == IF op.type = "update" THEN Ok(Result(op)[op.key]) ELSE Ok(NoItem)

\* Why a write is refused when nothing else happens meanwhile.
Reason(op) ==
  IF op.type = "update" /\ items[op.key] = NoItem THEN NotFound ELSE ConditionFailed

-----------------------------------------------------------------------------
Init ==
  /\ pending = [c \in Clients |-> Idle]
  /\ answer = [c \in Clients |-> Unanswered]
  /\ abandoned = {}

Open(c) == pending[c].open

Reply(c, result) ==
  pending' = [pending EXCEPT ![c] = Idle] /\ answer' = [answer EXCEPT ![c] = result]

Invoke(c, op) ==
  /\ ~Open(c)
  /\ pending' = [pending EXCEPT ![c] = Started(op)]
  /\ answer' = [answer EXCEPT ![c] = Unanswered]
  /\ UNCHANGED <<items, abandoned>>

Read(c) ==
  /\ Open(c) /\ pending[c].op.type = "get"
  /\ Reply(c, LET value == items[pending[c].op.key]
              IN  IF value = NoItem THEN NotFound ELSE Ok(value))
  /\ UNCHANGED <<items, abandoned>>

\* A query reports items whose keys start with its prefix; which of those it
\* must report is a property of its own.
List(c) ==
  /\ Open(c) /\ pending[c].op.type = "query"
  /\ answer'[c].type = "Ok"
  /\ \A pair \in answer'[c].list : starts_with(pair[1], pending[c].op.prefix)
  /\ Reply(c, answer'[c])
  /\ UNCHANGED <<items, abandoned>>

Succeed(c) ==
  /\ Open(c) /\ IsWrite(pending[c].op) /\ Permitted(pending[c].op)
  /\ items' = Result(pending[c].op)
  /\ Reply(c, Returned(pending[c].op))
  /\ UNCHANGED abandoned

\* An update whose result cannot be read back: a number above u64::MAX.
StoreUndecodable(c) ==
  /\ Open(c) /\ pending[c].op.type = "update" /\ Permitted(pending[c].op)
  /\ items' = Result(pending[c].op)
  /\ ~Decodes(items'[pending[c].op.key])
  /\ Reply(c, Transport(FALSE))
  /\ UNCHANGED abandoned

\* The write happens and its reply is lost.
Take(c) ==
  /\ Open(c) /\ IsWrite(pending[c].op) /\ Permitted(pending[c].op)
  /\ items' = Result(pending[c].op)
  /\ pending' = [pending EXCEPT ![c] = Under(@.op, TRUE, @.refused)]
  /\ UNCHANGED <<answer, abandoned>>

\* A transaction that was sent again is recognised and not repeated.
Recognise(c) ==
  /\ Open(c) /\ pending[c].op.type = "transact" /\ pending[c].took
  /\ Reply(c, Ok(NoItem))
  /\ UNCHANGED <<items, abandoned>>

\* A refused write wrote nothing.
Refuse(c) ==
  /\ Open(c) /\ IsWrite(pending[c].op) /\ ~pending[c].took
  /\ ~Accepts(items, pending[c].op.ops)
  /\ Reply(c, Reason(pending[c].op))
  /\ UNCHANGED <<items, abandoned>>

\* An update is refused first and its reason looked up afterwards.
RefuseUpdate(c) ==
  /\ Open(c) /\ pending[c].op.type = "update" /\ ~pending[c].took
  /\ ~Accepts(items, pending[c].op.ops)
  /\ pending' = [pending EXCEPT ![c] = Under(@.op, FALSE, TRUE)]
  /\ UNCHANGED <<items, answer, abandoned>>

Explain(c) ==
  /\ Open(c) /\ pending[c].refused
  /\ \E reason \in {NotFound, ConditionFailed} : Reply(c, reason)
  /\ UNCHANGED <<items, abandoned>>

FailRetryable(c) ==
  /\ Open(c)
  /\ Reply(c, Transport(TRUE))
  /\ \/ abandoned' = abandoned
     \/ IsWrite(pending[c].op) /\ abandoned' = abandoned \cup {pending[c].op}
  /\ UNCHANGED items

\* A terminal error is the promise that the call wrote nothing.
FailTerminal(c) ==
  /\ Open(c) /\ ~pending[c].took
  /\ Reply(c, Transport(FALSE))
  /\ UNCHANGED <<items, abandoned>>

\* A put that took effect and was sent again: its condition fails by then,
\* because of its own effect or of a later write.
RefuseAgain(c) ==
  /\ Open(c) /\ pending[c].op.type = "put" /\ pending[c].took
  /\ ~Accepts(items, pending[c].op.ops)
  /\ Reply(c, ConditionFailed)
  /\ UNCHANGED <<items, abandoned>>

\* The same of an update, whose reason is looked up.
RefuseUpdateAgain(c) ==
  /\ Open(c) /\ pending[c].op.type = "update" /\ pending[c].took
  /\ ~Accepts(items, pending[c].op.ops)
  /\ pending' = [pending EXCEPT ![c] = Under(@.op, TRUE, TRUE)]
  /\ UNCHANGED <<items, answer, abandoned>>

\* A write that took effect and was sent again fails for good.
FailAgain(c) ==
  /\ Open(c) /\ IsWrite(pending[c].op) /\ pending[c].took
  /\ Reply(c, Transport(FALSE))
  /\ UNCHANGED <<items, abandoned>>

Arrive(op) ==
  /\ op \in abandoned
  /\ abandoned' = abandoned \ {op}
  /\ items' = IF Permitted(op) THEN Result(op) ELSE items
  /\ UNCHANGED <<pending, answer>>

Next ==
  \/ \E op \in abandoned : Arrive(op)
  \/ \E c \in Clients :
       \/ \E op \in Calls : Invoke(c, op)
       \/ Read(c) \/ List(c) \/ Succeed(c) \/ StoreUndecodable(c) \/ Take(c) \/ Recognise(c)
       \/ Refuse(c) \/ RefuseUpdate(c) \/ Explain(c) \/ FailRetryable(c) \/ FailTerminal(c)
       \/ RefuseAgain(c) \/ RefuseUpdateAgain(c) \/ FailAgain(c)

Spec == Init /\ [][Next]_vars
=============================================================================
