--------------------------- MODULE ReplicatedKv ---------------------------
(***************************************************************************)
(* The two implementations of the trait ReplicatedKv: the in-memory one    *)
(* (crates/cloud-memory/src/replicated_kv.rs), whose calls run under one   *)
(* lock, and the DynamoDB one (crates/cloud-aws/src/ddb_replicated_kv.rs), *)
(* whose calls are one or several requests to a table.                     *)
(*                                                                         *)
(* DynamoDB and the SDK are external: a request can fail before it is      *)
(* executed, its reply can get lost, the SDK can send it again, and one    *)
(* that the caller gave up on can still be executed.  A Scan is not a      *)
(* consistent read, so it is served from a copy that lags.                 *)
(***************************************************************************)
EXTENDS KvItems, AwsErrors

CONSTANTS Clients, Keys, Calls, InitialItems,
          Backends,    \* the implementations to check, of {"memory", "dynamodb"}
          MaxCalls,    \* calls in all
          MaxResends,  \* how often the SDK sends one request again
          Intact(_)    \* what the callers keep true of the table by whole calls

IsSequence(s) == s \in Seq({s[i] : i \in 1..Len(s)})

\* An action names an attribute of the item's map; a number that is written is
\* a u64.
ValidAction(action) ==
  /\ action.type \in {"Set", "Increment", "Remove"} /\ action.attribute # ""
  /\ action.type = "Set" /\ IsU64(action.value) => action.value[2] \in 0..MaxU64
  /\ action.type = "Increment" => action.by \in 0..MaxU64

ValidOperation(op) ==
  /\ op.type \in {"Put", "Update", "Delete", "ConditionCheck"} /\ op.key \in Keys
  /\ IsSequence(op.conditions)
  /\ \A i \in 1..Len(op.conditions) :
       op.conditions[i].type \in {"NotExists", "Exists", "AttributeEquals"}
  /\ op.type = "Put" => op.value # NoItem /\ Decodes(op.value)
  /\ op.type = "Update" => /\ IsSequence(op.expr)
                           /\ \A i \in 1..Len(op.expr) : ValidAction(op.expr[i])

ValidCall(op) ==
  /\ IsSequence(op.ops) /\ \A i \in 1..Len(op.ops) : ValidOperation(op.ops[i])
  /\ \/ op.type = "get" /\ op.key \in Keys /\ op.ops = <<>>
     \/ op.type = "query" /\ op.prefix \in Seq(STRING) /\ op.ops = <<>>
     \/ op.type = "put" /\ Len(op.ops) = 1 /\ op.ops[1].type = "Put" /\ op.ops[1].key = op.key
     \/ op.type = "update" /\ Len(op.ops) = 1 /\ op.ops[1].type = "Update" /\ op.ops[1].key = op.key
     \/ op.type = "transact" /\ op.ops # <<>>

ASSUME KvAssumption ==
  /\ Keys \subseteq Seq(STRING) /\ \A op \in Calls : ValidCall(op)
  /\ InitialItems = [k \in Keys |-> InitialItems[k]]
  /\ \A k \in Keys : /\ Decodes(InitialItems[k])
                     /\ InitialItems[k] # NoItem => Splits(k)
  /\ MaxCalls \in Nat /\ MaxResends \in Nat

VARIABLES backend,     \* the implementation in use
          items,       \* [Keys -> value or NoItem]: the map, or the table
          replica,     \* [Keys -> value or NoItem]: what a Scan reads
          call,        \* [Clients -> the call under way]
          answer,      \* [Clients -> the answer to the last call]
          late,        \* writes whose caller gave up, still on their way
          issued,      \* calls so far
          granted      \* what successful updates of one counter returned

vars == <<backend, items, replica, call, answer, late, issued, granted>>

NoCall == [phase |-> "idle"]

\* The call of a client that has one, in the phase given.
Phase(c) == call[c].phase
Op(c) == call[c].op

\* The keys a query must report while they have an item throughout.
Matching(op) ==
  IF op.type # "query" THEN {}
  ELSE {k \in Keys : /\ starts_with(k, op.prefix) /\ items[k] # NoItem
                     /\ HasSlash(op.prefix) \/ replica[k] # NoItem}

\* rest: the keys the pages of a query have yet to evaluate.
Called(op) ==
  [phase |-> "sent", op |-> op, resends |-> 0, took |-> FALSE,
   rest |-> IF op.type = "query" THEN Selected(Keys, op.prefix) ELSE {},
   found |-> {}, stable |-> Matching(op)]

Init ==
  /\ backend \in Backends
  /\ items = InitialItems /\ replica = InitialItems
  /\ call = [c \in Clients |-> NoCall]
  /\ answer = [c \in Clients |-> Unanswered]
  /\ late = {} /\ issued = 0 /\ granted = <<>>

Invoke(c, op) ==
  /\ Phase(c) = "idle" /\ issued < MaxCalls
  /\ issued' = issued + 1
  /\ call' = [call EXCEPT ![c] = Called(op)]
  /\ answer' = [answer EXCEPT ![c] = Unanswered]
  /\ UNCHANGED <<backend, items, replica, late, granted>>

\* The calls under way when the table becomes table: a key that is gone is no
\* longer one a query must report.
Seeing(calls, table, copy) ==
  [c \in Clients |->
     IF calls[c].phase = "idle" THEN calls[c]
     ELSE [calls[c] EXCEPT !.stable = {k \in @ : /\ table[k] # NoItem
                                                 /\ HasSlash(calls[c].op.prefix)
                                                    \/ copy[k] # NoItem}]]

Answer(c, result) ==
  /\ call' = Seeing([call EXCEPT ![c] = NoCall], items', replica')
  /\ answer' = [answer EXCEPT ![c] = result]
  /\ UNCHANGED <<backend, late, issued>>

\* An update that allocates from a counter, and the counter's attribute.
Allocates(op) ==
  op.type = "update" /\ op.ops[1].expr # <<>> /\ op.ops[1].expr[1].type = "Increment"

Counter(op) == op.ops[1].expr[1].attribute

Granted(c, result) ==
  granted' = IF Allocates(Op(c)) /\ result.type = "Ok"
             THEN Append(granted, <<Op(c).key, result.value[2][Counter(Op(c))]>>)
             ELSE granted

Sent(c, type) == Phase(c) = "sent" /\ Op(c).type = type

-----------------------------------------------------------------------------
(* The in-memory backend: every call is one critical section.              *)

MemoryGet(c) ==
  /\ backend = "memory" /\ Sent(c, "get")
  /\ UNCHANGED <<items, replica, granted>>
  /\ Answer(c, IF items[Op(c).key] = NoItem THEN NotFound ELSE Ok(items[Op(c).key]))

MemoryPut(c) ==
  /\ backend = "memory" /\ Sent(c, "put")
  /\ UNCHANGED <<replica, granted>>
  /\ LET op == Op(c).ops[1]
     IN  \/ /\ ~check_conditions(items[op.key], op.conditions)
            /\ items' = items /\ Answer(c, ConditionFailed)
         \/ /\ check_conditions(items[op.key], op.conditions)
            /\ items' = [items EXCEPT ![op.key] = op.value] /\ Answer(c, Ok(NoItem))

\* A missing item is NotFound whatever the conditions are.
MemoryAtomicUpdate(c) ==
  /\ backend = "memory" /\ Sent(c, "update")
  /\ UNCHANGED replica
  /\ LET op == Op(c).ops[1]
         updated == apply_update_actions(items[op.key], op.expr)
     IN  \/ /\ items[op.key] = NoItem
            /\ items' = items /\ Answer(c, NotFound) /\ UNCHANGED granted
         \/ /\ items[op.key] # NoItem
            /\ ~check_conditions(items[op.key], op.conditions) \/ updated = NoItem
            /\ items' = items /\ Answer(c, ConditionFailed) /\ UNCHANGED granted
         \/ /\ items[op.key] # NoItem
            /\ check_conditions(items[op.key], op.conditions) /\ updated # NoItem
            /\ items' = [items EXCEPT ![op.key] = updated]
            /\ Answer(c, Ok(updated)) /\ Granted(c, Ok(updated))

\* Each operation is applied as soon as it is validated.
MemoryTransact_one_pass(c) ==
  /\ backend = "memory" /\ Sent(c, "transact")
  /\ UNCHANGED <<replica, granted>>
  /\ items' = ApplyPrefix(items, Op(c).ops)
  /\ Answer(c, IF Accepts(items, Op(c).ops) THEN Ok(NoItem) ELSE ConditionFailed)

\* Validate everything against the items before, then apply everything.
MemoryTransact(c) ==
  /\ backend = "memory" /\ Sent(c, "transact")
  /\ UNCHANGED <<replica, granted>>
  /\ \/ ~Accepts(items, Op(c).ops) /\ items' = items /\ Answer(c, ConditionFailed)
     \/ /\ Accepts(items, Op(c).ops)
        /\ items' = ApplyPlan(items, Op(c).ops) /\ Answer(c, Ok(NoItem))

MemoryQuery(c) ==
  /\ backend = "memory" /\ Sent(c, "query")
  /\ UNCHANGED <<items, replica, granted>>
  /\ Answer(c, Listed({<<k, items[k]>> : k \in {k \in Keys : /\ items[k] # NoItem
                                                              /\ starts_with(k, Op(c).prefix)}}))

-----------------------------------------------------------------------------
(* The DynamoDB backend.                                                   *)

Dynamo == backend = "dynamodb"

\* Errors the service reports instead of executing a request.
Refusals(op) ==
  {ServiceError("ProvisionedThroughputExceededException", 400),
   ServiceError("AccessDeniedException", 400)}
  \cup IF op.type = "transact" THEN {ServiceError("TransactionCanceledException", 400)} ELSE {}

\* Errors that leave open whether the request was executed.
Unknowns ==
  {SdkFailure("TimeoutError"), ServiceError("InternalServerError", 500)}

\* How each operation maps an error that is no failed condition; reasons are
\* those of a cancelled transaction.
MapError(op, err, reasons) ==
  CASE op.type = "put" -> map_put_item_error(err)
    [] op.type = "transact" -> map_transact_write_items_error(err, reasons)
    [] OTHER -> ddb_generic_error(err)

\* split_key fails for a key of the call, or a query pins the partition "".
Malformed(op) ==
  CASE op.type = "get" -> ~Splits(op.key)
    [] op.type = "query" -> HasSlash(op.prefix) /\ split_once(op.prefix)[1] = <<>>
    [] OTHER -> ~RequestValid(op.ops)

\* The error comes from split_key, or from the service as a ValidationException.
RejectMalformed(c) ==
  /\ Dynamo /\ Phase(c) = "sent" /\ Malformed(Op(c))
  /\ UNCHANGED <<items, replica, granted>>
  /\ Answer(c, MapError(Op(c), ServiceError("ValidationException", 400), {}))

\* get: a strongly consistent GetItem.
Got(key) ==
  IF items[key] = NoItem THEN NotFound
  ELSE IF Decodes(items[key]) THEN Ok(items[key]) ELSE Transport(FALSE)

GetItem(c) ==
  /\ Dynamo /\ Sent(c, "get") /\ ~Malformed(Op(c))
  /\ UNCHANGED <<items, replica, granted>>
  /\ Answer(c, Got(Op(c).key))

\* A write request that reached the table.
Executes(c) ==
  Dynamo /\ Phase(c) = "sent" /\ IsWrite(Op(c)) /\ ~Malformed(Op(c))

\* TransactWriteItems carries a token, by which a repetition is recognised.
Repeated(c) == call[c].took /\ Op(c).type = "transact"

\* PutItem or TransactWriteItems whose condition expression is false.
ConditionalCheckFailed(c) ==
  /\ Executes(c) /\ ~Repeated(c) /\ Op(c).type # "update" /\ ~ConditionsHold(items, Op(c).ops)
  /\ UNCHANGED <<items, replica, granted>>
  /\ Answer(c, MapError(Op(c),
                 ServiceError(IF Op(c).type = "put" THEN "ConditionalCheckFailedException"
                              ELSE "TransactionCanceledException", 400),
                 {"ConditionalCheckFailed"}))

\* UpdateItem whose condition expression is false: the reason is looked up.
UpdateConditionFailed(c) ==
  /\ Executes(c) /\ Op(c).type = "update" /\ ~ConditionsHold(items, Op(c).ops)
  /\ call' = [call EXCEPT ![c].phase = "refused"]
  /\ UNCHANGED <<backend, items, replica, answer, late, issued, granted>>

\* The follow-up get that tells NotFound from ConditionFailed.
ClassifyRefusal(c) ==
  /\ Dynamo /\ Phase(c) = "refused"
  /\ UNCHANGED <<items, replica, granted>>
  /\ Answer(c, LET got == Got(Op(c).key) IN IF got.type = "Ok" THEN ConditionFailed ELSE got)

InvalidPath(c) ==
  /\ Executes(c) /\ ~Repeated(c)
  /\ ConditionsHold(items, Op(c).ops) /\ ~Applicable(items, Op(c).ops)
  /\ UNCHANGED <<items, replica, granted>>
  /\ Answer(c, MapError(Op(c), ServiceError("ValidationException", 400), {"ValidationError"}))

\* The success answer read back by an eventually consistent GetItem.
UpdateResult_reread(c, table) == Ok(replica[Op(c).key])

\* ReturnValues ALL_NEW: the item that this very request wrote.
UpdateResult(c, table) ==
  IF Decodes(table[Op(c).key]) THEN Ok(table[Op(c).key]) ELSE Transport(FALSE)

\* The request takes effect and its reply arrives.
ExecuteWrite(c) ==
  /\ Executes(c) /\ ~Repeated(c)
  /\ ConditionsHold(items, Op(c).ops) /\ Applicable(items, Op(c).ops)
  /\ items' = Transacted(items, Op(c).ops)
  /\ UNCHANGED replica
  /\ LET result == IF Op(c).type = "update" THEN UpdateResult(c, items') ELSE Ok(NoItem)
     IN  Answer(c, result) /\ Granted(c, result)

RepeatTransaction(c) ==
  /\ Executes(c) /\ Repeated(c)
  /\ UNCHANGED <<items, replica, granted>>
  /\ Answer(c, Ok(NoItem))

\* The call of a write that took effect and has no answer.
Unreplied(r) ==
  [phase |-> "lost", op |-> r.op, resends |-> r.resends, took |-> TRUE,
   rest |-> {}, found |-> {}, stable |-> {}]

\* The request takes effect and its reply is lost.
LoseReply(c) ==
  /\ Executes(c) /\ ~Repeated(c)
  /\ ConditionsHold(items, Op(c).ops) /\ Applicable(items, Op(c).ops)
  /\ items' = Transacted(items, Op(c).ops)
  /\ call' = Seeing([call EXCEPT ![c] = Unreplied(@)], items', replica)
  /\ UNCHANGED <<backend, replica, answer, late, issued, granted>>

\* The SDK's retry of a request without an answer.
Resend(c) ==
  /\ Dynamo /\ Phase(c) = "lost" /\ call[c].resends < MaxResends
  /\ call' = [call EXCEPT ![c].phase = "sent", ![c].resends = @ + 1]
  /\ UNCHANGED <<backend, items, replica, answer, late, issued, granted>>

\* No answer: the request was executed, was not, or still will be.
GiveUp(c, err) ==
  /\ Dynamo /\ Phase(c) \in {"sent", "lost", "refused"} /\ ~Malformed(Op(c))
  /\ UNCHANGED <<items, replica, granted, backend, issued>>
  /\ call' = [call EXCEPT ![c] = NoCall]
  /\ answer' = [answer EXCEPT ![c] = MapError(Op(c), err, {})]
  /\ \/ late' = late
     \/ Phase(c) = "sent" /\ IsWrite(Op(c)) /\ late' = late \cup {Op(c)}

\* The service refuses to execute the request: the first, one that is sent again
\* although it was executed before, or the follow-up get of a refused update.
ServiceRefuses(c, err) ==
  /\ Dynamo /\ Phase(c) \in {"sent", "refused"} /\ ~Malformed(Op(c))
  /\ UNCHANGED <<items, replica, granted>>
  /\ Answer(c, MapError(Op(c), err, {"TransactionConflict"}))

\* A request whose caller is gone is executed.
LateWrite(op) ==
  /\ op \in late
  /\ late' = late \ {op}
  /\ items' = IF ConditionsHold(items, op.ops) /\ Applicable(items, op.ops)
              THEN Transacted(items, op.ops) ELSE items
  /\ call' = Seeing(call, items', replica)
  /\ UNCHANGED <<backend, replica, answer, issued, granted>>

\* What a page of query reads: the table for Query, the lagging copy for Scan.
PageSource(op) == IF HasSlash(op.prefix) THEN items ELSE replica

\* The loop over LastEvaluatedKey: one page with one key, in any order.
QueryPage(c, k) ==
  /\ Dynamo /\ Sent(c, "query") /\ ~Malformed(Op(c)) /\ k \in call[c].rest
  /\ LET value == PageSource(Op(c))[k]
         seen == IF value = NoItem THEN {}
                 ELSE {<<render_key(split_once(k)[1], split_once(k)[2]), value>>}
     IN  IF value # NoItem /\ ~Decodes(value)
         THEN UNCHANGED <<items, replica, granted>> /\ Answer(c, Transport(FALSE))
         ELSE /\ call' = [call EXCEPT ![c].rest = @ \ {k}, ![c].found = @ \cup seen]
              /\ UNCHANGED <<backend, items, replica, answer, late, issued, granted>>

\* The loop ends after its first page.
Drained_first_page(c) == call[c].found # {} \/ call[c].rest = {}

\* No LastEvaluatedKey is left.
Drained(c) == call[c].rest = {}

QueryEnd(c) ==
  /\ Dynamo /\ Sent(c, "query") /\ ~Malformed(Op(c)) /\ Drained(c)
  /\ UNCHANGED <<items, replica, granted>>
  /\ Answer(c, Listed(call[c].found))

\* The copy that scans read catches up with one item.
Replicate(k) ==
  /\ Dynamo /\ replica[k] # items[k]
  /\ replica' = [replica EXCEPT ![k] = items[k]]
  /\ call' = Seeing(call, items, replica')
  /\ UNCHANGED <<backend, items, answer, late, issued, granted>>

-----------------------------------------------------------------------------
Next ==
  \/ \E op \in late : LateWrite(op)
  \/ \E k \in Keys : Replicate(k)
  \/ \E c \in Clients :
       \/ \E op \in Calls : Invoke(c, op)
       \/ MemoryGet(c) \/ MemoryPut(c) \/ MemoryAtomicUpdate(c) \/ MemoryTransact(c)
       \/ MemoryQuery(c)
       \/ RejectMalformed(c) \/ GetItem(c) \/ ConditionalCheckFailed(c)
       \/ UpdateConditionFailed(c) \/ ClassifyRefusal(c) \/ InvalidPath(c)
       \/ ExecuteWrite(c) \/ RepeatTransaction(c) \/ LoseReply(c) \/ Resend(c)
       \/ \E err \in Unknowns : GiveUp(c, err)
       \/ Phase(c) # "idle" /\ \E err \in Refusals(Op(c)) : ServiceRefuses(c, err)
       \/ \E k \in Keys : QueryPage(c, k)
       \/ QueryEnd(c)

Spec == Init /\ [][Next]_vars

-----------------------------------------------------------------------------
\* The numbers of an answer.
Returned(result) ==
  IF result.type # "Ok" THEN {}
  ELSE IF "list" \in DOMAIN result THEN {pair[2] : pair \in result.list} ELSE {result.value}

\* The variables have their types; in particular every number a caller is told
\* is a u64, although the table stores sums that are not (decode_value).
TypeOK ==
  /\ backend \in Backends /\ issued \in 0..MaxCalls
  /\ DOMAIN items = Keys /\ DOMAIN replica = Keys
  /\ \A c \in Clients :
       /\ Phase(c) \in {"idle", "sent", "lost", "refused"}
       /\ Phase(c) # "idle" => Op(c) \in Calls /\ call[c].resends \in 0..MaxResends
  /\ \A c \in Clients : \A value \in Returned(answer[c]) : Decodes(value)
  /\ late \subseteq Calls

\* Index allocation by Increment: no two successful updates are told the same
\* counter value, although requests are repeated, executed late and answered
\* with errors (read-back and update are one step: ReturnValues ALL_NEW).
AllocationsDisjoint == \A i, j \in DOMAIN granted : granted[i] = granted[j] => i = j

\* What the callers of a counter must keep to: an item with a counter is put only
\* where there is none and not deleted, the counter is only ever incremented, and
\* an item has one.
OnlyCounts(op, attribute) ==
  \/ op.type = "Put" /\ \E i \in 1..Len(op.conditions) : op.conditions[i].type = "NotExists"
  \/ op.type = "ConditionCheck"
  \/ /\ op.type = "Update"
     /\ \A j \in 1..Len(op.expr) : op.expr[j].attribute = attribute =>
          op.expr[j].type = "Increment" /\ op.expr[j].by > 0

CountersOnlyCount ==
  \A op, other \in Calls : Allocates(op) =>
    /\ \A i \in 1..Len(other.ops) :
         other.ops[i].key = op.key => OnlyCounts(other.ops[i], Counter(op))
    /\ Allocates(other) /\ other.key = op.key => Counter(other) = Counter(op)

\* Whatever every call keeps true of the table by its operations together stays
\* true in every state, for other callers too: the operations of a transaction
\* are never seen apart, whatever fails, is repeated or arrives late (transact
\* validates everything first, TransactWriteItems is one request).
TableStaysIntact == Intact(items)

\* op, executed on table as a whole by either backend, leaves it intact.
KeepsIntact(op, table) ==
  /\ Accepts(table, op.ops) => Intact(ApplyPlan(table, op.ops))
  /\ RequestValid(op.ops) /\ ConditionsHold(table, op.ops) /\ Applicable(table, op.ops)
       => Intact(Transacted(table, op.ops))

\* Types, with every value that was returned decodable, and disjoint allocations.
StoreInv == TypeOK /\ AllocationsDisjoint

\* A query reports every item that matches its prefix and exists throughout the
\* call (for a Scan: also in the copy it reads), although it is read in pages
\* and the keys are chosen by partition and sort key instead of by prefix.
QueryMissesNothing ==
  [][\A c \in Clients :
       Phase(c) = "sent" /\ Op(c).type = "query" /\ answer'[c].type = "Ok"
         => call[c].stable \subseteq {pair[1] : pair \in answer'[c].list}]_vars

Abstract(c) ==
  IF Phase(c) = "idle" THEN [open |-> FALSE]
  ELSE [open |-> TRUE, op |-> Op(c), took |-> call[c].took, refused |-> Phase(c) = "refused"]

Contract == INSTANCE KvContract WITH
  pending <- [c \in Clients |-> Abstract(c)], abandoned <- late

\* Both backends keep the contract of the trait (KvContract): one answer for one
\* effect, and what an error promises, with the exceptions that are named there
\* for a write that the SDK sent again.
ImplementsContract == Contract!Spec
=============================================================================
