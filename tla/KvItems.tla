------------------------------ MODULE KvItems ------------------------------
(***************************************************************************)
(* Items, conditions and updates of a replicated key-value store           *)
(* (crates/cloud-types/src/replicated_kv.rs) and what each means: as the   *)
(* in-memory backend computes it (crates/cloud-memory) and as the requests *)
(* that crates/cloud-aws builds make DynamoDB compute it.                  *)
(*                                                                         *)
(* A value is a tagged pair: <<"U64", n>>, <<"String", s>> or <<"Map", f>> *)
(* with f a function from attribute names.  A key is the sequence of its   *)
(* characters, because the table splits it at its first slash.             *)
(***************************************************************************)
EXTENDS Naturals, Sequences, FiniteSets

CONSTANT MaxU64        \* u64::MAX

ASSUME MaxU64Assumption == MaxU64 \in Nat

Seqs == INSTANCE SequencesExt

NoItem == <<"none">>

U64(n) == <<"U64", n>>
Map(f) == <<"Map", f>>

IsMap(value) == value[1] = "Map"
IsU64(value) == value[1] = "U64"

\* Condition: NotExists, Exists and AttributeEquals.
NotExists == [type |-> "NotExists"]
Exists == [type |-> "Exists"]
AttributeEquals(attribute, expected) ==
  [type |-> "AttributeEquals", attribute |-> attribute, expected |-> expected]

\* UpdateAction: Set, Increment and Remove.
Set(attribute, value) == [type |-> "Set", attribute |-> attribute, value |-> value]
Increment(attribute, by) == [type |-> "Increment", attribute |-> attribute, by |-> by]
Remove(attribute) == [type |-> "Remove", attribute |-> attribute]

Ok(value) == [type |-> "Ok", value |-> value]
Listed(found) == [type |-> "Ok", list |-> found]
Unanswered == [type |-> "Unanswered"]

\* The calls of the trait.
get(key) == [type |-> "get", key |-> key, ops |-> <<>>]
put(key, value, conditions) ==
  [type |-> "put", key |-> key,
   ops |-> <<[type |-> "Put", key |-> key, value |-> value, conditions |-> conditions]>>]
atomic_update(key, expr, conditions) ==
  [type |-> "update", key |-> key,
   ops |-> <<[type |-> "Update", key |-> key, expr |-> expr, conditions |-> conditions]>>]
transact(ops) == [type |-> "transact", ops |-> ops]
query(prefix) == [type |-> "query", prefix |-> prefix, ops |-> <<>>]

IsWrite(op) == op.ops # <<>>

-----------------------------------------------------------------------------
(* The in-memory backend.                                                  *)

\* The whole value for the attribute "", an entry of a map otherwise.
attribute_value(value, attribute) ==
  IF attribute = "" THEN value
  ELSE IF IsMap(value) /\ attribute \in DOMAIN value[2] THEN value[2][attribute]
  ELSE NoItem

check_condition(value, c) ==
  \/ c.type = "NotExists" /\ value = NoItem
  \/ c.type = "Exists" /\ value # NoItem
  \/ c.type = "AttributeEquals" /\ attribute_value(value, c.attribute) = c.expected

check_conditions(value, conditions) ==
  \A i \in 1..Len(conditions) : check_condition(value, conditions[i])

\* The map f after one action, with actions applied one after the other.
AfterAction(f, action) ==
  CASE action.type = "Set" -> [a \in DOMAIN f \cup {action.attribute} |->
                                 IF a = action.attribute THEN action.value ELSE f[a]]
    [] action.type = "Increment" -> [f EXCEPT ![action.attribute] = U64(@[2] + action.by)]
    [] action.type = "Remove" -> [a \in DOMAIN f \ {action.attribute} |-> f[a]]

\* An Increment needs a U64 attribute and a sum that fits.
ActionApplies(f, action) ==
  action.type = "Increment" =>
    /\ action.attribute \in DOMAIN f /\ IsU64(f[action.attribute])
    /\ f[action.attribute][2] + action.by <= MaxU64

\* apply_update_actions: the map after all actions of expr, NoItem when the
\* item is no map or an action does not apply.
apply_update_actions(value, expr) ==
  LET after[i \in 0..Len(expr)] ==
        IF i = 0 THEN value
        ELSE IF after[i - 1] # NoItem /\ ActionApplies(after[i - 1][2], expr[i])
             THEN Map(AfterAction(after[i - 1][2], expr[i]))
             ELSE NoItem
  IN  IF IsMap(value) THEN after[Len(expr)] ELSE NoItem

\* Pass 1 of transact: op's conditions hold and it can be applied to value.
Validates(op, value) ==
  /\ check_conditions(value, op.conditions)
  /\ op.type = "Update" => value # NoItem /\ apply_update_actions(value, op.expr) # NoItem

\* What op writes over value: PlannedWrite.
Planned(op, value) ==
  CASE op.type = "Put" -> op.value
    [] op.type = "Update" -> apply_update_actions(value, op.expr)
    [] op.type = "Delete" -> NoItem
    [] op.type = "ConditionCheck" -> value

\* Pass 2 of transact: the planned writes one after the other, each computed
\* from the items before the transaction.
ApplyPlan(items, ops) ==
  LET after[i \in 0..Len(ops)] ==
        IF i = 0 THEN items
        ELSE IF ops[i].type = "ConditionCheck" THEN after[i - 1]
        ELSE [after[i - 1] EXCEPT ![ops[i].key] = Planned(ops[i], items[ops[i].key])]
  IN  after[Len(ops)]

\* One pass: the operations up to the first that does not validate.
ApplyPrefix(items, ops) ==
  LET valid == {n \in 0..Len(ops) : \A i \in 1..n : Validates(ops[i], items[ops[i].key])}
      longest == CHOOSE n \in valid : \A m \in valid : m <= n
  IN  ApplyPlan(items, SubSeq(ops, 1, longest))

Accepts(items, ops) == \A i \in 1..Len(ops) : Validates(ops[i], items[ops[i].key])

-----------------------------------------------------------------------------
(* DynamoDB.                                                               *)

FirstSlash(s) == CHOOSE i \in 1..Len(s) : s[i] = "/" /\ \A j \in 1..(i - 1) : s[j] # "/"

HasSlash(s) == "/" \in {s[i] : i \in 1..Len(s)}

\* str::split_once('/'): both halves, when there is a slash.
split_once(s) == <<SubSeq(s, 1, FirstSlash(s) - 1), SubSeq(s, FirstSlash(s) + 1, Len(s))>>

\* The key of an item that a query found.
render_key(pk, sk) == pk \o <<"/">> \o sk

\* split_key returns Ok.
Splits(key) == HasSlash(key) /\ split_once(key)[1] # <<>> /\ split_once(key)[2] # <<>>

\* What the path that ExprBuilder writes for an attribute finds in the item:
\* the reserved attribute as a whole, or an entry of the map it holds.
value_path(value, attribute) ==
  IF attribute = "" THEN value
  ELSE IF IsMap(value) /\ attribute \in DOMAIN value[2] THEN value[2][attribute]
  ELSE NoItem

\* condition_clause: attribute_exists(PK), attribute_not_exists(PK) or a path
\* into the reserved attribute that is equal to a value.
condition_clause(value, c) ==
  CASE c.type = "NotExists" -> value = NoItem
    [] c.type = "Exists" -> value # NoItem
    [] c.type = "AttributeEquals" -> value_path(value, c.attribute) = c.expected

conditions_clause(value, conditions) ==
  \A i \in 1..Len(conditions) : condition_clause(value, conditions[i])

\* update_clauses adds attribute_exists and attribute_type N for a target of
\* Increment; no range is checked.
IncrementGuard(value, expr) ==
  \A i \in 1..Len(expr) : expr[i].type = "Increment" =>
    IsU64(value_path(value, expr[i].attribute))

\* An update expression that leaves out attribute_exists(PK).
update_condition_expression_vivifying(value, expr, conditions) ==
  conditions_clause(value, conditions) /\ (value = NoItem \/ IncrementGuard(value, expr))

\* update_condition_expression: the item exists, the caller's conditions hold
\* and the guards of the increments do.
update_condition_expression(value, expr, conditions) ==
  value # NoItem /\ conditions_clause(value, conditions) /\ IncrementGuard(value, expr)

\* DynamoDB refuses an expression with two clauses for one path before it looks
\* at the item, and a path into a value that is no map when it applies it.
ExpressionParses(expr) ==
  \A i, j \in 1..Len(expr) : expr[i].attribute = expr[j].attribute => i = j

PathsValid(value, expr) == expr # <<>> => IsMap(value)

\* Every clause of an update expression reads the item before the update;
\* numbers have 38 digits and do not wrap.  Without actions update_clauses
\* sets a marker outside the value.
Updated(value, expr) ==
  LET action(a) == CHOOSE i \in 1..Len(expr) : expr[i].attribute = a
      named == {expr[i].attribute : i \in 1..Len(expr)}
      removed == {expr[i].attribute : i \in {j \in 1..Len(expr) : expr[j].type = "Remove"}}
  IN  IF expr = <<>> THEN value
      ELSE Map([a \in (DOMAIN value[2] \cup named) \ removed |->
                  IF a \notin named THEN value[2][a]
                  ELSE IF expr[action(a)].type = "Set" THEN expr[action(a)].value
                  ELSE U64(value[2][a][2] + expr[action(a)].by)])

\* The condition of one item of TransactWriteItems; a ConditionCheck without
\* conditions is built as a tautology.
ItemCondition(op, value) ==
  IF op.type = "Update" THEN update_condition_expression(value, op.expr, op.conditions)
  ELSE conditions_clause(value, op.conditions)

\* A request that is refused before any condition is looked at: a key that does
\* not split, two clauses for one path, two operations on one item.
RequestValid(ops) ==
  /\ \A i, j \in 1..Len(ops) : ops[i].key = ops[j].key => i = j
  /\ \A i \in 1..Len(ops) :
       Splits(ops[i].key) /\ (ops[i].type = "Update" => ExpressionParses(ops[i].expr))

ConditionsHold(items, ops) == \A i \in 1..Len(ops) : ItemCondition(ops[i], items[ops[i].key])

\* Every update of ops can be applied to its item.
Applicable(items, ops) ==
  \A i \in 1..Len(ops) : ops[i].type = "Update" => PathsValid(items[ops[i].key], ops[i].expr)

Transacted(items, ops) ==
  [k \in DOMAIN items |->
     IF \E i \in 1..Len(ops) : ops[i].key = k
     THEN LET op == ops[CHOOSE i \in 1..Len(ops) : ops[i].key = k]
          IN  IF op.type = "Update" THEN Updated(items[k], op.expr) ELSE Planned(op, items[k])
     ELSE items[k]]

\* decode_value: a stored number above u64::MAX is malformed.
Decodes(value) ==
  /\ IsU64(value) => value[2] \in 0..MaxU64
  /\ IsMap(value) => \A a \in DOMAIN value[2] :
       IsU64(value[2][a]) => value[2][a][2] \in 0..MaxU64

\* str::starts_with, as the in-memory backend's query uses it.
starts_with(key, prefix) == Seqs!IsPrefix(prefix, key)

\* The keys that DynamoDB selects for query(prefix): Query within the one
\* partition that a prefix with a slash pins, Scan by partition key otherwise.
Selected(keys, prefix) ==
  {k \in {k \in keys : Splits(k)} :
     IF HasSlash(prefix)
     THEN /\ split_once(k)[1] = split_once(prefix)[1]
          /\ Seqs!IsPrefix(split_once(prefix)[2], split_once(k)[2])
     ELSE Seqs!IsPrefix(prefix, split_once(k)[1])}
=============================================================================
