-------------------------- MODULE MCReplicatedKv --------------------------
(* A small table: a counter with an epoch, a pointer that moves with the   *)
(* epoch in one transaction, an item that is a map at times, and a key     *)
(* that DynamoDB cannot hold.                                              *)
EXTENDS ReplicatedKv
LOCAL INSTANCE TLC

counter == <<"l", "/", "c">>
pointer == <<"l", "/", "p">>
scalar == <<"l", "x", "/", "s">>
flat == <<"f">>

MCKeys == {counter, pointer, scalar, flat}

MCInitialItems ==
  [k \in MCKeys |->
     CASE k = counter -> Map([n |-> U64(0), e |-> U64(1)])
       [] k \in {pointer, flat} -> NoItem
       [] k = scalar -> U64(1)]

Epoch(e) == AttributeEquals("e", U64(e))

\* The epoch and the pointer change together.
Publish ==
  transact(<<[type |-> "Put", key |-> pointer, value |-> Map([t |-> U64(2)]), conditions |-> <<NotExists>>],
             [type |-> "Update", key |-> counter, expr |-> <<Set("e", U64(2))>>,
              conditions |-> <<Exists, Epoch(1), AttributeEquals("n", U64(0))>>]>>)

Retract ==
  transact(<<[type |-> "Delete", key |-> pointer, conditions |-> <<Exists>>],
             [type |-> "Update", key |-> counter,
              expr |-> <<Set("e", U64(1)), Remove("x")>>, conditions |-> <<>>],
             [type |-> "ConditionCheck", key |-> scalar, conditions |-> <<Exists>>]>>)

MCCalls ==
  { get(counter), get(flat),
    atomic_update(counter, <<Increment("n", 1)>>, <<Epoch(1)>>),
    atomic_update(counter, <<Increment("n", 3), Set("x", U64(0))>>, <<>>),
    atomic_update(pointer, <<>>, <<>>),
    atomic_update(scalar, <<>>, <<>>),
    atomic_update(scalar, <<Set("n", U64(1))>>, <<>>),
    put(scalar, Map([n |-> U64(0)]), <<AttributeEquals("", U64(1))>>),
    put(scalar, U64(1), <<AttributeEquals("n", U64(1))>>),
    Publish, Retract,
    query(<<"l", "/">>), query(<<"l">>) }

ASSUME MCCountersOnlyCount == CountersOnlyCount

\* The pointer exists exactly when the epoch has moved.
PointerMovesWithEpoch(table) ==
  (table[pointer] # NoItem) <=> (attribute_value(table[counter], "e") = U64(2))

\* Tables with a counter of either epoch, or without one, and all the rest.
MCTables ==
  {table \in [MCKeys -> {NoItem, U64(1), Map([t |-> U64(2)])}
                        \cup {Map([n |-> U64(n), e |-> U64(e)]) : n \in 0..1, e \in 1..2}] :
     table[flat] = NoItem}

\* The calls move the pointer and the epoch together, one at a time they do not.
ASSUME MCCallsKeepIntact ==
  /\ Intact(MCInitialItems)
  /\ \A op \in MCCalls, table \in MCTables :
       IsWrite(op) /\ Intact(table) => KeepsIntact(op, table)
  /\ ~KeepsIntact([Publish EXCEPT !.ops = SubSeq(@, 1, 1)], MCInitialItems)

ClientSymmetry == Permutations(Clients)
=============================================================================
