------------------------------ MODULE KvProofs ------------------------------
(***************************************************************************)
(* Proofs about ReplicatedKv: both backends keep the contract of the trait, *)
(* for any keys, callers, calls, width of numbers and number of resends.   *)
(***************************************************************************)
EXTENDS ReplicatedKv, TLAPS, FiniteSetTheorems, SequenceTheorems, WellFoundedInduction

---------------------------------------------------------------------------
(* Induction over the natural numbers, for sets. *)

\* The order on Nat is well founded (the recursion over the actions of an update
\* and the operations of a transaction, and the first slash of a key, rest on it).
LEMMA NatWellFounded ==
  IsWellFoundedOn({ss \in Nat \X Nat : ss[1] < ss[2]}, Nat)
  BY NatLessThanWellFounded DEF OpToRel

\* A set of natural numbers has a least member: where split_once splits.
LEMMA LeastNat ==
  ASSUME NEW S \in SUBSET Nat, S # {}
  PROVE  \E x \in S : \A y \in S : x <= y
<1>1. PICK x \in S : \A y \in S : ~ (<<y, x>> \in {ss \in Nat \X Nat : ss[1] < ss[2]})
  BY NatWellFounded, WFMin
<1>2. ASSUME NEW y \in S PROVE x <= y
  <2>1. ~ (<<y, x>> \in {ss \in Nat \X Nat : ss[1] < ss[2]})
    BY <1>1
  <2>2. <<y, x>> \in Nat \X Nat /\ <<y, x>>[1] = y /\ <<y, x>>[2] = x
    OBVIOUS
  <2> QED BY <2>1, <2>2
<1> QED BY <1>2

\* Induction with the hypothesis as a set: the loops of apply_update_actions and
\* transact.
LEMMA SetInduction ==
  ASSUME NEW S, 0 \in S, \A n \in Nat : n \in S => n + 1 \in S
  PROVE  Nat \subseteq S
<1> SUFFICES ASSUME NEW m \in Nat, m \notin S PROVE FALSE
  OBVIOUS
<1>1. PICK x \in Nat \ S : \A y \in Nat \ S : x <= y
  BY LeastNat
<1>2. x # 0 /\ x - 1 \in Nat /\ (x - 1) + 1 = x
  OBVIOUS
<1>3. x - 1 \in S
  BY <1>1, <1>2
<1> QED BY <1>2, <1>3

---------------------------------------------------------------------------
(* Updates: in memory one action after the other, on DynamoDB all at once. *)

\* Two maps are the same but for the attributes in S.
SameOutside(g, f, S) ==
  \A a : a \notin S => /\ a \in DOMAIN g <=> a \in DOMAIN f
                       /\ a \in DOMAIN g => g[a] = f[a]

\* The map g is the map f after the first n actions of expr, each of which read
\* what f has.
Agrees(g, f, expr, n) ==
  /\ SameOutside(g, f, {expr[j].attribute : j \in 1..n})
  /\ \A j \in 1..n :
       LET a == expr[j].attribute
       IN  /\ a \in DOMAIN g <=> expr[j].type # "Remove"
           /\ expr[j].type = "Set" => g[a] = expr[j].value
           /\ expr[j].type = "Increment" => g[a] = U64(f[a][2] + expr[j].by)

ActionsValid(expr) ==
  /\ Len(expr) \in Nat /\ ExpressionParses(expr)
  /\ \A j \in 1..Len(expr) : expr[j].type \in {"Set", "Increment", "Remove"}

\* Where no two actions share an attribute, the order in which
\* apply_update_actions applies them does not matter: the next action finds its
\* attribute as it was before the update.
LEMMA NextAction ==
  ASSUME NEW g, NEW f, NEW expr, ActionsValid(expr), NEW n \in Nat, n < Len(expr), Agrees(g, f, expr, n)
  PROVE  /\ ActionApplies(g, expr[n + 1]) <=> ActionApplies(f, expr[n + 1])
         /\ ActionApplies(f, expr[n + 1]) => Agrees(AfterAction(g, expr[n + 1]), f, expr, n + 1)
<1> DEFINE named == {expr[j].attribute : j \in 1..n}
           act == expr[n + 1]
           a0 == act.attribute
<1>1. n + 1 \in 1..Len(expr) /\ \A j \in 1..n : j \in 1..Len(expr) /\ j # n + 1
  BY DEF ActionsValid
<1>2. a0 \notin named
  BY <1>1 DEF ActionsValid, ExpressionParses
<1>9. \A a : a \notin named => (a \in DOMAIN g <=> a \in DOMAIN f) /\ (a \in DOMAIN g => g[a] = f[a])
  <2>1. SameOutside(g, f, named)
    BY DEF Agrees
  <2> HIDE DEF named
  <2> QED BY <2>1 DEF SameOutside
<1>3. (a0 \in DOMAIN g <=> a0 \in DOMAIN f) /\ (a0 \in DOMAIN g => g[a0] = f[a0])
  <2> HIDE DEF named, a0
  <2> QED BY <1>2, <1>9
<1>4. ActionApplies(g, act) <=> ActionApplies(f, act)
  BY <1>3 DEF ActionApplies
<1>5. ASSUME ActionApplies(f, act) PROVE Agrees(AfterAction(g, act), f, expr, n + 1)
  <2> DEFINE h == AfterAction(g, act)
  <2>1. act.type \in {"Set", "Increment", "Remove"}
    BY <1>1 DEF ActionsValid
  <2>2. /\ \A a : a # a0 => (a \in DOMAIN h <=> a \in DOMAIN g) /\ (a \in DOMAIN g => h[a] = g[a])
        /\ a0 \in DOMAIN h <=> act.type # "Remove"
        /\ act.type = "Set" => h[a0] = act.value
        /\ act.type = "Increment" => h[a0] = U64(f[a0][2] + act.by)
    <3>1. CASE act.type = "Set"
      <4>1. h = [a \in DOMAIN g \cup {a0} |-> IF a = a0 THEN act.value ELSE g[a]]
        BY <3>1 DEF AfterAction
      <4> QED BY <3>1, <4>1
    <3>2. CASE act.type = "Increment"
      <4>1. h = [g EXCEPT ![a0] = U64(g[a0][2] + act.by)]
        BY <3>2 DEF AfterAction
      <4>2. a0 \in DOMAIN g
        BY <1>3, <1>5, <3>2 DEF ActionApplies
      <4> QED BY <1>3, <3>2, <4>1, <4>2
    <3>3. CASE act.type = "Remove"
      <4>1. h = [a \in DOMAIN g \ {a0} |-> g[a]]
        BY <3>3 DEF AfterAction
      <4> QED BY <3>3, <4>1
    <3> QED BY <2>1, <3>1, <3>2, <3>3
  <2> HIDE DEF h
  <2>3. \A j \in 1..(n + 1) : j \in 1..n \/ j = n + 1
    OBVIOUS
  <2>4. \A j \in 1..n : j \in 1..(n + 1) /\ expr[j].attribute # a0
    BY <1>2
  <2>5. \A a : a \notin {expr[j].attribute : j \in 1..(n + 1)} => a # a0 /\ a \notin named
    BY <2>4
  <2>6. \A a : a \notin {expr[j].attribute : j \in 1..(n + 1)} =>
          (a \in DOMAIN h <=> a \in DOMAIN f) /\ (a \in DOMAIN h => h[a] = f[a])
    <3> SUFFICES ASSUME NEW a, a \notin {expr[j].attribute : j \in 1..(n + 1)}
                 PROVE  (a \in DOMAIN h <=> a \in DOMAIN f) /\ (a \in DOMAIN h => h[a] = f[a])
      OBVIOUS
    <3>1. a # a0 /\ a \notin named
      BY <2>5
    <3>2. (a \in DOMAIN g <=> a \in DOMAIN f) /\ (a \in DOMAIN g => g[a] = f[a])
      <4> HIDE DEF named
      <4> QED BY <1>9, <3>1
    <3> QED BY <2>2, <3>1, <3>2
  <2>7. ASSUME NEW j \in 1..(n + 1)
        PROVE  LET a == expr[j].attribute
               IN  /\ a \in DOMAIN h <=> expr[j].type # "Remove"
                   /\ expr[j].type = "Set" => h[a] = expr[j].value
                   /\ expr[j].type = "Increment" => h[a] = U64(f[a][2] + expr[j].by)
    <3>1. CASE j = n + 1
      BY <2>2, <3>1
    <3>2. CASE j \in 1..n
      <4>1. PICK a : a = expr[j].attribute
        OBVIOUS
      <4>2. /\ a \in DOMAIN g <=> expr[j].type # "Remove"
            /\ expr[j].type = "Set" => g[a] = expr[j].value
            /\ expr[j].type = "Increment" => g[a] = U64(f[a][2] + expr[j].by)
        BY <3>2, <4>1 DEF Agrees
      <4>3. a # a0
        BY <2>4, <3>2, <4>1
      <4>4. (a \in DOMAIN h <=> a \in DOMAIN g) /\ (a \in DOMAIN g => h[a] = g[a])
        BY <2>2, <4>3
      <4> QED BY <4>1, <4>2, <4>4
    <3> QED BY <2>3, <3>1, <3>2
  <2>8. SameOutside(h, f, {expr[j].attribute : j \in 1..(n + 1)})
    BY <2>6 DEF SameOutside
  <2> QED BY <2>7, <2>8 DEF Agrees, h
<1> QED BY <1>4, <1>5

\* The loop of apply_update_actions, as the function it computes.
Loop(value, expr, f) ==
  /\ f = [i \in 0..Len(expr) |->
            IF i = 0 THEN value
            ELSE IF f[i - 1] # NoItem /\ ActionApplies(f[i - 1][2], expr[i])
                 THEN Map(AfterAction(f[i - 1][2], expr[i]))
                 ELSE NoItem]
  /\ apply_update_actions(value, expr) = IF IsMap(value) THEN f[Len(expr)] ELSE NoItem

\* The loop of apply_update_actions ends with one result.
LEMMA LoopExists ==
  ASSUME NEW value, NEW expr, Len(expr) \in Nat
  PROVE  \E f : Loop(value, expr, f)
<1> DEFINE N == Len(expr)
           step(x, i) == IF x # NoItem /\ ActionApplies(x[2], expr[i])
                         THEN Map(AfterAction(x[2], expr[i])) ELSE NoItem
           rec(f, m) == [i \in 0..m |-> IF i = 0 THEN value ELSE step(f[i - 1], i)]
           S == {m \in Nat : \E f : f = rec(f, m)}
<1> HIDE DEF step
<1>1. 0 \in S
  <2>1. PICK f : f = [i \in 0..0 |-> value]
    OBVIOUS
  <2>2. f = rec(f, 0)
    BY <2>1
  <2> QED BY <2>2
<1>2. ASSUME NEW m \in Nat, m \in S PROVE m + 1 \in S
  <2>1. PICK f : f = rec(f, m)
    BY <1>2
  <2>2. PICK g : g = [i \in 0..(m + 1) |-> IF i <= m THEN f[i] ELSE step(f[m], m + 1)]
    OBVIOUS
  <2>3. (\A i \in 0..m : g[i] = f[i]) /\ g[m + 1] = step(f[m], m + 1)
    BY <2>2
  <2>4. \A i \in 0..m : f[i] = IF i = 0 THEN value ELSE step(f[i - 1], i)
    BY <2>1
  <2>5. ASSUME NEW i \in 0..(m + 1) PROVE g[i] = IF i = 0 THEN value ELSE step(g[i - 1], i)
    <3>1. CASE i = 0
      <4>1. 0 \in 0..m
        OBVIOUS
      <4>2. g[0] = f[0] /\ f[0] = value
        BY <2>3, <2>4, <4>1
      <4> QED BY <3>1, <4>2
    <3>2. CASE i \in 1..m
      <4>1. i \in 0..m /\ i - 1 \in 0..m /\ i # 0
        BY <3>2
      <4> QED BY <2>3, <2>4, <4>1
    <3>3. CASE i = m + 1
      <4>1. i # 0 /\ i - 1 = m /\ m \in 0..m
        BY <3>3
      <4> QED BY <2>3, <3>3, <4>1
    <3> QED BY <3>1, <3>2, <3>3
  <2>6. g = rec(g, m + 1)
    BY <2>2, <2>5
  <2> QED BY <2>6
<1>3. \E f : f = rec(f, N)
  BY <1>1, <1>2, SetInduction
<1>4. PICK f : f = (CHOOSE f_1 : f_1 = rec(f_1, N))
  OBVIOUS
<1>5. f = rec(f, N)
  BY <1>3, <1>4
<1>6. apply_update_actions(value, expr) = IF IsMap(value) THEN f[N] ELSE NoItem
  BY <1>4 DEF apply_update_actions, step
<1>7. Loop(value, expr, f)
  BY <1>5, <1>6 DEF Loop, step
<1> QED BY <1>7

\* Both backends compute the same update of a map: in memory it fails exactly
\* when some action does not apply to the map before the update, and otherwise
\* leaves the item that DynamoDB's expression describes.
LEMMA UpdatesAgree ==
  ASSUME NEW value, NEW expr, ActionsValid(expr), IsSequence(expr), IsMap(value)
  PROVE  /\ apply_update_actions(value, expr) # NoItem
              <=> \A j \in 1..Len(expr) : ActionApplies(value[2], expr[j])
         /\ apply_update_actions(value, expr) # NoItem
              => apply_update_actions(value, expr) = Updated(value, expr)
<1> DEFINE N == Len(expr)
           f0 == value[2]
<1>1. N \in Nat
  BY DEF ActionsValid
<1>2. PICK f : Loop(value, expr, f)
  BY <1>1, LoopExists
<1>3. /\ f[0] = value
      /\ \A i \in 1..N : f[i] = IF f[i - 1] # NoItem /\ ActionApplies(f[i - 1][2], expr[i])
                                THEN Map(AfterAction(f[i - 1][2], expr[i])) ELSE NoItem
  <2>1. f = [i \in 0..N |->
               IF i = 0 THEN value
               ELSE IF f[i - 1] # NoItem /\ ActionApplies(f[i - 1][2], expr[i])
                    THEN Map(AfterAction(f[i - 1][2], expr[i])) ELSE NoItem]
    BY <1>2 DEF Loop
  <2>2. 0 \in 0..N /\ \A i \in 1..N : i \in 0..N /\ i # 0
    BY <1>1
  <2> QED BY <2>1, <2>2
<1>4. apply_update_actions(value, expr) = f[N]
  BY <1>2 DEF Loop
<1>5. value # NoItem /\ \A x : Map(x) # NoItem /\ Map(x)[2] = x
  BY DEF IsMap, NoItem, Map
<1> DEFINE Fine(n) == \A j \in 1..n : ActionApplies(f0, expr[j])
           T == {n \in Nat : n <= N =>
                   /\ f[n] # NoItem <=> Fine(n)
                   /\ Fine(n) => Agrees(f[n][2], f0, expr, n)
                   /\ Fine(n) /\ n # 0 => \E act, x : f[n] = Map(AfterAction(x, act)) /\ act.type \in {"Set", "Increment", "Remove"}}
<1>6. 0 \in T
  BY <1>3, <1>5 DEF Agrees, SameOutside
<1>7. ASSUME NEW n \in Nat, n \in T PROVE n + 1 \in T
  <2> SUFFICES ASSUME n + 1 <= N
               PROVE  /\ f[n + 1] # NoItem <=> Fine(n + 1)
                      /\ Fine(n + 1) => Agrees(f[n + 1][2], f0, expr, n + 1)
                      /\ Fine(n + 1) => \E act, x : f[n + 1] = Map(AfterAction(x, act)) /\ act.type \in {"Set", "Increment", "Remove"}
    OBVIOUS
  <2>1. n <= N /\ n < Len(expr) /\ n + 1 \in 1..N /\ (n + 1) - 1 = n
    BY <1>1
  <2>2. (f[n] # NoItem <=> Fine(n)) /\ (Fine(n) => Agrees(f[n][2], f0, expr, n))
    BY <1>7, <2>1
  <2>3. f[n + 1] = IF f[n] # NoItem /\ ActionApplies(f[n][2], expr[n + 1])
                   THEN Map(AfterAction(f[n][2], expr[n + 1])) ELSE NoItem
    BY <1>3, <2>1
  <2>4. Fine(n + 1) <=> Fine(n) /\ ActionApplies(f0, expr[n + 1])
    <3>1. 1..(n + 1) = (1..n) \cup {n + 1}
      OBVIOUS
    <3> QED BY <3>1
  <2>5. expr[n + 1].type \in {"Set", "Increment", "Remove"}
    BY <2>1 DEF ActionsValid
  <2> HIDE DEF Fine
  <2>6. CASE Fine(n)
    <3>1. /\ ActionApplies(f[n][2], expr[n + 1]) <=> ActionApplies(f0, expr[n + 1])
          /\ ActionApplies(f0, expr[n + 1]) => Agrees(AfterAction(f[n][2], expr[n + 1]), f0, expr, n + 1)
      BY <2>1, <2>2, <2>6, NextAction
    <3>2. CASE ActionApplies(f0, expr[n + 1])
      <4>1. f[n + 1] = Map(AfterAction(f[n][2], expr[n + 1]))
        BY <2>2, <2>3, <2>6, <3>1, <3>2
      <4>2. f[n + 1] # NoItem /\ f[n + 1][2] = AfterAction(f[n][2], expr[n + 1])
        BY <1>5, <4>1
      <4> QED BY <2>4, <2>5, <2>6, <3>1, <3>2, <4>1, <4>2
    <3>3. CASE ~ActionApplies(f0, expr[n + 1])
      BY <2>3, <2>4, <3>1, <3>3
    <3> QED BY <3>2, <3>3
  <2>7. CASE ~Fine(n)
    BY <2>2, <2>3, <2>4, <2>7
  <2> QED BY <2>6, <2>7
<1>8. N \in T
  BY <1>1, <1>6, <1>7, SetInduction
<1>9. /\ f[N] # NoItem <=> Fine(N)
      /\ Fine(N) => Agrees(f[N][2], f0, expr, N)
      /\ Fine(N) /\ N # 0 => \E act, x : f[N] = Map(AfterAction(x, act)) /\ act.type \in {"Set", "Increment", "Remove"}
  BY <1>1, <1>8
<1>10. ASSUME Fine(N) PROVE f[N] = Updated(value, expr)
  <2>1. CASE N = 0
    <3>1. expr = <<>>
      BY <2>1, EmptySeq DEF IsSequence
    <3> QED BY <1>3, <2>1, <3>1 DEF Updated
  <2>2. CASE N # 0
    <3>1. expr # <<>>
      BY <2>2
    <3>2. PICK act, x : f[N] = Map(AfterAction(x, act)) /\ act.type \in {"Set", "Increment", "Remove"}
      BY <1>9, <1>10, <2>2
    <3>3. PICK g : g = AfterAction(x, act)
      OBVIOUS
    <3>4. g = [a \in DOMAIN g |-> g[a]]
      BY <3>2, <3>3 DEF AfterAction
    <3>5. Agrees(g, f0, expr, N) /\ f[N] = Map(g)
      BY <1>5, <1>9, <1>10, <3>2, <3>3
    <3> DEFINE action(a) == CHOOSE i \in 1..Len(expr) : expr[i].attribute = a
               named == {expr[i].attribute : i \in 1..Len(expr)}
               removed == {expr[i].attribute : i \in {j \in 1..Len(expr) : expr[j].type = "Remove"}}
               D == (DOMAIN f0 \cup named) \ removed
               u == [a \in D |-> IF a \notin named THEN f0[a]
                                 ELSE IF expr[action(a)].type = "Set" THEN expr[action(a)].value
                                 ELSE U64(f0[a][2] + expr[action(a)].by)]
    <3>6. Updated(value, expr) = Map(u)
      BY <3>1 DEF Updated
    <3>7. ASSUME NEW j \in 1..N PROVE action(expr[j].attribute) = j
      BY DEF ActionsValid, ExpressionParses
    <3>8. \A a : a \notin named => (a \in DOMAIN g <=> a \in DOMAIN f0) /\ (a \in DOMAIN g => g[a] = f0[a])
      <4>1. SameOutside(g, f0, named)
        BY <3>5 DEF Agrees
      <4> HIDE DEF named, f0
      <4> QED BY <4>1 DEF SameOutside
    <3>9. ASSUME NEW j \in 1..N
          PROVE  /\ expr[j].attribute \in DOMAIN g <=> expr[j].type # "Remove"
                 /\ expr[j].type = "Set" => g[expr[j].attribute] = expr[j].value
                 /\ expr[j].type = "Increment" => g[expr[j].attribute] = U64(f0[expr[j].attribute][2] + expr[j].by)
      BY <3>5 DEF Agrees
    <3>10. \A j \in 1..N : expr[j].type \in {"Set", "Increment", "Remove"}
      BY DEF ActionsValid
    <3>11. \A j \in 1..N : expr[j].attribute \in removed <=> expr[j].type = "Remove"
      BY DEF ActionsValid, ExpressionParses
    <3> HIDE DEF action
    <3>12. \A a : a \in DOMAIN g <=> a \in D
      <4> SUFFICES ASSUME NEW a PROVE a \in DOMAIN g <=> a \in D
        OBVIOUS
      <4>1. CASE a \notin named
        BY <3>8, <4>1
      <4>2. CASE a \in named
        <5>1. PICK j \in 1..N : expr[j].attribute = a
          BY <4>2
        <5> QED BY <3>9, <3>11, <4>2, <5>1
      <4> QED BY <4>1, <4>2
    <3>13. \A a \in D : g[a] = u[a]
      <4> SUFFICES ASSUME NEW a \in D PROVE g[a] = u[a]
        OBVIOUS
      <4>1. CASE a \notin named
        BY <3>8, <3>12, <4>1
      <4>2. CASE a \in named
        <5>1. PICK j \in 1..N : expr[j].attribute = a
          BY <4>2
        <5>2. action(a) = j
          BY <3>7, <5>1
        <5>3. expr[j].type # "Remove"
          BY <3>11, <5>1
        <5> QED BY <3>9, <3>10, <4>2, <5>1, <5>2, <5>3
      <4> QED BY <4>1, <4>2
    <3>14. DOMAIN g = D
      BY <3>12
    <3>15. g = u
      BY <3>4, <3>13, <3>14
    <3> QED BY <3>5, <3>6, <3>15
  <2> QED BY <2>1, <2>2
<1> QED BY <1>4, <1>9, <1>10

---------------------------------------------------------------------------
(* The contract computes with the operators of KvItems too. *)

\* Values, answers and prefixes are the same.
LEMMA CopyValues ==
  /\ Contract!NoItem = NoItem
  /\ \A v : (Contract!IsMap(v) <=> IsMap(v)) /\ (Contract!IsU64(v) <=> IsU64(v))
  /\ \A v, a : Contract!attribute_value(v, a) = attribute_value(v, a)
  /\ \A v : Contract!Decodes(v) <=> Decodes(v)
  /\ \A op : Contract!IsWrite(op) <=> IsWrite(op)
  /\ \A v : Contract!Ok(v) = Ok(v)
  /\ \A b : Contract!Transport(b) = Transport(b)
  /\ Contract!NotFound = NotFound /\ Contract!ConditionFailed = ConditionFailed
  /\ Contract!Unanswered = Unanswered
  /\ \A k, p : Contract!starts_with(k, p) <=> starts_with(k, p)
BY DEF Contract!NoItem, NoItem, Contract!IsMap, IsMap, Contract!IsU64, IsU64,
       Contract!attribute_value, attribute_value, Contract!Decodes, Decodes,
       Contract!IsWrite, IsWrite, Contract!Ok, Ok, Contract!Transport, Transport,
       Contract!NotFound, NotFound, Contract!ConditionFailed, ConditionFailed,
       Contract!Unanswered, Unanswered, Contract!starts_with, starts_with,
       Contract!Seqs!IsPrefix, Seqs!IsPrefix

\* The conditions of an operation hold of the same values (check_conditions).
LEMMA CopyConditions ==
  \A v, cs : Contract!check_conditions(v, cs) <=> check_conditions(v, cs)
BY CopyValues DEF Contract!check_conditions, check_conditions, Contract!check_condition,
       check_condition

\* An Increment applies to the same maps.
LEMMA CopyActionApplies ==
  \A f, a : Contract!ActionApplies(f, a) <=> ActionApplies(f, a)
BY CopyValues DEF Contract!ActionApplies, ActionApplies

\* The actions of an update leave the same map (apply_update_actions).
LEMMA CopyApply ==
  \A v, e : Contract!apply_update_actions(v, e) = apply_update_actions(v, e)
BY DEF Contract!apply_update_actions, apply_update_actions, Contract!ActionApplies, ActionApplies,
       Contract!AfterAction, AfterAction, Contract!IsMap, IsMap, Contract!IsU64, IsU64,
       Contract!U64, U64, Contract!Map, Map, Contract!NoItem, NoItem

\* Pass 1 of transact accepts the same operation on the same value.
LEMMA CopyValidates ==
  \A op, v : Contract!Validates(op, v) <=> Validates(op, v)
BY CopyValues, CopyConditions, CopyApply DEF Contract!Validates, Validates

\* Pass 1 of transact plans the same write.
LEMMA CopyPlanned ==
  \A op, v : Contract!Planned(op, v) = Planned(op, v)
BY CopyValues, CopyApply DEF Contract!Planned, Planned

\* Pass 2 of transact is the same function.
LEMMA CopyApplyPlan ==
  \A t, ops : Contract!ApplyPlan(t, ops) = ApplyPlan(t, ops)
BY DEF Contract!ApplyPlan, ApplyPlan, Contract!Planned, Planned,
       Contract!apply_update_actions, apply_update_actions, Contract!ActionApplies, ActionApplies,
       Contract!AfterAction, AfterAction, Contract!IsMap, IsMap, Contract!IsU64, IsU64,
       Contract!U64, U64, Contract!Map, Map, Contract!NoItem, NoItem

\* Pass 1 of transact accepts the same operations.
LEMMA CopyAccepts ==
  \A t, ops : Contract!Accepts(t, ops) <=> Accepts(t, ops)
BY CopyValidates DEF Contract!Accepts, Accepts

\* TransactWriteItems leaves the same items.
LEMMA CopyTransacted ==
  \A t, ops : Contract!Transacted(t, ops) = Transacted(t, ops)
BY DEF Contract!Transacted, Transacted, Contract!Updated, Updated, Contract!Planned, Planned,
       Contract!apply_update_actions, apply_update_actions, Contract!ActionApplies, ActionApplies,
       Contract!AfterAction, AfterAction, Contract!IsMap, IsMap, Contract!IsU64, IsU64,
       Contract!U64, U64, Contract!Map, Map, Contract!NoItem, NoItem

---------------------------------------------------------------------------
(* What the two backends make of the conditions of an operation. *)

\* Both backends read a condition alike.
LEMMA ConditionsAgree ==
  ASSUME NEW op, ValidOperation(op), NEW value
  PROVE  check_conditions(value, op.conditions) <=> conditions_clause(value, op.conditions)
<1>1. ASSUME NEW i \in 1..Len(op.conditions)
      PROVE  check_condition(value, op.conditions[i]) <=> condition_clause(value, op.conditions[i])
  <2>1. op.conditions[i].type \in {"NotExists", "Exists", "AttributeEquals"}
    BY DEF ValidOperation
  <2> QED BY <2>1 DEF check_condition, condition_clause, attribute_value, value_path
<1> QED BY <1>1 DEF check_conditions, conditions_clause

\* The expression of a valid update that parses.
LEMMA ParsedActions ==
  ASSUME NEW op, ValidOperation(op), op.type = "Update", ExpressionParses(op.expr)
  PROVE  /\ ActionsValid(op.expr) /\ IsSequence(op.expr)
         /\ \A j \in 1..Len(op.expr) : op.expr[j].attribute # ""
<1>1. IsSequence(op.expr) /\ \A j \in 1..Len(op.expr) : ValidAction(op.expr[j])
  BY DEF ValidOperation
<1>2. Len(op.expr) \in Nat
  BY <1>1 DEF IsSequence
<1> QED BY <1>1, <1>2 DEF ActionsValid, ValidAction

\* An operation takes effect on DynamoDB exactly when the contract lets it: the
\* condition expression that update_condition_expression builds and the paths
\* of the update stand for check_conditions and apply_update_actions, but for
\* an overflow and an update without actions.
LEMMA ConditionMeansPossible ==
  ASSUME NEW op, ValidOperation(op), op.type = "Update" => ExpressionParses(op.expr), NEW value
  PROVE  /\ ItemCondition(op, value) /\ (op.type = "Update" => PathsValid(value, op.expr))
              <=> Contract!Possible(op, value)
         /\ Validates(op, value) => Contract!Possible(op, value)
         /\ Validates(op, value) /\ op.type = "Update" => Planned(op, value) = Updated(value, op.expr)
<1>0. Contract!Possible(op, value) <=>
        \/ Validates(op, value)
        \/ /\ op.type = "Update" /\ check_conditions(value, op.conditions) /\ IsMap(value)
           /\ \A j \in 1..Len(op.expr) :
                op.expr[j].type = "Increment" => IsU64(attribute_value(value, op.expr[j].attribute))
           /\ \E j \in 1..Len(op.expr) : ~ActionApplies(value[2], op.expr[j])
        \/ /\ op.type = "Update" /\ check_conditions(value, op.conditions)
           /\ value # NoItem /\ ~IsMap(value) /\ op.expr = <<>>
  BY CopyValidates, CopyConditions, CopyValues, CopyActionApplies
     DEF Contract!Possible, Contract!Overflows, Contract!Vacuous
<1>1. check_conditions(value, op.conditions) <=> conditions_clause(value, op.conditions)
  BY ConditionsAgree
<1>2. CASE op.type # "Update"
  BY <1>0, <1>1, <1>2 DEF Validates, ItemCondition
<1>3. CASE op.type = "Update"
  <2>1. /\ ActionsValid(op.expr) /\ IsSequence(op.expr)
        /\ \A j \in 1..Len(op.expr) : op.expr[j].attribute # ""
    BY <1>3, ParsedActions
  <2>2. ItemCondition(op, value) <=>
          value # NoItem /\ check_conditions(value, op.conditions) /\ IncrementGuard(value, op.expr)
    BY <1>1, <1>3 DEF ItemCondition, update_condition_expression
  <2>3. Validates(op, value) <=> /\ check_conditions(value, op.conditions) /\ value # NoItem
                                 /\ apply_update_actions(value, op.expr) # NoItem
    BY <1>3 DEF Validates
  <2>4. IncrementGuard(value, op.expr) <=>
          \A j \in 1..Len(op.expr) :
            op.expr[j].type = "Increment" => IsU64(attribute_value(value, op.expr[j].attribute))
    BY DEF IncrementGuard, attribute_value, value_path
  <2>5. CASE IsMap(value)
    <3>1. value # NoItem
      BY <2>5 DEF IsMap, NoItem
    <3>2. /\ apply_update_actions(value, op.expr) # NoItem
               <=> \A j \in 1..Len(op.expr) : ActionApplies(value[2], op.expr[j])
          /\ apply_update_actions(value, op.expr) # NoItem
               => apply_update_actions(value, op.expr) = Updated(value, op.expr)
      BY <2>1, <2>5, UpdatesAgree
    <3>3. ASSUME \A j \in 1..Len(op.expr) : ActionApplies(value[2], op.expr[j])
          PROVE  IncrementGuard(value, op.expr)
      <4> SUFFICES ASSUME NEW j \in 1..Len(op.expr), op.expr[j].type = "Increment"
                   PROVE  IsU64(attribute_value(value, op.expr[j].attribute))
        BY <2>4
      <4>1. ActionApplies(value[2], op.expr[j])
        BY <3>3
      <4>2. op.expr[j].attribute \in DOMAIN value[2] /\ IsU64(value[2][op.expr[j].attribute])
        BY <4>1 DEF ActionApplies
      <4> QED BY <2>1, <2>5, <4>2 DEF attribute_value
    <3>4. PathsValid(value, op.expr)
      BY <2>5 DEF PathsValid
    <3>5. Planned(op, value) = apply_update_actions(value, op.expr)
      BY <1>3 DEF Planned
    <3> QED BY <1>0, <1>3, <2>2, <2>3, <2>4, <2>5, <3>1, <3>2, <3>3, <3>4, <3>5
  <2>6. CASE ~IsMap(value)
    <3>1. ~Validates(op, value)
      BY <2>3, <2>6 DEF apply_update_actions
    <3>2. PathsValid(value, op.expr) <=> op.expr = <<>>
      BY <2>6 DEF PathsValid
    <3>3. op.expr = <<>> => IncrementGuard(value, op.expr)
      BY DEF IncrementGuard
    <3> QED BY <1>0, <1>3, <2>2, <2>6, <3>1, <3>2, <3>3
  <2> QED BY <2>5, <2>6
<1> QED BY <1>2, <1>3

---------------------------------------------------------------------------
(* Transactions: in memory one write after the other, on DynamoDB all at once. *)

\* The loop of pass 2 of transact, as the function it computes.
PlanLoop(table, ops, f) ==
  /\ f = [i \in 0..Len(ops) |->
            IF i = 0 THEN table
            ELSE IF ops[i].type = "ConditionCheck" THEN f[i - 1]
            ELSE [f[i - 1] EXCEPT ![ops[i].key] = Planned(ops[i], table[ops[i].key])]]
  /\ ApplyPlan(table, ops) = f[Len(ops)]

\* The loop of pass 2 of transact ends with one result.
LEMMA PlanLoopExists ==
  ASSUME NEW table, NEW ops, Len(ops) \in Nat
  PROVE  \E f : PlanLoop(table, ops, f)
<1> DEFINE N == Len(ops)
           step(x, i) == IF ops[i].type = "ConditionCheck" THEN x
                         ELSE [x EXCEPT ![ops[i].key] = Planned(ops[i], table[ops[i].key])]
           rec(f, m) == [i \in 0..m |-> IF i = 0 THEN table ELSE step(f[i - 1], i)]
           S == {m \in Nat : \E f : f = rec(f, m)}
<1> HIDE DEF step
<1>1. 0 \in S
  <2>1. PICK f : f = [i \in 0..0 |-> table]
    OBVIOUS
  <2>2. f = rec(f, 0)
    BY <2>1
  <2> QED BY <2>2
<1>2. ASSUME NEW m \in Nat, m \in S PROVE m + 1 \in S
  <2>1. PICK f : f = rec(f, m)
    BY <1>2
  <2>2. PICK g : g = [i \in 0..(m + 1) |-> IF i <= m THEN f[i] ELSE step(f[m], m + 1)]
    OBVIOUS
  <2>3. (\A i \in 0..m : g[i] = f[i]) /\ g[m + 1] = step(f[m], m + 1)
    BY <2>2
  <2>4. \A i \in 0..m : f[i] = IF i = 0 THEN table ELSE step(f[i - 1], i)
    BY <2>1
  <2>5. ASSUME NEW i \in 0..(m + 1) PROVE g[i] = IF i = 0 THEN table ELSE step(g[i - 1], i)
    <3>1. CASE i = 0
      <4>1. 0 \in 0..m
        OBVIOUS
      <4>2. g[0] = f[0] /\ f[0] = table
        BY <2>3, <2>4, <4>1
      <4> QED BY <3>1, <4>2
    <3>2. CASE i \in 1..m
      <4>1. i \in 0..m /\ i - 1 \in 0..m /\ i # 0
        BY <3>2
      <4> QED BY <2>3, <2>4, <4>1
    <3>3. CASE i = m + 1
      <4>1. i # 0 /\ i - 1 = m /\ m \in 0..m
        BY <3>3
      <4> QED BY <2>3, <3>3, <4>1
    <3> QED BY <3>1, <3>2, <3>3
  <2>6. g = rec(g, m + 1)
    BY <2>2, <2>5
  <2> QED BY <2>6
<1>3. \E f : f = rec(f, N)
  BY <1>1, <1>2, SetInduction
<1>4. PICK f : f = (CHOOSE f_1 : f_1 = rec(f_1, N))
  OBVIOUS
<1>5. f = rec(f, N)
  BY <1>3, <1>4
<1>6. ApplyPlan(table, ops) = f[N]
  BY <1>4 DEF ApplyPlan, step
<1>7. PlanLoop(table, ops, f)
  BY <1>5, <1>6 DEF PlanLoop, step
<1> QED BY <1>7

\* The table t is table after the first n operations, each planned from table.
PlannedTo(t, table, ops, n) ==
  /\ t = [k \in DOMAIN table |-> t[k]]
  /\ \A k \in DOMAIN table : (\A j \in 1..n : ops[j].key # k) => t[k] = table[k]
  /\ \A j \in 1..n : t[ops[j].key] = Planned(ops[j], table[ops[j].key])

\* Where no two operations share a key, pass 2 of transact writes each planned
\* value to its key and leaves the other items alone.
LEMMA PlanWrites ==
  ASSUME NEW table, table = [k \in DOMAIN table |-> table[k]], NEW ops, Len(ops) \in Nat,
         \A i, j \in 1..Len(ops) : ops[i].key = ops[j].key => i = j,
         \A i \in 1..Len(ops) : /\ ops[i].key \in DOMAIN table
                                /\ ops[i].type \in {"Put", "Update", "Delete", "ConditionCheck"}
  PROVE  PlannedTo(ApplyPlan(table, ops), table, ops, Len(ops))
<1> DEFINE N == Len(ops)
<1>1. PICK f : PlanLoop(table, ops, f)
  BY PlanLoopExists
<1>2. /\ f[0] = table
      /\ \A i \in 1..N : f[i] = IF ops[i].type = "ConditionCheck" THEN f[i - 1]
                                ELSE [f[i - 1] EXCEPT ![ops[i].key] = Planned(ops[i], table[ops[i].key])]
  <2>1. f = [i \in 0..N |->
               IF i = 0 THEN table
               ELSE IF ops[i].type = "ConditionCheck" THEN f[i - 1]
               ELSE [f[i - 1] EXCEPT ![ops[i].key] = Planned(ops[i], table[ops[i].key])]]
    BY <1>1 DEF PlanLoop
  <2>2. 0 \in 0..N /\ \A i \in 1..N : i \in 0..N /\ i # 0
    OBVIOUS
  <2> QED BY <2>1, <2>2
<1> DEFINE T == {n \in Nat : n <= N => PlannedTo(f[n], table, ops, n)}
<1>3. 0 \in T
  BY <1>2 DEF PlannedTo
<1>4. ASSUME NEW n \in Nat, n \in T PROVE n + 1 \in T
  <2> SUFFICES ASSUME n + 1 <= N PROVE PlannedTo(f[n + 1], table, ops, n + 1)
    OBVIOUS
  <2>1. n <= N /\ n + 1 \in 1..N /\ (n + 1) - 1 = n /\ \A j \in 1..n : j \in 1..N /\ j # n + 1
    OBVIOUS
  <2>2. PlannedTo(f[n], table, ops, n)
    BY <1>4, <2>1
  <2>3. PICK t : t = f[n]
    OBVIOUS
  <2>4. PICK u : u = f[n + 1]
    OBVIOUS
  <2>5. PICK k0 : k0 = ops[n + 1].key
    OBVIOUS
  <2>6. PICK w : w = Planned(ops[n + 1], table[k0])
    OBVIOUS
  <2>7. k0 \in DOMAIN table /\ \A j \in 1..n : ops[j].key # k0 /\ ops[j].key \in DOMAIN table
    BY <2>1, <2>5
  <2>8. /\ t = [k \in DOMAIN table |-> t[k]]
        /\ \A k \in DOMAIN table : (\A j \in 1..n : ops[j].key # k) => t[k] = table[k]
        /\ \A j \in 1..n : t[ops[j].key] = Planned(ops[j], table[ops[j].key])
    BY <2>2, <2>3 DEF PlannedTo
  <2>9. u = IF ops[n + 1].type = "ConditionCheck" THEN t ELSE [t EXCEPT ![k0] = w]
    BY <1>2, <2>1, <2>3, <2>4, <2>5, <2>6
  <2>10. ops[n + 1].type = "ConditionCheck" => w = t[k0]
    <3>1. t[k0] = table[k0]
      BY <2>7, <2>8
    <3> QED BY <2>6, <3>1 DEF Planned
  <2>11. /\ u = [k \in DOMAIN table |-> u[k]]
         /\ u[k0] = w
         /\ \A k \in DOMAIN table : k # k0 => u[k] = t[k]
    <3>1. CASE ops[n + 1].type = "ConditionCheck"
      BY <2>8, <2>9, <2>10, <3>1
    <3>2. CASE ops[n + 1].type # "ConditionCheck"
      <4>1. u = [t EXCEPT ![k0] = w]
        BY <2>9, <3>2
      <4>2. DOMAIN t = DOMAIN table
        BY <2>8
      <4> QED BY <2>7, <4>1, <4>2
    <3> QED BY <3>1, <3>2
  <2>12. \A k \in DOMAIN table : (\A j \in 1..(n + 1) : ops[j].key # k) => u[k] = table[k]
    <3> SUFFICES ASSUME NEW k \in DOMAIN table, \A j \in 1..(n + 1) : ops[j].key # k
                 PROVE  u[k] = table[k]
      OBVIOUS
    <3>1. n + 1 \in 1..(n + 1) /\ \A j \in 1..n : j \in 1..(n + 1)
      OBVIOUS
    <3>2. k # k0 /\ \A j \in 1..n : ops[j].key # k
      BY <2>5, <3>1
    <3> QED BY <2>8, <2>11, <3>2
  <2>13. \A j \in 1..(n + 1) : u[ops[j].key] = Planned(ops[j], table[ops[j].key])
    <3> SUFFICES ASSUME NEW j \in 1..(n + 1)
                 PROVE  u[ops[j].key] = Planned(ops[j], table[ops[j].key])
      OBVIOUS
    <3>1. j = n + 1 \/ j \in 1..n
      OBVIOUS
    <3>2. CASE j = n + 1
      BY <2>5, <2>6, <2>11, <3>2
    <3>3. CASE j \in 1..n
      BY <2>7, <2>8, <2>11, <3>3
    <3> QED BY <3>1, <3>2, <3>3
  <2> QED BY <2>4, <2>11, <2>12, <2>13 DEF PlannedTo
<1>5. N \in T
  BY <1>3, <1>4, SetInduction
<1>6. ApplyPlan(table, ops) = f[N]
  BY <1>1 DEF PlanLoop
<1> QED BY <1>5, <1>6

\* Operations that TransactWriteItems does not refuse outright.
Transaction(ops, table) ==
  /\ table = [k \in DOMAIN table |-> table[k]]
  /\ Len(ops) \in Nat /\ RequestValid(ops)
  /\ \A i \in 1..Len(ops) : ValidOperation(ops[i]) /\ ops[i].key \in DOMAIN table

\* Both backends leave the same items after a transaction that the in-memory
\* one accepts.
LEMMA TransactionsAgree ==
  ASSUME NEW table, NEW ops, Transaction(ops, table), Accepts(table, ops)
  PROVE  ApplyPlan(table, ops) = Transacted(table, ops)
<1>1. \A i, j \in 1..Len(ops) : ops[i].key = ops[j].key => i = j
  BY DEF Transaction, RequestValid
<1>2. \A i \in 1..Len(ops) : /\ ops[i].key \in DOMAIN table /\ ValidOperation(ops[i])
                             /\ ops[i].type \in {"Put", "Update", "Delete", "ConditionCheck"}
                             /\ ops[i].type = "Update" => ExpressionParses(ops[i].expr)
  BY DEF Transaction, RequestValid, ValidOperation
<1>3. PICK p : p = ApplyPlan(table, ops)
  OBVIOUS
<1>4. /\ p = [k \in DOMAIN table |-> p[k]]
      /\ \A k \in DOMAIN table : (\A j \in 1..Len(ops) : ops[j].key # k) => p[k] = table[k]
      /\ \A j \in 1..Len(ops) : p[ops[j].key] = Planned(ops[j], table[ops[j].key])
  BY <1>1, <1>2, <1>3, PlanWrites DEF Transaction, PlannedTo
<1>5. PICK t : t = Transacted(table, ops)
  OBVIOUS
<1>6. t = [k \in DOMAIN table |-> t[k]]
  BY <1>5 DEF Transacted
<1>7. ASSUME NEW k \in DOMAIN table PROVE p[k] = t[k]
  <2>1. CASE \A j \in 1..Len(ops) : ops[j].key # k
    BY <1>4, <1>5, <2>1 DEF Transacted
  <2>2. CASE \E j \in 1..Len(ops) : ops[j].key = k
    <3>1. PICK j \in 1..Len(ops) : ops[j].key = k
      BY <2>2
    <3>2. (CHOOSE i \in 1..Len(ops) : ops[i].key = k) = j
      BY <1>1, <3>1
    <3>3. t[k] = IF ops[j].type = "Update" THEN Updated(table[k], ops[j].expr)
                 ELSE Planned(ops[j], table[k])
      BY <1>5, <2>2, <3>2 DEF Transacted
    <3>4. Validates(ops[j], table[k])
      BY <3>1 DEF Accepts
    <3>5. ops[j].type = "Update" => Planned(ops[j], table[k]) = Updated(table[k], ops[j].expr)
      BY <1>2, <3>4, ConditionMeansPossible
    <3> QED BY <1>4, <3>1, <3>3, <3>5
  <2> QED BY <2>1, <2>2
<1> QED BY <1>3, <1>4, <1>5, <1>6, <1>7

---------------------------------------------------------------------------
(* Keys: split at the first slash for the table, put together by a query. *)

\* str::starts_with, character by character.
LEMMA PrefixMeans ==
  ASSUME NEW p \in Seq(STRING), NEW k \in Seq(STRING)
  PROVE  Seqs!IsPrefix(p, k) <=> Len(p) <= Len(k) /\ \A i \in 1..Len(p) : p[i] = k[i]
<1>1. Len(p) \in Nat /\ Len(k) \in Nat
  OBVIOUS
<1>2. SubSeq(p, 1, Len(p)) = p
  BY SubSeqFull
<1>3. CASE Len(p) <= Len(k)
  <2>1. \A i \in 1..Len(p) : i \in 1..Len(k)
    BY <1>1, <1>3
  <2>2. \A i \in 1..Len(p) : k[i] \in STRING
    BY <2>1, ElementOfSeq
  <2>3. PICK q : q = SubSeq(k, 1, Len(p))
    OBVIOUS
  <2>4. q \in Seq(STRING) /\ Len(q) = Len(p) /\ \A i \in 1..Len(p) : q[i] = k[i]
    <3>1. /\ SubSeq(k, 1, Len(p)) \in Seq(STRING)
          /\ Len(SubSeq(k, 1, Len(p))) = IF 1 <= Len(p) THEN Len(p) - 1 + 1 ELSE 0
          /\ \A i \in 1 .. (Len(p) - 1 + 1) : SubSeq(k, 1, Len(p))[i] = k[1 + i - 1]
      BY <1>1, <2>2, SubSeqProperties
    <3> QED BY <1>1, <2>3, <3>1
  <2>5. p = q <=> \A i \in 1..Len(p) : p[i] = k[i]
    BY <2>4, SeqEqual
  <2> QED BY <1>2, <1>3, <2>3, <2>5 DEF Seqs!IsPrefix
<1>4. CASE ~(Len(p) <= Len(k))
  BY <1>4 DEF Seqs!IsPrefix
<1> QED BY <1>3, <1>4

\* Where split_once splits: n is the place of the first slash of s, and the
\* halves are the characters before and behind it.
SplitAt(s, n) ==
  /\ FirstSlash(s) = n /\ n \in 1..Len(s) /\ s[n] = "/"
  /\ \A j \in 1..(n - 1) : s[j] # "/"
  /\ split_once(s)[1] \in Seq(STRING) /\ Len(split_once(s)[1]) = n - 1
  /\ \A j \in 1..(n - 1) : split_once(s)[1][j] = s[j]
  /\ split_once(s)[2] \in Seq(STRING) /\ Len(split_once(s)[2]) = Len(s) - n
  /\ \A j \in 1..(Len(s) - n) : split_once(s)[2][j] = s[n + j]

\* split_once splits at the first slash.
LEMMA Splitting ==
  ASSUME NEW s \in Seq(STRING), HasSlash(s)
  PROVE  \E n \in 1..Len(s) : SplitAt(s, n)
<1>1. Len(s) \in Nat
  OBVIOUS
<1> DEFINE P == {i \in 1..Len(s) : s[i] = "/"}
<1>2. P # {} /\ P \in SUBSET Nat
  BY <1>1 DEF HasSlash
<1>3. PICK n \in P : \A m \in P : n <= m
  BY <1>2, LeastNat
<1>4. n \in 1..Len(s) /\ s[n] = "/" /\ \A j \in 1..(n - 1) : s[j] # "/"
  <2>1. ASSUME NEW j \in 1..(n - 1) PROVE s[j] # "/"
    <3>1. j \in 1..Len(s) /\ ~(n <= j)
      BY <1>1
    <3> QED BY <1>3, <3>1
  <2> QED BY <2>1
<1>5. FirstSlash(s) = n
  <2>1. ASSUME NEW i \in 1..Len(s), s[i] = "/", \A j \in 1..(i - 1) : s[j] # "/"
        PROVE  i = n
    <3>1. n <= i
      BY <1>3, <2>1
    <3>2. ~(n < i)
      <4> SUFFICES ASSUME n < i PROVE FALSE
        OBVIOUS
      <4>1. n \in 1..(i - 1)
        BY <1>4
      <4> QED BY <1>4, <2>1, <4>1
    <3> QED BY <1>4, <3>1, <3>2
  <2> QED BY <1>4, <2>1 DEF FirstSlash
<1>6. split_once(s)[1] = SubSeq(s, 1, n - 1) /\ split_once(s)[2] = SubSeq(s, n + 1, Len(s))
  BY <1>5 DEF split_once
<1>7. n \in Int /\ n - 1 \in Int /\ n + 1 \in Int /\ Len(s) \in Int /\ 1 <= n /\ n <= Len(s)
  BY <1>1, <1>4
<1>8. /\ \A i \in 1..(n - 1) : s[i] \in STRING
      /\ \A i \in (n + 1)..Len(s) : s[i] \in STRING
  <2>1. \A i \in 1..Len(s) : s[i] \in STRING
    BY ElementOfSeq
  <2>2. (\A i \in 1..(n - 1) : i \in 1..Len(s)) /\ (\A i \in (n + 1)..Len(s) : i \in 1..Len(s))
    BY <1>7
  <2> QED BY <2>1, <2>2
<1>9. /\ SubSeq(s, 1, n - 1) \in Seq(STRING)
      /\ Len(SubSeq(s, 1, n - 1)) = IF 1 <= n - 1 THEN (n - 1) - 1 + 1 ELSE 0
      /\ \A i \in 1 .. ((n - 1) - 1 + 1) : SubSeq(s, 1, n - 1)[i] = s[1 + i - 1]
  BY <1>7, <1>8, SubSeqProperties
<1>10. /\ SubSeq(s, n + 1, Len(s)) \in Seq(STRING)
       /\ Len(SubSeq(s, n + 1, Len(s))) = IF n + 1 <= Len(s) THEN Len(s) - (n + 1) + 1 ELSE 0
       /\ \A i \in 1 .. (Len(s) - (n + 1) + 1) : SubSeq(s, n + 1, Len(s))[i] = s[(n + 1) + i - 1]
  BY <1>7, <1>8, SubSeqProperties
<1>11. (n - 1) - 1 + 1 = n - 1 /\ Len(s) - (n + 1) + 1 = Len(s) - n
  BY <1>7
<1>12. \A j \in 1..(n - 1) : 1 + j - 1 = j
  BY <1>7
<1>13. \A j \in 1..(Len(s) - n) : (n + 1) + j - 1 = n + j
  BY <1>7
<1>14. Len(SubSeq(s, 1, n - 1)) = n - 1 /\ Len(SubSeq(s, n + 1, Len(s))) = Len(s) - n
  BY <1>7, <1>9, <1>10
<1>15. /\ split_once(s)[1] \in Seq(STRING) /\ Len(split_once(s)[1]) = n - 1
       /\ \A j \in 1..(n - 1) : split_once(s)[1][j] = s[j]
  BY <1>6, <1>9, <1>11, <1>12, <1>14
<1>16. /\ split_once(s)[2] \in Seq(STRING) /\ Len(split_once(s)[2]) = Len(s) - n
       /\ \A j \in 1..(Len(s) - n) : split_once(s)[2][j] = s[n + j]
  BY <1>6, <1>10, <1>11, <1>13, <1>14
<1>17. SplitAt(s, n)
  BY <1>4, <1>5, <1>15, <1>16 DEF SplitAt
<1> QED BY <1>4, <1>17

\* The key that a query renders for an item is the key it was stored under.
LEMMA RenderSplit ==
  ASSUME NEW k \in Seq(STRING), HasSlash(k)
  PROVE  render_key(split_once(k)[1], split_once(k)[2]) = k
<1>1. PICK n \in 1..Len(k) : SplitAt(k, n)
  BY Splitting
<1>2. PICK p : p = split_once(k)[1]
  OBVIOUS
<1>3. PICK s : s = split_once(k)[2]
  OBVIOUS
<1>4. /\ k[n] = "/" /\ p \in Seq(STRING) /\ Len(p) = n - 1 /\ \A j \in 1..(n - 1) : p[j] = k[j]
      /\ s \in Seq(STRING) /\ Len(s) = Len(k) - n /\ \A j \in 1..(Len(k) - n) : s[j] = k[n + j]
  BY <1>1, <1>2, <1>3 DEF SplitAt
<1>5. <<"/">> \in Seq(STRING) /\ Len(<<"/">>) = 1 /\ <<"/">>[1] = "/"
  <2>1. "/" \in STRING
    BY <1>4, ElementOfSeq
  <2> QED BY <2>1
<1>6. PICK h : h = p \o <<"/">>
  OBVIOUS
<1>7. h \in Seq(STRING) /\ Len(h) = n /\ \A i \in 1..n : h[i] = k[i]
  <2>1. /\ h \in Seq(STRING) /\ Len(h) = (n - 1) + 1
        /\ \A i \in 1..((n - 1) + 1) : h[i] = IF i <= n - 1 THEN p[i] ELSE <<"/">>[i - (n - 1)]
    BY <1>4, <1>5, <1>6, ConcatProperties
  <2>2. (n - 1) + 1 = n /\ n - (n - 1) = 1 /\ \A i \in 1..n : i \in 1..(n - 1) \/ i = n
    OBVIOUS
  <2>3. \A i \in 1..n : (i <= n - 1 <=> i # n)
    OBVIOUS
  <2>4. ASSUME NEW i \in 1..n PROVE h[i] = k[i]
    <3>1. CASE i = n
      BY <1>4, <1>5, <2>1, <2>2, <2>3, <3>1
    <3>2. CASE i # n
      BY <1>4, <2>1, <2>2, <2>3, <3>2
    <3> QED BY <3>1, <3>2
  <2> QED BY <2>1, <2>2, <2>4
<1>8. PICK r : r = h \o s
  OBVIOUS
<1>9. r = render_key(split_once(k)[1], split_once(k)[2])
  BY <1>2, <1>3, <1>6, <1>8 DEF render_key
<1>10. /\ r \in Seq(STRING) /\ Len(r) = n + (Len(k) - n)
       /\ \A i \in 1..(n + (Len(k) - n)) : r[i] = IF i <= n THEN h[i] ELSE s[i - n]
  <2>1. /\ h \o s \in Seq(STRING) /\ Len(h \o s) = Len(h) + Len(s)
        /\ \A i \in 1..(Len(h) + Len(s)) : (h \o s)[i] = IF i <= Len(h) THEN h[i] ELSE s[i - Len(h)]
    BY ZenonT(40), <1>4, <1>7, ConcatProperties
  <2> QED BY <1>4, <1>7, <1>8, <2>1
<1>11. Len(k) \in Nat /\ n + (Len(k) - n) = Len(k)
  OBVIOUS
<1>12. ASSUME NEW i \in 1..Len(k) PROVE r[i] = k[i]
  <2>1. CASE i <= n
    BY <1>7, <1>10, <1>11, <2>1
  <2>2. CASE ~(i <= n)
    <3>1. i - n \in 1..(Len(k) - n) /\ n + (i - n) = i
      BY <1>11, <2>2
    <3> QED BY <1>4, <1>10, <1>11, <2>2, <3>1
  <2> QED BY <2>1, <2>2
<1>13. r = k
  BY <1>10, <1>11, <1>12, SeqEqual
<1> QED BY <1>9, <1>13

\* The keys that DynamoDB selects, by partition and sort key, are the ones of its
\* items that start with the prefix: where in the key the prefix ends does not
\* matter.
LEMMA SelectedByPrefix ==
  ASSUME NEW k \in Keys, Keys \subseteq Seq(STRING), NEW prefix \in Seq(STRING)
  PROVE  k \in Selected(Keys, prefix) <=> Splits(k) /\ starts_with(k, prefix)
<1> SUFFICES ASSUME Splits(k) PROVE k \in Selected(Keys, prefix) <=> starts_with(k, prefix)
  BY DEF Selected
<1>1. k \in Seq(STRING) /\ Len(k) \in Nat /\ Len(prefix) \in Nat
  OBVIOUS
<1>2. PICK n \in 1..Len(k) : SplitAt(k, n)
  BY <1>1, Splitting DEF Splits
<1>3. PICK pk : pk = split_once(k)[1]
  OBVIOUS
<1>4. PICK sk : sk = split_once(k)[2]
  OBVIOUS
<1>5. /\ k[n] = "/" /\ \A j \in 1..(n - 1) : k[j] # "/"
      /\ pk \in Seq(STRING) /\ Len(pk) = n - 1 /\ \A j \in 1..(n - 1) : pk[j] = k[j]
      /\ sk \in Seq(STRING) /\ Len(sk) = Len(k) - n /\ \A j \in 1..(Len(k) - n) : sk[j] = k[n + j]
  BY <1>2, <1>3, <1>4 DEF SplitAt
<1>6. starts_with(k, prefix) <=>
        Len(prefix) <= Len(k) /\ \A i \in 1..Len(prefix) : prefix[i] = k[i]
  BY <1>1, PrefixMeans DEF starts_with
<1>7. CASE HasSlash(prefix)
  <2>1. PICK m \in 1..Len(prefix) : SplitAt(prefix, m)
    BY <1>7, Splitting
  <2>2. PICK pp : pp = split_once(prefix)[1]
    OBVIOUS
  <2>3. PICK sp : sp = split_once(prefix)[2]
    OBVIOUS
  <2>4. /\ prefix[m] = "/" /\ \A j \in 1..(m - 1) : prefix[j] # "/"
        /\ pp \in Seq(STRING) /\ Len(pp) = m - 1 /\ \A j \in 1..(m - 1) : pp[j] = prefix[j]
        /\ sp \in Seq(STRING) /\ Len(sp) = Len(prefix) - m
        /\ \A j \in 1..(Len(prefix) - m) : sp[j] = prefix[m + j]
    BY <2>1, <2>2, <2>3 DEF SplitAt
  <2>5. k \in Selected(Keys, prefix) <=> pk = pp /\ Seqs!IsPrefix(sp, sk)
    BY <1>3, <1>4, <1>7, <2>2, <2>3 DEF Selected
  <2>6. Seqs!IsPrefix(sp, sk) <=> Len(sp) <= Len(sk) /\ \A i \in 1..Len(sp) : sp[i] = sk[i]
    BY <1>5, <2>4, PrefixMeans
  <2>7. ASSUME pk = pp, Seqs!IsPrefix(sp, sk) PROVE starts_with(k, prefix)
    <3>1. n = m
      BY <1>5, <2>4, <2>7
    <3>2. Len(prefix) - m <= Len(k) - m /\ \A i \in 1..(Len(prefix) - m) : sp[i] = sk[i]
      BY <1>5, <2>4, <2>6, <2>7, <3>1
    <3>3. Len(prefix) <= Len(k)
      BY <1>1, <3>2
    <3>4. ASSUME NEW i \in 1..Len(prefix) PROVE prefix[i] = k[i]
      <4>1. CASE i = m
        BY <1>5, <2>4, <3>1, <4>1
      <4>2. CASE i < m
        <5>1. i \in 1..(m - 1)
          BY <4>2
        <5> QED BY <1>5, <2>4, <2>7, <3>1, <5>1
      <4>3. CASE i > m
        <5>1. i - m \in 1..(Len(prefix) - m) /\ i - m \in 1..(Len(k) - m) /\ m + (i - m) = i
          BY <1>1, <3>3, <4>3
        <5>2. sp[i - m] = prefix[i] /\ sk[i - m] = k[i] /\ sp[i - m] = sk[i - m]
          BY <1>5, <2>4, <3>1, <3>2, <5>1
        <5> QED BY <5>2
      <4> QED BY <4>1, <4>2, <4>3
    <3> QED BY <1>6, <3>3, <3>4
  <2>8. ASSUME starts_with(k, prefix) PROVE pk = pp /\ Seqs!IsPrefix(sp, sk)
    <3>1. Len(prefix) <= Len(k) /\ \A i \in 1..Len(prefix) : prefix[i] = k[i]
      BY <1>6, <2>8
    <3>2. k[m] = "/" /\ \A j \in 1..(m - 1) : k[j] # "/"
      <4>1. \A j \in 1..(m - 1) : j \in 1..Len(prefix)
        OBVIOUS
      <4> QED BY <2>4, <3>1, <4>1
    <3>3. n = m
      <4>1. ~(n < m)
        <5> SUFFICES ASSUME n < m PROVE FALSE
          OBVIOUS
        <5>1. n \in 1..(m - 1)
          OBVIOUS
        <5> QED BY <1>5, <3>2, <5>1
      <4>2. ~(m < n)
        <5> SUFFICES ASSUME m < n PROVE FALSE
          OBVIOUS
        <5>1. m \in 1..(n - 1)
          OBVIOUS
        <5> QED BY <1>5, <3>2, <5>1
      <4> QED BY <4>1, <4>2
    <3>4. pk = pp
      <4>1. Len(pk) = Len(pp)
        BY <1>5, <2>4, <3>3
      <4>2. ASSUME NEW i \in 1..Len(pk) PROVE pk[i] = pp[i]
        <5>1. i \in 1..(m - 1) /\ i \in 1..Len(prefix)
          BY <1>1, <1>5, <3>3
        <5> QED BY <1>5, <2>4, <3>1, <3>3, <5>1
      <4> QED BY <1>5, <2>4, <4>1, <4>2, SeqEqual
    <3>5. Len(sp) <= Len(sk)
      BY <1>1, <1>5, <2>4, <3>1, <3>3
    <3>6. ASSUME NEW i \in 1..Len(sp) PROVE sp[i] = sk[i]
      <4>1. i \in 1..(Len(prefix) - m) /\ i \in 1..(Len(k) - m) /\ m + i \in 1..Len(prefix)
        BY <1>1, <2>4, <3>1
      <4> QED BY <1>5, <2>4, <3>1, <3>3, <4>1
    <3> QED BY <2>6, <3>4, <3>5, <3>6
  <2> QED BY <2>5, <2>7, <2>8
<1>8. CASE ~HasSlash(prefix)
  <2>1. k \in Selected(Keys, prefix) <=> Seqs!IsPrefix(prefix, pk)
    BY <1>3, <1>8 DEF Selected
  <2>2. Seqs!IsPrefix(prefix, pk) <=> Len(prefix) <= Len(pk) /\ \A i \in 1..Len(prefix) : prefix[i] = pk[i]
    BY <1>5, PrefixMeans
  <2>3. ASSUME Seqs!IsPrefix(prefix, pk) PROVE starts_with(k, prefix)
    <3>1. Len(prefix) <= n - 1 /\ \A i \in 1..Len(prefix) : prefix[i] = pk[i]
      BY <1>5, <2>2, <2>3
    <3>2. Len(prefix) <= Len(k) /\ \A i \in 1..Len(prefix) : i \in 1..(n - 1)
      BY <1>1, <3>1
    <3> QED BY <1>5, <1>6, <3>1, <3>2
  <2>4. ASSUME starts_with(k, prefix) PROVE Seqs!IsPrefix(prefix, pk)
    <3>1. Len(prefix) <= Len(k) /\ \A i \in 1..Len(prefix) : prefix[i] = k[i]
      BY <1>6, <2>4
    <3>2. ~(n <= Len(prefix))
      <4> SUFFICES ASSUME n <= Len(prefix) PROVE FALSE
        OBVIOUS
      <4>1. n \in 1..Len(prefix)
        BY <1>1
      <4>2. prefix[n] = "/"
        BY <1>5, <3>1, <4>1
      <4> QED BY <1>8, <4>1, <4>2 DEF HasSlash
    <3>3. Len(prefix) <= n - 1 /\ \A i \in 1..Len(prefix) : i \in 1..(n - 1)
      BY <1>1, <3>2
    <3> QED BY <1>5, <2>2, <3>1, <3>3
  <2> QED BY <2>1, <2>3, <2>4
<1> QED BY <1>7, <1>8

---------------------------------------------------------------------------
(* What a write leaves behind. *)

\* The operations of a call that is made.
LEMMA CallFacts ==
  ASSUME NEW op \in Calls
  PROVE  /\ ValidCall(op) /\ Len(op.ops) \in Nat
         /\ IsWrite(op) <=> op.type \in {"put", "update", "transact"}
         /\ op.type \in {"get", "query", "put", "update", "transact"}
         /\ \A i \in 1..Len(op.ops) :
              /\ ValidOperation(op.ops[i]) /\ op.ops[i].key \in Keys
              /\ op.ops[i].type \in {"Put", "Update", "Delete", "ConditionCheck"}
         /\ op.type = "get" => op.key \in Keys
         /\ op.type = "query" => op.prefix \in Seq(STRING)
         /\ op.type \in {"put", "update"} => /\ Len(op.ops) = 1 /\ op.ops[1].key = op.key
                                             /\ op.key \in Keys
         /\ op.type = "put" => op.ops[1].type = "Put"
         /\ op.type = "update" => op.ops[1].type = "Update"
<1>1. ValidCall(op)
  BY KvAssumption
<1>2. IsSequence(op.ops) /\ \A i \in 1..Len(op.ops) : ValidOperation(op.ops[i])
  BY <1>1 DEF ValidCall
<1>3. Len(op.ops) \in Nat
  BY <1>2 DEF IsSequence
<1>4. op.type \in {"get", "query", "put", "update", "transact"}
  BY <1>1 DEF ValidCall
<1>5. IsWrite(op) <=> op.type \in {"put", "update", "transact"}
  BY <1>1, <1>3 DEF ValidCall, IsWrite
<1>6. \A i \in 1..Len(op.ops) : /\ op.ops[i].key \in Keys
                                /\ op.ops[i].type \in {"Put", "Update", "Delete", "ConditionCheck"}
  BY <1>2 DEF ValidOperation
<1>7. op.type \in {"put", "update"} => Len(op.ops) = 1 /\ op.ops[1].key = op.key
  BY <1>1 DEF ValidCall
<1>8. op.type \in {"put", "update"} => op.key \in Keys
  BY <1>6, <1>7
<1> QED BY <1>1, <1>2, <1>3, <1>4, <1>5, <1>6, <1>7, <1>8 DEF ValidCall

\* Every item of after is as in table or as one of ops planned it.
Stems(after, table, ops) ==
  /\ after = [k \in DOMAIN table |-> after[k]]
  /\ \A k \in DOMAIN table :
       \/ after[k] = table[k]
       \/ \E i \in 1..Len(ops) : /\ ops[i].key = k /\ ops[i].type # "ConditionCheck"
                                 /\ after[k] = Planned(ops[i], table[k])

\* Every item after pass 2 of transact is as before or as planned.
LEMMA PlanStems ==
  ASSUME NEW table, table = [k \in DOMAIN table |-> table[k]], NEW ops, Len(ops) \in Nat
  PROVE  Stems(ApplyPlan(table, ops), table, ops)
<1> DEFINE N == Len(ops)
<1>1. PICK f : PlanLoop(table, ops, f)
  BY PlanLoopExists
<1>2. /\ f[0] = table
      /\ \A i \in 1..N : f[i] = IF ops[i].type = "ConditionCheck" THEN f[i - 1]
                                ELSE [f[i - 1] EXCEPT ![ops[i].key] = Planned(ops[i], table[ops[i].key])]
  <2>1. f = [i \in 0..N |->
               IF i = 0 THEN table
               ELSE IF ops[i].type = "ConditionCheck" THEN f[i - 1]
               ELSE [f[i - 1] EXCEPT ![ops[i].key] = Planned(ops[i], table[ops[i].key])]]
    BY <1>1 DEF PlanLoop
  <2>2. 0 \in 0..N /\ \A i \in 1..N : i \in 0..N /\ i # 0
    OBVIOUS
  <2> QED BY <2>1, <2>2
<1> DEFINE T == {n \in Nat : n <= N => Stems(f[n], table, ops)}
<1>3. 0 \in T
  BY <1>2 DEF Stems
<1>4. ASSUME NEW n \in Nat, n \in T PROVE n + 1 \in T
  <2> SUFFICES ASSUME n + 1 <= N PROVE Stems(f[n + 1], table, ops)
    OBVIOUS
  <2>1. n <= N /\ n + 1 \in 1..N /\ (n + 1) - 1 = n
    OBVIOUS
  <2>2. Stems(f[n], table, ops)
    BY <1>4, <2>1
  <2>3. PICK t : t = f[n]
    OBVIOUS
  <2>4. PICK u : u = f[n + 1]
    OBVIOUS
  <2>5. PICK k0 : k0 = ops[n + 1].key
    OBVIOUS
  <2>6. CASE ops[n + 1].type = "ConditionCheck"
    <3>1. u = t
      BY <1>2, <2>1, <2>3, <2>4, <2>6
    <3> QED BY <2>2, <2>3, <2>4, <3>1
  <2>7. CASE ops[n + 1].type # "ConditionCheck"
    <3>1. u = [t EXCEPT ![k0] = Planned(ops[n + 1], table[k0])]
      BY <1>2, <2>1, <2>3, <2>4, <2>5, <2>7
    <3>2. t = [k \in DOMAIN table |-> t[k]] /\ Stems(t, table, ops)
      BY <2>2, <2>3 DEF Stems
    <3>3. u = [k \in DOMAIN table |-> u[k]]
      BY <3>1, <3>2
    <3>4. ASSUME NEW k \in DOMAIN table
          PROVE  \/ u[k] = table[k]
                 \/ \E i \in 1..N : /\ ops[i].key = k /\ ops[i].type # "ConditionCheck"
                                    /\ u[k] = Planned(ops[i], table[k])
      <4>1. CASE k = k0
        <5>1. u[k] = Planned(ops[n + 1], table[k])
          BY <3>1, <3>2, <4>1
        <5> QED BY <2>1, <2>5, <2>7, <4>1, <5>1
      <4>2. CASE k # k0
        <5>1. u[k] = t[k]
          BY <3>1, <3>2, <4>2
        <5> QED BY <3>2, <5>1 DEF Stems
      <4> QED BY <4>1, <4>2
    <3> QED BY <2>4, <3>3, <3>4 DEF Stems
  <2> QED BY <2>6, <2>7
<1>5. N \in T
  BY <1>3, <1>4, SetInduction
<1>6. ApplyPlan(table, ops) = f[N] /\ Stems(f[N], table, ops)
  BY <1>1, <1>5 DEF PlanLoop
<1> QED BY <1>6

\* A transaction of one operation is one write.
LEMMA SingleWrite ==
  ASSUME NEW table, table = [k \in DOMAIN table |-> table[k]], NEW ops, Len(ops) = 1,
         ops[1].key \in DOMAIN table, ops[1].type \in {"Put", "Update", "Delete"}
  PROVE  ApplyPlan(table, ops) = [table EXCEPT ![ops[1].key] = Planned(ops[1], table[ops[1].key])]
<1>1. PICK p : p = ApplyPlan(table, ops)
  OBVIOUS
<1>2. \A i \in 1..Len(ops) : i = 1
  OBVIOUS
<1>3. PlannedTo(p, table, ops, Len(ops))
  <2>1. /\ Len(ops) \in Nat /\ \A i, j \in 1..Len(ops) : ops[i].key = ops[j].key => i = j
        /\ \A i \in 1..Len(ops) : /\ ops[i].key \in DOMAIN table
                                  /\ ops[i].type \in {"Put", "Update", "Delete", "ConditionCheck"}
    BY <1>2
  <2> QED BY <1>1, <2>1, PlanWrites
<1>4. PICK k0 : k0 = ops[1].key
  OBVIOUS
<1>5. /\ p = [k \in DOMAIN table |-> p[k]] /\ p[k0] = Planned(ops[1], table[k0])
      /\ \A k \in DOMAIN table : k # k0 => p[k] = table[k]
  <2>1. 1 \in 1..Len(ops)
    OBVIOUS
  <2>2. \A k \in DOMAIN table : (\A j \in 1..Len(ops) : ops[j].key # k) => p[k] = table[k]
    BY <1>3 DEF PlannedTo
  <2>3. \A k \in DOMAIN table : k # k0 => \A j \in 1..Len(ops) : ops[j].key # k
    BY <1>2, <1>4
  <2> QED BY <1>3, <1>4, <2>1, <2>2, <2>3 DEF PlannedTo
<1>6. p = [table EXCEPT ![k0] = Planned(ops[1], table[k0])]
  BY <1>5
<1> QED BY <1>1, <1>4, <1>6

\* apply_update_actions checks every sum: what the in-memory backend stores can
\* be decoded.
LEMMA UpdateDecodes ==
  ASSUME NEW value, Decodes(value), NEW expr, Len(expr) \in Nat,
         \A j \in 1..Len(expr) : ValidAction(expr[j])
  PROVE  Decodes(apply_update_actions(value, expr))
<1> DEFINE N == Len(expr)
<1>0. Decodes(NoItem)
  BY DEF Decodes, NoItem, IsU64, IsMap
<1>1. CASE ~IsMap(value)
  BY <1>0, <1>1 DEF apply_update_actions
<1>2. CASE IsMap(value)
  <2>1. PICK f : Loop(value, expr, f)
    BY LoopExists
  <2>2. /\ f[0] = value
        /\ \A i \in 1..N : f[i] = IF f[i - 1] # NoItem /\ ActionApplies(f[i - 1][2], expr[i])
                                  THEN Map(AfterAction(f[i - 1][2], expr[i])) ELSE NoItem
    <3>1. f = [i \in 0..N |->
                 IF i = 0 THEN value
                 ELSE IF f[i - 1] # NoItem /\ ActionApplies(f[i - 1][2], expr[i])
                      THEN Map(AfterAction(f[i - 1][2], expr[i])) ELSE NoItem]
      BY <2>1 DEF Loop
    <3>2. 0 \in 0..N /\ \A i \in 1..N : i \in 0..N /\ i # 0
      OBVIOUS
    <3> QED BY <3>1, <3>2
  <2> DEFINE T == {n \in Nat : n <= N /\ f[n] # NoItem => IsMap(f[n]) /\ Decodes(f[n])}
  <2>3. 0 \in T
    BY <1>2, <2>2
  <2>4. ASSUME NEW n \in Nat, n \in T PROVE n + 1 \in T
    <3> SUFFICES ASSUME n + 1 <= N, f[n + 1] # NoItem PROVE IsMap(f[n + 1]) /\ Decodes(f[n + 1])
      OBVIOUS
    <3>1. n <= N /\ n + 1 \in 1..N /\ (n + 1) - 1 = n
      OBVIOUS
    <3>2. PICK g : g = f[n][2]
      OBVIOUS
    <3>3. PICK act : act = expr[n + 1]
      OBVIOUS
    <3>4. f[n] # NoItem /\ ActionApplies(g, act) /\ f[n + 1] = Map(AfterAction(g, act))
      BY <2>2, <3>1, <3>2, <3>3
    <3>5. \A a \in DOMAIN g : IsU64(g[a]) => g[a][2] \in 0..MaxU64
      BY <2>4, <3>1, <3>2, <3>4 DEF Decodes
    <3>6. ValidAction(act)
      BY <3>1, <3>3
    <3>7. PICK h : h = AfterAction(g, act)
      OBVIOUS
    <3>8. \A a \in DOMAIN h : IsU64(h[a]) => h[a][2] \in 0..MaxU64
      <4>1. CASE act.type = "Set"
        <5>1. h = [a \in DOMAIN g \cup {act.attribute} |-> IF a = act.attribute THEN act.value ELSE g[a]]
          BY <3>7, <4>1 DEF AfterAction
        <5>2. IsU64(act.value) => act.value[2] \in 0..MaxU64
          BY <3>6, <4>1 DEF ValidAction
        <5> QED BY <3>5, <5>1, <5>2
      <4>2. CASE act.type = "Increment"
        <5>1. PICK a0 : a0 = act.attribute
          OBVIOUS
        <5>2. PICK sum : sum = g[a0][2] + act.by
          OBVIOUS
        <5>3. h = [g EXCEPT ![a0] = U64(sum)]
          BY <3>7, <4>2, <5>1, <5>2 DEF AfterAction
        <5>4. a0 \in DOMAIN g /\ IsU64(g[a0]) /\ sum <= MaxU64
          BY <3>4, <4>2, <5>1, <5>2 DEF ActionApplies
        <5>5. g[a0][2] \in 0..MaxU64 /\ act.by \in 0..MaxU64
          BY <3>5, <3>6, <4>2, <5>4 DEF ValidAction
        <5>6. sum \in 0..MaxU64
          BY <5>2, <5>4, <5>5, MaxU64Assumption
        <5>7. U64(sum)[2] = sum
          BY DEF U64
        <5>8. \A a \in DOMAIN h : a \in DOMAIN g /\ (h[a] = U64(sum) \/ h[a] = g[a])
          BY <5>3
        <5> QED BY <3>5, <5>6, <5>7, <5>8
      <4>3. CASE act.type = "Remove"
        <5>1. h = [a \in DOMAIN g \ {act.attribute} |-> g[a]]
          BY <3>7, <4>3 DEF AfterAction
        <5> QED BY <3>5, <5>1
      <4> QED BY <3>6, <4>1, <4>2, <4>3 DEF ValidAction
    <3>9. f[n + 1] = Map(h)
      BY <3>4, <3>7
    <3> QED BY <3>8, <3>9 DEF Map, IsMap, IsU64, Decodes
  <2>5. N \in T
    BY <2>3, <2>4, SetInduction
  <2>6. apply_update_actions(value, expr) = f[N]
    BY <1>2, <2>1 DEF Loop
  <2> QED BY <1>0, <2>5, <2>6
<1> QED BY <1>1, <1>2

---------------------------------------------------------------------------
(* The inductive invariant. *)

\* A call under way: only updates are refused first, only a write that the table
\* can hold took effect, and a query has evaluated keys with its prefix.
CallOK(r) ==
  \/ r = NoCall
  \/ /\ r = [phase |-> r.phase, op |-> r.op, resends |-> r.resends, took |-> r.took,
             rest |-> r.rest, found |-> r.found, stable |-> r.stable]
     /\ r.phase \in {"sent", "lost", "refused"} /\ r.op \in Calls
     /\ r.resends \in 0..MaxResends /\ r.took \in BOOLEAN
     /\ r.phase = "refused" => r.op.type = "update"
     /\ r.took => IsWrite(r.op) /\ ~Malformed(r.op)
     /\ \A k \in r.rest : k \in Selected(Keys, r.op.prefix)
     /\ \A pair \in r.found : starts_with(pair[1], r.op.prefix) /\ Decodes(pair[2])
     /\ \A k \in r.stable : k \in Keys /\ starts_with(k, r.op.prefix)

\* Only a request to the table takes effect without an answer; what a query must
\* report exists and is reported or yet to be evaluated.
ProgressOK(r, table, copy, dynamo) ==
  r.phase # "idle" =>
    /\ r.took => dynamo
    /\ \A k \in r.stable :
         /\ table[k] # NoItem /\ (HasSlash(r.op.prefix) \/ copy[k] # NoItem)
         /\ dynamo => k \in r.rest \/ \E pair \in r.found : pair[1] = k

AnswerOK(result) == \A value \in Returned(result) : Decodes(value)

\* A client's call and answer: no answer before the end of the call.
ClientOK(r, result, table, copy, dynamo) ==
  /\ CallOK(r) /\ ProgressOK(r, table, copy, dynamo) /\ AnswerOK(result)
  /\ r.phase # "idle" => result = Unanswered

\* In memory every item can be decoded; the table has no item under a key that
\* split_key refuses.
ItemsOK(table, dynamo, memory) ==
  /\ table = [k \in Keys |-> table[k]]
  /\ memory => \A k \in Keys : Decodes(table[k])
  /\ dynamo => \A k \in Keys : table[k] # NoItem => Splits(k)

\* Writes that are still on their way could be executed.
LateOK(ops, dynamo) ==
  /\ ops \subseteq Calls /\ \A op \in ops : IsWrite(op) /\ ~Malformed(op)
  /\ ops # {} => dynamo

KvInv ==
  /\ backend \in Backends /\ issued \in 0..MaxCalls
  /\ ItemsOK(items, Dynamo, backend = "memory") /\ ItemsOK(replica, Dynamo, FALSE)
  /\ call = [c \in Clients |-> call[c]] /\ answer = [c \in Clients |-> answer[c]]
  /\ \A c \in Clients : ClientOK(call[c], answer[c], items, replica, Dynamo)
  /\ LateOK(late, Dynamo)

\* The contract's view of a call.
AbsOf(r) ==
  IF r.phase = "idle" THEN [open |-> FALSE]
  ELSE [open |-> TRUE, op |-> r.op, took |-> r.took, refused |-> r.phase = "refused"]

\* The fields of a call under way.
LEMMA OpenCall ==
  ASSUME NEW r, CallOK(r), r.phase # "idle"
  PROVE  /\ r = [phase |-> r.phase, op |-> r.op, resends |-> r.resends, took |-> r.took,
                 rest |-> r.rest, found |-> r.found, stable |-> r.stable]
         /\ r.phase \in {"sent", "lost", "refused"} /\ r.op \in Calls
         /\ r.resends \in 0..MaxResends /\ r.took \in BOOLEAN
         /\ r.phase = "refused" => r.op.type = "update"
         /\ r.took => IsWrite(r.op) /\ ~Malformed(r.op)
         /\ \A k \in r.rest : k \in Selected(Keys, r.op.prefix)
         /\ \A pair \in r.found : starts_with(pair[1], r.op.prefix) /\ Decodes(pair[2])
         /\ \A k \in r.stable : k \in Keys /\ starts_with(k, r.op.prefix)
<1>1. r # NoCall
  BY DEF NoCall
<1> QED BY <1>1 DEF CallOK

\* When the items change, a call under way forgets the keys that are gone.
LEMMA SeeingKeeps ==
  ASSUME NEW calls, NEW table, NEW copy, NEW c \in Clients, CallOK(calls[c])
  PROVE  LET r == Seeing(calls, table, copy)[c]
         IN  /\ CallOK(r) /\ AbsOf(r) = AbsOf(calls[c]) /\ r.phase = calls[c].phase
             /\ \A dynamo, t0, c0 : ProgressOK(calls[c], t0, c0, dynamo) => ProgressOK(r, table, copy, dynamo)
<1>1. PICK q : q = calls[c]
  OBVIOUS
<1>2. PICK r : r = Seeing(calls, table, copy)[c]
  OBVIOUS
<1>3. CASE q.phase = "idle"
  <2>1. r = q
    BY <1>1, <1>2, <1>3 DEF Seeing
  <2> QED BY <1>1, <1>2, <1>3, <2>1 DEF ProgressOK
<1>4. CASE q.phase # "idle"
  <2>1. PICK s : s = {k \in q.stable : table[k] # NoItem /\ (HasSlash(q.op.prefix) \/ copy[k] # NoItem)}
    OBVIOUS
  <2>2. r = [q EXCEPT !.stable = s]
    BY <1>1, <1>2, <1>4, <2>1 DEF Seeing
  <2>3. CallOK(q)
    BY <1>1
  <2>4. q = [phase |-> q.phase, op |-> q.op, resends |-> q.resends, took |-> q.took,
             rest |-> q.rest, found |-> q.found, stable |-> q.stable]
    BY <1>4, <2>3, OpenCall
  <2>5. r = [phase |-> q.phase, op |-> q.op, resends |-> q.resends, took |-> q.took,
             rest |-> q.rest, found |-> q.found, stable |-> s]
    BY <2>2, <2>4
  <2>6. /\ r.phase = q.phase /\ r.op = q.op /\ r.resends = q.resends /\ r.took = q.took
        /\ r.rest = q.rest /\ r.found = q.found /\ r.stable = s
    BY <2>5
  <2>7. CallOK(r)
    <3>1. \A k \in s : k \in Keys /\ starts_with(k, q.op.prefix)
      BY <1>4, <2>1, <2>3, OpenCall
    <3>2. /\ q.phase \in {"sent", "lost", "refused"} /\ q.op \in Calls
          /\ q.resends \in 0..MaxResends /\ q.took \in BOOLEAN
          /\ q.phase = "refused" => q.op.type = "update"
          /\ q.took => IsWrite(q.op) /\ ~Malformed(q.op)
          /\ \A k \in q.rest : k \in Selected(Keys, q.op.prefix)
          /\ \A pair \in q.found : starts_with(pair[1], q.op.prefix) /\ Decodes(pair[2])
      BY <1>4, <2>3, OpenCall
    <3> QED BY <2>5, <2>6, <3>1, <3>2 DEF CallOK
  <2>8. AbsOf(r) = AbsOf(q)
    BY <2>6 DEF AbsOf
  <2>9. \A dynamo, t0, c0 : ProgressOK(q, t0, c0, dynamo) => ProgressOK(r, table, copy, dynamo)
    BY <1>4, <2>1, <2>6 DEF ProgressOK
  <2> QED BY <1>1, <1>2, <2>6, <2>7, <2>8, <2>9
<1> QED BY <1>3, <1>4

\* The calls as the contract sees them.
LEMMA PendingIs ==
  [c \in Clients |-> Abstract(c)] = [c \in Clients |-> AbsOf(call[c])]
BY DEF Abstract, AbsOf, Phase, Op

\* What the contract sees of the end of a call.
Replied(c, result) ==
  /\ [x \in Clients |-> Abstract(x)]' = [[x \in Clients |-> Abstract(x)] EXCEPT ![c] = [open |-> FALSE]]
  /\ answer' = [answer EXCEPT ![c] = result] /\ answer'[c] = result

\* A call ends with an answer that can be decoded, or with an error.
LEMMA AnswerKeeps ==
  ASSUME KvInv, NEW c \in Clients, NEW result, Answer(c, result), AnswerOK(result),
         ItemsOK(items', Dynamo, backend = "memory"), ItemsOK(replica', Dynamo, FALSE)
  PROVE  KvInv' /\ Replied(c, result)
<1>1. PICK calls : calls = [call EXCEPT ![c] = NoCall]
  OBVIOUS
<1>2. /\ call' = Seeing(calls, items', replica')
      /\ answer' = [answer EXCEPT ![c] = result]
      /\ backend' = backend /\ late' = late /\ issued' = issued
  BY <1>1 DEF Answer
<1>3. /\ call = [x \in Clients |-> call[x]] /\ answer = [x \in Clients |-> answer[x]]
      /\ \A x \in Clients : ClientOK(call[x], answer[x], items, replica, Dynamo)
  BY DEF KvInv
<1>4. calls[c] = NoCall /\ \A x \in Clients : x # c => calls[x] = call[x]
  BY <1>1, <1>3
<1>5. answer'[c] = result /\ \A x \in Clients : x # c => answer'[x] = answer[x]
  BY <1>2, <1>3
<1>6. call' = [x \in Clients |-> call'[x]]
  BY <1>2 DEF Seeing
<1>7. answer' = [x \in Clients |-> answer'[x]]
  BY <1>2, <1>3
<1>8. ASSUME NEW x \in Clients
      PROVE  /\ ClientOK(call'[x], answer'[x], items', replica', Dynamo)
             /\ AbsOf(call'[x]) = IF x = c THEN [open |-> FALSE] ELSE AbsOf(call[x])
  <2>1. ClientOK(call[x], answer[x], items, replica, Dynamo)
    BY <1>3
  <2>2. CallOK(calls[x]) /\ ProgressOK(calls[x], items, replica, Dynamo)
    BY <1>4, <2>1 DEF ClientOK, CallOK, ProgressOK, NoCall
  <2>3. /\ CallOK(call'[x]) /\ AbsOf(call'[x]) = AbsOf(calls[x]) /\ call'[x].phase = calls[x].phase
        /\ ProgressOK(call'[x], items', replica', Dynamo)
    <3>1. PICK t : t = items'
      OBVIOUS
    <3>2. PICK p : p = replica'
      OBVIOUS
    <3>3. LET r == Seeing(calls, t, p)[x]
          IN  /\ CallOK(r) /\ AbsOf(r) = AbsOf(calls[x]) /\ r.phase = calls[x].phase
              /\ \A dynamo, t0, c0 : ProgressOK(calls[x], t0, c0, dynamo) => ProgressOK(r, t, p, dynamo)
      BY <2>2, SeeingKeeps
    <3> QED BY <1>2, <2>2, <3>1, <3>2, <3>3
  <2>4. CASE x = c
    <3>1. calls[x].phase = "idle" /\ AbsOf(calls[x]) = [open |-> FALSE]
      BY <1>4, <2>4 DEF NoCall, AbsOf
    <3> QED BY <1>5, <2>3, <2>4, <3>1 DEF ClientOK
  <2>5. CASE x # c
    BY <1>4, <1>5, <2>1, <2>3, <2>5 DEF ClientOK
  <2> QED BY <2>4, <2>5
<1>9. KvInv'
  BY <1>2, <1>6, <1>7, <1>8 DEF KvInv, Dynamo
<1>10. [x \in Clients |-> Abstract(x)]' = [[x \in Clients |-> Abstract(x)] EXCEPT ![c] = [open |-> FALSE]]
  <2>1. [x \in Clients |-> Abstract(x)]' = [x \in Clients |-> AbsOf(call'[x])]
    BY PendingIs DEF Abstract, AbsOf, Phase, Op
  <2> QED BY ZenonT(40), <1>8, <2>1, PendingIs
<1> QED BY <1>2, <1>5, <1>9, <1>10 DEF Replied

\* A write that the table can hold takes effect exactly when the contract permits
\* it, and leaves what the contract says.
LEMMA TableWrite ==
  ASSUME KvInv, NEW op \in Calls, IsWrite(op), ~Malformed(op)
  PROVE  /\ ConditionsHold(items, op.ops) /\ Applicable(items, op.ops) <=> Contract!Permitted(op)
         /\ Contract!Result(op) = Transacted(items, op.ops)
         /\ ~ConditionsHold(items, op.ops) => ~Contract!Accepts(items, op.ops)
         /\ Dynamo => ItemsOK(Transacted(items, op.ops), Dynamo, backend = "memory")
<1>1. /\ Len(op.ops) \in Nat /\ op.type \in {"put", "update", "transact"}
      /\ \A i \in 1..Len(op.ops) : ValidOperation(op.ops[i]) /\ op.ops[i].key \in Keys
  BY CallFacts
<1>2. RequestValid(op.ops)
  BY <1>1 DEF Malformed
<1>3. items = [k \in Keys |-> items[k]] /\ DOMAIN items = Keys
  BY DEF KvInv, ItemsOK
<1>4. Transaction(op.ops, items)
  BY <1>1, <1>2, <1>3 DEF Transaction
<1>5. ASSUME NEW i \in 1..Len(op.ops)
      PROVE  /\ /\ ItemCondition(op.ops[i], items[op.ops[i].key])
                /\ op.ops[i].type = "Update" => PathsValid(items[op.ops[i].key], op.ops[i].expr)
                <=> Contract!Possible(op.ops[i], items[op.ops[i].key])
             /\ Validates(op.ops[i], items[op.ops[i].key]) => Contract!Possible(op.ops[i], items[op.ops[i].key])
  <2>1. ValidOperation(op.ops[i]) /\ (op.ops[i].type = "Update" => ExpressionParses(op.ops[i].expr))
    BY <1>1, <1>2 DEF RequestValid
  <2> QED BY <2>1, ConditionMeansPossible
<1>6. ConditionsHold(items, op.ops) /\ Applicable(items, op.ops) <=> Contract!Permitted(op)
  BY <1>5 DEF ConditionsHold, Applicable, Contract!Permitted
<1>7. Contract!Result(op) = Transacted(items, op.ops)
  <2>1. Contract!Result(op) = IF Accepts(items, op.ops) THEN ApplyPlan(items, op.ops)
                              ELSE Transacted(items, op.ops)
    BY CopyAccepts, CopyApplyPlan, CopyTransacted DEF Contract!Result
  <2>2. Accepts(items, op.ops) => ApplyPlan(items, op.ops) = Transacted(items, op.ops)
    BY <1>4, TransactionsAgree
  <2> QED BY <2>1, <2>2
<1>8. ~ConditionsHold(items, op.ops) => ~Contract!Accepts(items, op.ops)
  <2>1. Accepts(items, op.ops) => ConditionsHold(items, op.ops)
    BY <1>5 DEF Accepts, ConditionsHold
  <2> QED BY <2>1, CopyAccepts
<1>9. ASSUME Dynamo PROVE ItemsOK(Transacted(items, op.ops), Dynamo, backend = "memory")
  <2>1. PICK t : t = Transacted(items, op.ops)
    OBVIOUS
  <2>2. t = [k \in Keys |-> t[k]]
    BY <1>3, <2>1 DEF Transacted
  <2>3. ASSUME NEW k \in Keys, t[k] # NoItem PROVE Splits(k)
    <3>1. CASE \E i \in 1..Len(op.ops) : op.ops[i].key = k
      BY <1>2, <3>1 DEF RequestValid
    <3>2. CASE ~ \E i \in 1..Len(op.ops) : op.ops[i].key = k
      <4>1. t[k] = items[k]
        BY <1>3, <2>1, <3>2 DEF Transacted
      <4> QED BY <1>9, <2>3, <4>1 DEF KvInv, ItemsOK
    <3> QED BY <3>1, <3>2
  <2>4. backend # "memory"
    BY <1>9 DEF Dynamo
  <2> QED BY <2>1, <2>2, <2>3, <2>4 DEF ItemsOK
<1> QED BY <1>6, <1>7, <1>8, <1>9

\* A write that the in-memory backend accepts is one that the contract permits,
\* and every item can be decoded afterwards.
LEMMA MemoryWrite ==
  ASSUME KvInv, backend = "memory", NEW op \in Calls, IsWrite(op), Accepts(items, op.ops)
  PROVE  /\ Contract!Permitted(op) /\ Contract!Result(op) = ApplyPlan(items, op.ops)
         /\ ItemsOK(ApplyPlan(items, op.ops), Dynamo, backend = "memory")
<1>1. /\ Len(op.ops) \in Nat
      /\ \A i \in 1..Len(op.ops) : ValidOperation(op.ops[i]) /\ op.ops[i].key \in Keys
  BY CallFacts
<1>2. items = [k \in Keys |-> items[k]] /\ DOMAIN items = Keys
  BY DEF KvInv, ItemsOK
<1>3. Contract!Permitted(op)
  BY CopyValidates DEF Accepts, Contract!Permitted, Contract!Possible
<1>4. Contract!Result(op) = ApplyPlan(items, op.ops)
  BY CopyAccepts, CopyApplyPlan DEF Contract!Result
<1>5. PICK t : t = ApplyPlan(items, op.ops)
  OBVIOUS
<1>6. /\ t = [k \in Keys |-> t[k]]
      /\ \A k \in Keys : \/ t[k] = items[k]
                         \/ \E i \in 1..Len(op.ops) :
                              /\ op.ops[i].key = k /\ op.ops[i].type # "ConditionCheck"
                              /\ t[k] = Planned(op.ops[i], items[k])
  <2>1. PICK tb : tb = items
    OBVIOUS
  <2>2. tb = [k \in DOMAIN tb |-> tb[k]] /\ DOMAIN tb = Keys
    BY <1>2, <2>1
  <2>3. Stems(ApplyPlan(tb, op.ops), tb, op.ops)
    BY <1>1, <2>2, PlanStems
  <2> QED BY <1>5, <2>1, <2>2, <2>3 DEF Stems
<1>7. ASSUME NEW k \in Keys PROVE Decodes(t[k])
  <2>1. Decodes(items[k])
    BY DEF KvInv, ItemsOK
  <2>2. ASSUME NEW i \in 1..Len(op.ops), op.ops[i].type # "ConditionCheck"
        PROVE  Decodes(Planned(op.ops[i], items[k]))
    <3>1. PICK o : o = op.ops[i]
      OBVIOUS
    <3>2. ValidOperation(o) /\ o.type \in {"Put", "Update", "Delete"}
      BY <1>1, <2>2, <3>1 DEF ValidOperation
    <3>3. CASE o.type = "Put"
      BY <3>1, <3>2, <3>3 DEF Planned, ValidOperation
    <3>4. CASE o.type = "Delete"
      BY <3>1, <3>4 DEF Planned, Decodes, NoItem, IsU64, IsMap
    <3>5. CASE o.type = "Update"
      <4>1. Len(o.expr) \in Nat /\ \A j \in 1..Len(o.expr) : ValidAction(o.expr[j])
        BY <3>2, <3>5 DEF ValidOperation, IsSequence
      <4>2. Decodes(apply_update_actions(items[k], o.expr))
        BY <2>1, <4>1, UpdateDecodes
      <4> QED BY <3>1, <3>5, <4>2 DEF Planned
    <3> QED BY <3>2, <3>3, <3>4, <3>5
  <2> QED BY <1>6, <2>1, <2>2
<1>8. ~Dynamo
  BY DEF Dynamo
<1> QED BY <1>3, <1>4, <1>5, <1>6, <1>7, <1>8 DEF ItemsOK

\* What the error of each operation is mapped to.
LEMMA ErrorsMean ==
  ASSUME NEW op
  PROVE  /\ MapError(op, ServiceError("ValidationException", 400), {}) = Transport(FALSE)
         /\ MapError(op, ServiceError("ValidationException", 400), {"ValidationError"}) = Transport(FALSE)
         /\ op.type = "put" =>
              MapError(op, ServiceError("ConditionalCheckFailedException", 400),
                       {"ConditionalCheckFailed"}) = ConditionFailed
         /\ op.type = "transact" =>
              MapError(op, ServiceError("TransactionCanceledException", 400),
                       {"ConditionalCheckFailed"}) = ConditionFailed
         /\ \A err \in Unknowns : MapError(op, err, {}) = Transport(TRUE)
         /\ \A err \in Refusals(op) : \E b \in BOOLEAN :
              MapError(op, err, {"TransactionConflict"}) = Transport(b)
<1>1. MapError(op, ServiceError("ValidationException", 400), {}) = Transport(FALSE)
  BY DEF MapError, ServiceError, map_put_item_error, map_transact_write_items_error,
         ddb_generic_error, ddb_generic_transport, StatusRetryable
<1>2. MapError(op, ServiceError("ValidationException", 400), {"ValidationError"}) = Transport(FALSE)
  BY DEF MapError, ServiceError, map_put_item_error, map_transact_write_items_error,
         ddb_generic_error, ddb_generic_transport, StatusRetryable
<1>3. op.type = "put" =>
        MapError(op, ServiceError("ConditionalCheckFailedException", 400),
                 {"ConditionalCheckFailed"}) = ConditionFailed
  BY DEF MapError, ServiceError, map_put_item_error
<1>4. op.type = "transact" =>
        MapError(op, ServiceError("TransactionCanceledException", 400),
                 {"ConditionalCheckFailed"}) = ConditionFailed
  BY DEF MapError, ServiceError, map_transact_write_items_error
<1>5. ASSUME NEW err \in Unknowns PROVE MapError(op, err, {}) = Transport(TRUE)
  <2>1. CASE err = SdkFailure("TimeoutError")
    BY <2>1 DEF MapError, SdkFailure, map_put_item_error, map_transact_write_items_error,
         ddb_generic_error, ddb_transport_error, transport_error
  <2>2. CASE err = ServiceError("InternalServerError", 500)
    BY <2>2 DEF MapError, ServiceError, map_put_item_error, map_transact_write_items_error,
         ddb_generic_error, ddb_generic_transport, StatusRetryable
  <2> QED BY <2>1, <2>2 DEF Unknowns
<1>6. ASSUME NEW err \in Refusals(op)
      PROVE  \E b \in BOOLEAN : MapError(op, err, {"TransactionConflict"}) = Transport(b)
  <2>1. err.variant = "ServiceError" /\ err.code # "ConditionalCheckFailedException"
    BY DEF Refusals, ServiceError
  <2>2. MapError(op, err, {"TransactionConflict"}) = ddb_generic_transport(err)
    BY <2>1 DEF MapError, map_put_item_error, map_transact_write_items_error, ddb_generic_error
  <2>3. PICK b : b = (\/ err.code \in {"ProvisionedThroughputExceededException", "ThrottlingException",
                             "RequestLimitExceeded", "InternalServerError",
                             "LimitExceededException", "TransactionInProgressException"}
                      \/ StatusRetryable(err.status))
    OBVIOUS
  <2>4. b \in BOOLEAN
    BY <2>3 DEF StatusRetryable
  <2> QED BY <2>2, <2>3, <2>4 DEF ddb_generic_transport
<1> QED BY <1>1, <1>2, <1>3, <1>4, <1>5, <1>6

\* An answer without a value.
LEMMA PlainAnswers ==
  /\ AnswerOK(NotFound) /\ AnswerOK(ConditionFailed) /\ AnswerOK(Ok(NoItem)) /\ AnswerOK(Unanswered)
  /\ \A b : AnswerOK(Transport(b))
  /\ \A value : Decodes(value) => AnswerOK(Ok(value))
  /\ \A found : (\A pair \in found : Decodes(pair[2])) => AnswerOK(Listed(found))
BY DEF AnswerOK, Returned, NotFound, ConditionFailed, Ok, Unanswered, Transport, Listed, NoItem,
       Decodes, IsU64, IsMap

---------------------------------------------------------------------------
(* Every step keeps the invariant and is a step of the contract, or none. *)

Simulated == Contract!Next \/ UNCHANGED Contract!vars

\* A call under way, and how the contract sees it.
LEMMA Pending ==
  ASSUME KvInv, NEW c \in Clients, Phase(c) # "idle"
  PROVE  LET pending == [x \in Clients |-> Abstract(x)]
         IN  /\ pending[c].open /\ pending[c].op = Op(c) /\ pending[c].took = call[c].took
             /\ pending[c].refused = (Phase(c) = "refused")
             /\ Op(c) \in Calls /\ (call[c].took => IsWrite(Op(c)) /\ ~Malformed(Op(c)))
             /\ CallOK(call[c]) /\ answer[c] = Unanswered
             /\ call[c].took \in BOOLEAN /\ (backend = "memory" => call[c].took = FALSE)
<1>1. ClientOK(call[c], answer[c], items, replica, Dynamo)
  BY DEF KvInv
<1>2. CallOK(call[c]) /\ answer[c] = Unanswered
  BY <1>1 DEF ClientOK, Phase
<1>4. call[c].took \in BOOLEAN
  BY <1>2, OpenCall DEF Phase
<1>5. call[c].took => Dynamo
  BY <1>1 DEF ClientOK, ProgressOK, Phase
<1>6. backend = "memory" => call[c].took = FALSE
  BY <1>4, <1>5 DEF Dynamo
<1>3. call[c].op \in Calls /\ (call[c].took => IsWrite(call[c].op) /\ ~Malformed(call[c].op))
  BY <1>2, OpenCall DEF Phase
<1> QED BY <1>2, <1>3, <1>4, <1>6 DEF Abstract, Phase, Op

\* The contract's Reply is the end of a call.
LEMMA ReplyIs ==
  ASSUME NEW c, NEW result
  PROVE  Replied(c, result) => Contract!Reply(c, result)
BY DEF Replied, Contract!Reply, Contract!Idle

\* A step that replaces one client's call.
LEMMA ReplaceKeeps ==
  ASSUME KvInv, NEW c \in Clients, NEW r, NEW a,
         call' = [call EXCEPT ![c] = r], answer' = [answer EXCEPT ![c] = a],
         ClientOK(r, a, items, replica, Dynamo), UNCHANGED <<backend, items, replica>>,
         issued' \in 0..MaxCalls, LateOK(late', Dynamo)
  PROVE  /\ KvInv'
         /\ [x \in Clients |-> Abstract(x)]' = [[x \in Clients |-> Abstract(x)] EXCEPT ![c] = AbsOf(r)]
<1>1. call = [x \in Clients |-> call[x]] /\ answer = [x \in Clients |-> answer[x]]
  BY DEF KvInv
<1>2. /\ call' = [x \in Clients |-> call'[x]] /\ answer' = [x \in Clients |-> answer'[x]]
      /\ call'[c] = r /\ answer'[c] = a
      /\ \A x \in Clients : x # c => call'[x] = call[x] /\ answer'[x] = answer[x]
  BY <1>1
<1>3. \A x \in Clients : ClientOK(call'[x], answer'[x], items, replica, Dynamo)
  BY <1>2 DEF KvInv
<1>4. KvInv'
  BY <1>2, <1>3 DEF KvInv, Dynamo
<1>5. [x \in Clients |-> Abstract(x)]' = [[x \in Clients |-> Abstract(x)] EXCEPT ![c] = AbsOf(r)]
  <2>1. [x \in Clients |-> Abstract(x)]' = [x \in Clients |-> AbsOf(call'[x])]
    BY DEF Abstract, AbsOf, Phase, Op
  <2> QED BY <1>2, <2>1, PendingIs
<1> QED BY <1>4, <1>5

\* A step after which the calls see new items.
LEMMA SeenKeeps ==
  ASSUME KvInv, NEW calls, call' = Seeing(calls, items', replica'),
         \A x \in Clients : /\ CallOK(calls[x]) /\ ProgressOK(calls[x], items, replica, Dynamo)
                            /\ calls[x].phase # "idle" => answer[x] = Unanswered,
         UNCHANGED <<backend, answer, issued>>, LateOK(late', Dynamo),
         ItemsOK(items', Dynamo, backend = "memory"), ItemsOK(replica', Dynamo, FALSE)
  PROVE  KvInv' /\ [x \in Clients |-> Abstract(x)]' = [x \in Clients |-> AbsOf(calls[x])]
<1>1. call' = [x \in Clients |-> call'[x]]
  BY DEF Seeing
<1>2. ASSUME NEW x \in Clients
      PROVE  ClientOK(call'[x], answer[x], items', replica', Dynamo) /\ AbsOf(call'[x]) = AbsOf(calls[x])
  <2>1. PICK t : t = items'
    OBVIOUS
  <2>2. PICK p : p = replica'
    OBVIOUS
  <2>3. LET r == Seeing(calls, t, p)[x]
        IN  /\ CallOK(r) /\ AbsOf(r) = AbsOf(calls[x]) /\ r.phase = calls[x].phase
            /\ \A dynamo, t0, c0 : ProgressOK(calls[x], t0, c0, dynamo) => ProgressOK(r, t, p, dynamo)
    BY SeeingKeeps
  <2>4. AnswerOK(answer[x])
    BY DEF KvInv, ClientOK
  <2> QED BY <2>1, <2>2, <2>3, <2>4 DEF ClientOK
<1>3. KvInv'
  BY <1>1, <1>2 DEF KvInv, Dynamo
<1>4. [x \in Clients |-> Abstract(x)]' = [x \in Clients |-> AbsOf(call'[x])]
  BY DEF Abstract, AbsOf, Phase, Op
<1> QED BY <1>2, <1>3, <1>4

\* The items that a read, a refusal or an error leaves as they are.
LEMMA SameItems ==
  ASSUME KvInv, UNCHANGED <<items, replica>>
  PROVE  ItemsOK(items', Dynamo, backend = "memory") /\ ItemsOK(replica', Dynamo, FALSE)
BY DEF KvInv

\* A new call: what a query must report is yet to be evaluated.
LEMMA InvokeStep ==
  ASSUME KvInv, NEW c \in Clients, NEW op \in Calls, Invoke(c, op)
  PROVE  KvInv' /\ Simulated
<1>1. PICK r : r = Called(op)
  OBVIOUS
<1>2. PICK m : m = Matching(op)
  OBVIOUS
<1>3. PICK s : s = IF op.type = "query" THEN Selected(Keys, op.prefix) ELSE {}
  OBVIOUS
<1>4. r = [phase |-> "sent", op |-> op, resends |-> 0, took |-> FALSE,
           rest |-> s, found |-> {}, stable |-> m]
  BY <1>1, <1>2, <1>3 DEF Called
<1>5. /\ r.phase = "sent" /\ r.op = op /\ r.resends = 0 /\ r.took = FALSE
      /\ r.rest = s /\ r.found = {} /\ r.stable = m
  BY <1>4
<1>6. /\ \A k \in s : k \in Selected(Keys, op.prefix)
      /\ \A k \in m : /\ k \in Keys /\ starts_with(k, op.prefix) /\ items[k] # NoItem
                      /\ HasSlash(op.prefix) \/ replica[k] # NoItem
                      /\ op.type = "query"
  BY <1>2, <1>3 DEF Matching
<1>7. ASSUME Dynamo, NEW k \in m PROVE k \in s
  <2>1. k \in Keys /\ items[k] # NoItem /\ op.type = "query" /\ starts_with(k, op.prefix)
    BY <1>6
  <2>2. Splits(k)
    BY <1>7, <2>1 DEF KvInv, ItemsOK
  <2>3. Keys \subseteq Seq(STRING) /\ op.prefix \in Seq(STRING)
    BY <2>1, CallFacts, KvAssumption
  <2>4. k \in Selected(Keys, op.prefix)
    BY <2>1, <2>2, <2>3, SelectedByPrefix
  <2> QED BY <1>3, <2>1, <2>4
<1>8. CallOK(r)
  <2>1. 0 \in 0..MaxResends
    BY KvAssumption
  <2> QED BY <1>4, <1>5, <1>6, <2>1 DEF CallOK
<1>9. ProgressOK(r, items, replica, Dynamo)
  BY <1>5, <1>6, <1>7 DEF ProgressOK
<1>10. ClientOK(r, Unanswered, items, replica, Dynamo)
  BY <1>8, <1>9, PlainAnswers DEF ClientOK
<1>11. /\ call' = [call EXCEPT ![c] = r] /\ answer' = [answer EXCEPT ![c] = Unanswered]
       /\ UNCHANGED <<backend, items, replica, late>> /\ issued' \in 0..MaxCalls
       /\ LateOK(late', Dynamo) /\ Phase(c) = "idle"
  BY <1>1, KvAssumption DEF Invoke, KvInv
<1>12. /\ KvInv'
       /\ [x \in Clients |-> Abstract(x)]' = [[x \in Clients |-> Abstract(x)] EXCEPT ![c] = AbsOf(r)]
  BY <1>10, <1>11, ReplaceKeeps
<1>13. AbsOf(r) = Contract!Started(op)
  BY <1>5 DEF AbsOf, Contract!Started, Contract!Under
<1>14. ~Contract!Open(c)
  BY <1>11 DEF Contract!Open, Abstract
<1>15. Contract!Invoke(c, op)
  BY <1>11, <1>12, <1>13, <1>14, CopyValues DEF Contract!Invoke
<1> QED BY <1>12, <1>15 DEF Simulated, Contract!Next

\* get in memory reads the item.
LEMMA MemoryGetStep ==
  ASSUME KvInv, NEW c \in Clients, MemoryGet(c)
  PROVE  KvInv' /\ Simulated
<1>1. PICK result : result = IF items[Op(c).key] = NoItem THEN NotFound ELSE Ok(items[Op(c).key])
  OBVIOUS
<1>2. /\ backend = "memory" /\ Phase(c) = "sent" /\ Op(c).type = "get"
      /\ UNCHANGED <<items, replica>> /\ Answer(c, result)
  BY <1>1 DEF MemoryGet, Sent
<1>3. Op(c) \in Calls /\ Contract!Open(c) /\ [x \in Clients |-> Abstract(x)][c].op = Op(c)
  BY <1>2, Pending DEF Contract!Open
<1>4. Op(c).key \in Keys
  BY <1>2, <1>3, CallFacts
<1>5. AnswerOK(result)
  <2>1. Decodes(items[Op(c).key])
    BY <1>2, <1>4 DEF KvInv, ItemsOK
  <2> QED BY <1>1, <2>1, PlainAnswers
<1>6. KvInv' /\ Replied(c, result)
  BY <1>2, <1>5, SameItems, AnswerKeeps
<1>7. Contract!Read(c)
  <2>1. Contract!Reply(c, result)
    BY <1>6, ReplyIs
  <2> QED BY <1>1, <1>2, <1>3, <1>6, <2>1, CopyValues DEF Contract!Read, Answer
<1> QED BY <1>6, <1>7 DEF Simulated, Contract!Next

\* put in memory writes the item when its conditions hold.
LEMMA MemoryPutStep ==
  ASSUME KvInv, NEW c \in Clients, MemoryPut(c)
  PROVE  KvInv' /\ Simulated
<1>1. PICK o : o = Op(c).ops[1]
  OBVIOUS
<1>2. backend = "memory" /\ Phase(c) = "sent" /\ Op(c).type = "put" /\ replica' = replica
  BY DEF MemoryPut, Sent
<1>3. /\ Op(c) \in Calls /\ Contract!Open(c) /\ [x \in Clients |-> Abstract(x)][c].op = Op(c)
      /\ [x \in Clients |-> Abstract(x)][c].took = FALSE
  BY <1>2, Pending DEF Contract!Open
<1>4. /\ IsWrite(Op(c)) /\ Len(Op(c).ops) = 1 /\ o.type = "Put" /\ o.key = Op(c).key /\ o.key \in Keys
  BY <1>1, <1>2, <1>3, CallFacts
<1>5. Accepts(items, Op(c).ops) <=> check_conditions(items[o.key], o.conditions)
  BY <1>1, <1>4 DEF Accepts, Validates
<1>6. ItemsOK(replica', Dynamo, FALSE)
  BY <1>2 DEF KvInv
<1>7. CASE ~check_conditions(items[o.key], o.conditions) /\ items' = items /\ Answer(c, ConditionFailed)
  <2>1. KvInv' /\ Replied(c, ConditionFailed)
    <3>1. ItemsOK(items', Dynamo, backend = "memory")
      BY <1>7 DEF KvInv
    <3> QED BY <1>6, <1>7, <3>1, PlainAnswers, AnswerKeeps
  <2>2. ~Contract!Accepts(items, Op(c).ops)
    BY <1>5, <1>7, CopyAccepts
  <2>3. Contract!Reason(Op(c)) = ConditionFailed
    BY <1>2, CopyValues DEF Contract!Reason
  <2>4. Contract!Reply(c, ConditionFailed)
    BY <2>1, ReplyIs
  <2>5. Contract!Refuse(c)
    BY <1>3, <1>4, <1>7, <2>2, <2>3, <2>4, CopyValues DEF Contract!Refuse, Answer
  <2> QED BY <2>1, <2>5 DEF Simulated, Contract!Next
<1>8. CASE /\ check_conditions(items[o.key], o.conditions)
           /\ items' = [items EXCEPT ![o.key] = o.value] /\ Answer(c, Ok(NoItem))
  <2>1. items = [k \in Keys |-> items[k]] /\ DOMAIN items = Keys
    BY DEF KvInv, ItemsOK
  <2>2. ApplyPlan(items, Op(c).ops) = [items EXCEPT ![o.key] = Planned(o, items[o.key])]
    <3>1. PICK t : t = items
      OBVIOUS
    <3>2. ApplyPlan(t, Op(c).ops) = [t EXCEPT ![o.key] = Planned(o, t[o.key])]
      BY <1>1, <1>4, <2>1, <3>1, SingleWrite
    <3> QED BY <3>1, <3>2
  <2>3. Planned(o, items[o.key]) = o.value
    BY <1>4 DEF Planned
  <2>4. /\ Contract!Permitted(Op(c)) /\ Contract!Result(Op(c)) = items'
        /\ ItemsOK(items', Dynamo, backend = "memory")
    BY <1>2, <1>3, <1>4, <1>5, <1>8, <2>2, <2>3, MemoryWrite
  <2>5. KvInv' /\ Replied(c, Ok(NoItem))
    BY <1>6, <1>8, <2>4, PlainAnswers, AnswerKeeps
  <2>6. Contract!Reply(c, Ok(NoItem)) /\ Contract!Returned(Op(c)) = Ok(NoItem)
    BY <1>2, <2>5, ReplyIs, CopyValues DEF Contract!Returned
  <2>7. Contract!Succeed(c)
    BY <1>3, <1>4, <1>8, <2>4, <2>6, CopyValues DEF Contract!Succeed, Answer
  <2> QED BY <2>5, <2>7 DEF Simulated, Contract!Next
<1> QED BY <1>1, <1>7, <1>8 DEF MemoryPut

\* atomic_update in memory: NotFound, ConditionFailed or the item after it.
LEMMA MemoryAtomicUpdateStep ==
  ASSUME KvInv, NEW c \in Clients, MemoryAtomicUpdate(c)
  PROVE  KvInv' /\ Simulated
<1>1. PICK o : o = Op(c).ops[1]
  OBVIOUS
<1>0. PICK u : u = apply_update_actions(items[o.key], o.expr)
  OBVIOUS
<1>2. backend = "memory" /\ Phase(c) = "sent" /\ Op(c).type = "update" /\ replica' = replica
  BY DEF MemoryAtomicUpdate, Sent
<1>3. /\ Op(c) \in Calls /\ Contract!Open(c) /\ [x \in Clients |-> Abstract(x)][c].op = Op(c)
      /\ [x \in Clients |-> Abstract(x)][c].took = FALSE
  BY <1>2, Pending DEF Contract!Open
<1>4. IsWrite(Op(c)) /\ Len(Op(c).ops) = 1 /\ o.type = "Update" /\ o.key = Op(c).key /\ o.key \in Keys
  BY <1>1, <1>2, <1>3, CallFacts
<1>5. Accepts(items, Op(c).ops) <=>
        check_conditions(items[o.key], o.conditions) /\ items[o.key] # NoItem /\ u # NoItem
  BY <1>0, <1>1, <1>4 DEF Accepts, Validates
<1>6. ItemsOK(replica', Dynamo, FALSE)
  BY <1>2 DEF KvInv
<1>7. ASSUME NEW result, result = Contract!Reason(Op(c)), result \in {NotFound, ConditionFailed},
             ~Accepts(items, Op(c).ops), items' = items, Answer(c, result)
      PROVE  KvInv' /\ Simulated
  <2>1. KvInv' /\ Replied(c, result)
    <3>1. ItemsOK(items', Dynamo, backend = "memory") /\ AnswerOK(result)
      BY <1>7, PlainAnswers DEF KvInv
    <3> QED BY <1>6, <1>7, <3>1, AnswerKeeps
  <2>2. ~Contract!Accepts(items, Op(c).ops)
    BY <1>7, CopyAccepts
  <2>3. Contract!Reply(c, result)
    BY <2>1, ReplyIs
  <2>4. Contract!Refuse(c)
    BY <1>3, <1>4, <1>7, <2>2, <2>3, CopyValues DEF Contract!Refuse, Answer
  <2> QED BY <2>1, <2>4 DEF Simulated, Contract!Next
<1>8. CASE items[o.key] = NoItem /\ items' = items /\ Answer(c, NotFound)
  <2>1. Contract!Reason(Op(c)) = NotFound
    BY <1>2, <1>4, <1>8, CopyValues DEF Contract!Reason
  <2> QED BY <1>5, <1>7, <1>8, <2>1
<1>9. CASE /\ items[o.key] # NoItem /\ (~check_conditions(items[o.key], o.conditions) \/ u = NoItem)
           /\ items' = items /\ Answer(c, ConditionFailed)
  <2>1. Contract!Reason(Op(c)) = ConditionFailed
    BY <1>2, <1>4, <1>9, CopyValues DEF Contract!Reason
  <2> QED BY <1>5, <1>7, <1>9, <2>1
<1>10. CASE /\ items[o.key] # NoItem /\ check_conditions(items[o.key], o.conditions) /\ u # NoItem
            /\ items' = [items EXCEPT ![o.key] = u] /\ Answer(c, Ok(u))
  <2>1. items = [k \in Keys |-> items[k]] /\ DOMAIN items = Keys
    BY DEF KvInv, ItemsOK
  <2>2. ApplyPlan(items, Op(c).ops) = [items EXCEPT ![o.key] = Planned(o, items[o.key])]
    <3>1. PICK t : t = items
      OBVIOUS
    <3>2. ApplyPlan(t, Op(c).ops) = [t EXCEPT ![o.key] = Planned(o, t[o.key])]
      BY <1>1, <1>4, <2>1, <3>1, SingleWrite
    <3> QED BY <3>1, <3>2
  <2>3. Planned(o, items[o.key]) = u
    BY <1>0, <1>4 DEF Planned
  <2>4. /\ Contract!Permitted(Op(c)) /\ Contract!Result(Op(c)) = items'
        /\ ItemsOK(items', Dynamo, backend = "memory")
    BY <1>2, <1>3, <1>4, <1>5, <1>10, <2>2, <2>3, MemoryWrite
  <2>5. items'[o.key] = u /\ Decodes(u)
    BY <1>2, <1>4, <1>10, <2>1, <2>4 DEF ItemsOK
  <2>6. KvInv' /\ Replied(c, Ok(u))
    BY <1>6, <1>10, <2>4, <2>5, PlainAnswers, AnswerKeeps
  <2>7. Contract!Reply(c, Ok(u)) /\ Contract!Returned(Op(c)) = Ok(u)
    BY <1>2, <1>4, <2>4, <2>5, <2>6, ReplyIs, CopyValues DEF Contract!Returned
  <2>8. Contract!Succeed(c)
    BY <1>3, <1>4, <1>10, <2>4, <2>7, CopyValues DEF Contract!Succeed, Answer
  <2> QED BY <2>6, <2>8 DEF Simulated, Contract!Next
<1> QED BY <1>0, <1>1, <1>8, <1>9, <1>10 DEF MemoryAtomicUpdate

\* transact in memory: everything or nothing.
LEMMA MemoryTransactStep ==
  ASSUME KvInv, NEW c \in Clients, MemoryTransact(c)
  PROVE  KvInv' /\ Simulated
<1>2. backend = "memory" /\ Phase(c) = "sent" /\ Op(c).type = "transact" /\ replica' = replica
  BY DEF MemoryTransact, Sent
<1>3. /\ Op(c) \in Calls /\ Contract!Open(c) /\ [x \in Clients |-> Abstract(x)][c].op = Op(c)
      /\ [x \in Clients |-> Abstract(x)][c].took = FALSE
  BY <1>2, Pending DEF Contract!Open
<1>4. IsWrite(Op(c))
  BY <1>2, <1>3, CallFacts
<1>6. ItemsOK(replica', Dynamo, FALSE)
  BY <1>2 DEF KvInv
<1>7. CASE ~Accepts(items, Op(c).ops) /\ items' = items /\ Answer(c, ConditionFailed)
  <2>1. KvInv' /\ Replied(c, ConditionFailed)
    <3>1. ItemsOK(items', Dynamo, backend = "memory")
      BY <1>7 DEF KvInv
    <3> QED BY <1>6, <1>7, <3>1, PlainAnswers, AnswerKeeps
  <2>2. ~Contract!Accepts(items, Op(c).ops)
    BY <1>7, CopyAccepts
  <2>3. Contract!Reason(Op(c)) = ConditionFailed
    BY <1>2, CopyValues DEF Contract!Reason
  <2>4. Contract!Reply(c, ConditionFailed)
    BY <2>1, ReplyIs
  <2>5. Contract!Refuse(c)
    BY <1>3, <1>4, <1>7, <2>2, <2>3, <2>4, CopyValues DEF Contract!Refuse, Answer
  <2> QED BY <2>1, <2>5 DEF Simulated, Contract!Next
<1>8. CASE Accepts(items, Op(c).ops) /\ items' = ApplyPlan(items, Op(c).ops) /\ Answer(c, Ok(NoItem))
  <2>4. /\ Contract!Permitted(Op(c)) /\ Contract!Result(Op(c)) = items'
        /\ ItemsOK(items', Dynamo, backend = "memory")
    BY <1>2, <1>3, <1>4, <1>8, MemoryWrite
  <2>5. KvInv' /\ Replied(c, Ok(NoItem))
    BY <1>6, <1>8, <2>4, PlainAnswers, AnswerKeeps
  <2>6. Contract!Reply(c, Ok(NoItem)) /\ Contract!Returned(Op(c)) = Ok(NoItem)
    BY <1>2, <2>5, ReplyIs, CopyValues DEF Contract!Returned
  <2>7. Contract!Succeed(c)
    BY <1>3, <1>4, <1>8, <2>4, <2>6, CopyValues DEF Contract!Succeed, Answer
  <2> QED BY <2>5, <2>7 DEF Simulated, Contract!Next
<1> QED BY <1>7, <1>8 DEF MemoryTransact

\* A query that ends reports items with its prefix.
LEMMA ListStep ==
  ASSUME KvInv, NEW c \in Clients, Phase(c) = "sent", Op(c).type = "query", NEW found,
         \A pair \in found : starts_with(pair[1], Op(c).prefix) /\ Decodes(pair[2]),
         UNCHANGED <<items, replica>>, Answer(c, Listed(found))
  PROVE  KvInv' /\ Simulated
<1>1. Contract!Open(c) /\ [x \in Clients |-> Abstract(x)][c].op = Op(c)
  BY Pending DEF Contract!Open
<1>2. KvInv' /\ Replied(c, Listed(found))
  BY SameItems, PlainAnswers, AnswerKeeps
<1>3. answer'[c] = Listed(found) /\ Contract!Reply(c, answer'[c])
  BY <1>2, ReplyIs DEF Replied
<1>4. answer'[c].type = "Ok" /\ answer'[c].list = found
  BY <1>3 DEF Listed
<1>5. Contract!List(c)
  BY <1>1, <1>3, <1>4, CopyValues DEF Contract!List, Answer
<1> QED BY <1>2, <1>5 DEF Simulated, Contract!Next

\* query in memory.
LEMMA MemoryQueryStep ==
  ASSUME KvInv, NEW c \in Clients, MemoryQuery(c)
  PROVE  KvInv' /\ Simulated
<1>1. PICK found : found = {<<k, items[k]>> : k \in {k \in Keys : /\ items[k] # NoItem
                                                              /\ starts_with(k, Op(c).prefix)}}
  OBVIOUS
<1>2. /\ backend = "memory" /\ Phase(c) = "sent" /\ Op(c).type = "query"
      /\ UNCHANGED <<items, replica>> /\ Answer(c, Listed(found))
  BY <1>1 DEF MemoryQuery, Sent
<1>3. \A k \in Keys : Decodes(items[k])
  BY <1>2 DEF KvInv, ItemsOK
<1>4. ASSUME NEW pair \in found PROVE starts_with(pair[1], Op(c).prefix) /\ Decodes(pair[2])
  BY <1>1, <1>3
<1> QED BY <1>2, <1>4, ListStep

\* A terminal Transport error answers a call that wrote nothing, or a write that
\* took effect and was sent again.
LEMMA TerminalStep ==
  ASSUME KvInv, NEW c \in Clients, Phase(c) # "idle",
         UNCHANGED <<items, replica>>, Answer(c, Transport(FALSE))
  PROVE  KvInv' /\ Simulated
<1>1. /\ Contract!Open(c) /\ [x \in Clients |-> Abstract(x)][c].op = Op(c)
      /\ [x \in Clients |-> Abstract(x)][c].took = call[c].took
      /\ call[c].took => IsWrite(Op(c))
  BY Pending DEF Contract!Open
<1>2. KvInv' /\ Replied(c, Transport(FALSE))
  BY SameItems, PlainAnswers, AnswerKeeps
<1>3. Contract!Reply(c, Contract!Transport(FALSE))
  BY <1>2, ReplyIs, CopyValues
<1>4. CASE ~call[c].took
  <2>1. Contract!FailTerminal(c)
    BY <1>1, <1>3, <1>4 DEF Contract!FailTerminal, Answer
  <2> QED BY <1>2, <2>1 DEF Simulated, Contract!Next
<1>5. CASE call[c].took
  <2>1. Contract!FailAgain(c)
    BY <1>1, <1>3, <1>5, CopyValues DEF Contract!FailAgain, Answer
  <2> QED BY <1>2, <2>1 DEF Simulated, Contract!Next
<1> QED BY <1>4, <1>5

\* A retryable Transport error that leaves nothing on its way.
LEMMA RetryableStep ==
  ASSUME KvInv, NEW c \in Clients, Phase(c) # "idle",
         UNCHANGED <<items, replica>>, Answer(c, Transport(TRUE))
  PROVE  KvInv' /\ Simulated
<1>1. Contract!Open(c)
  BY Pending DEF Contract!Open
<1>2. KvInv' /\ Replied(c, Transport(TRUE))
  BY SameItems, PlainAnswers, AnswerKeeps
<1>3. Contract!Reply(c, Contract!Transport(TRUE))
  BY <1>2, ReplyIs, CopyValues
<1>4. Contract!FailRetryable(c)
  BY <1>1, <1>3 DEF Contract!FailRetryable, Answer
<1> QED BY <1>2, <1>4 DEF Simulated, Contract!Next

\* A key that split_key refuses, or a request that the service finds invalid.
LEMMA RejectMalformedStep ==
  ASSUME KvInv, NEW c \in Clients, RejectMalformed(c)
  PROVE  KvInv' /\ Simulated
<1>1. /\ Phase(c) = "sent" /\ Malformed(Op(c)) /\ UNCHANGED <<items, replica>>
      /\ Answer(c, Transport(FALSE))
  BY ZenonT(40), ErrorsMean DEF RejectMalformed
<1> QED BY <1>1, TerminalStep

\* get of the table.
LEMMA GetItemStep ==
  ASSUME KvInv, NEW c \in Clients, GetItem(c)
  PROVE  KvInv' /\ Simulated
<1>1. PICK value : value = items[Op(c).key]
  OBVIOUS
<1>2. /\ Phase(c) = "sent" /\ Op(c).type = "get" /\ UNCHANGED <<items, replica>>
      /\ Answer(c, IF value = NoItem THEN NotFound
                   ELSE IF Decodes(value) THEN Ok(value) ELSE Transport(FALSE))
  BY <1>1 DEF GetItem, Sent, Got
<1>3. /\ Phase(c) # "idle" /\ Op(c) \in Calls /\ Contract!Open(c)
      /\ [x \in Clients |-> Abstract(x)][c].op = Op(c)
  BY <1>2, Pending DEF Contract!Open
<1>4. CASE value # NoItem /\ ~Decodes(value)
  BY <1>2, <1>3, <1>4, TerminalStep
<1>5. CASE value = NoItem \/ Decodes(value)
  <2>1. PICK result : result = IF value = NoItem THEN NotFound ELSE Ok(value)
    OBVIOUS
  <2>2. Answer(c, result) /\ AnswerOK(result)
    BY <1>2, <1>5, <2>1, PlainAnswers
  <2>3. KvInv' /\ Replied(c, result)
    BY <1>2, <2>2, SameItems, AnswerKeeps
  <2>4. Contract!Reply(c, result)
    BY <2>3, ReplyIs
  <2>5. Contract!Read(c)
    BY <1>1, <1>2, <1>3, <2>1, <2>2, <2>4, CopyValues DEF Contract!Read, Answer
  <2> QED BY <2>3, <2>5 DEF Simulated, Contract!Next
<1> QED BY <1>4, <1>5

\* What holds of a write request that reached the table.
LEMMA ExecutesFacts ==
  ASSUME KvInv, NEW c \in Clients, Executes(c)
  PROVE  /\ Phase(c) = "sent" /\ Dynamo /\ backend # "memory"
         /\ IsWrite(Op(c)) /\ ~Malformed(Op(c)) /\ Op(c) \in Calls
         /\ Op(c).type \in {"put", "update", "transact"}
         /\ Contract!Open(c) /\ [x \in Clients |-> Abstract(x)][c].op = Op(c)
         /\ [x \in Clients |-> Abstract(x)][c].took = call[c].took
<1>1. Phase(c) = "sent" /\ Dynamo /\ backend # "memory" /\ IsWrite(Op(c)) /\ ~Malformed(Op(c))
  BY DEF Executes, Dynamo
<1>2. /\ Op(c) \in Calls /\ Contract!Open(c) /\ [x \in Clients |-> Abstract(x)][c].op = Op(c)
      /\ [x \in Clients |-> Abstract(x)][c].took = call[c].took
  BY <1>1, Pending DEF Contract!Open
<1>3. Op(c).type \in {"put", "update", "transact"}
  BY <1>1, <1>2, CallFacts
<1> QED BY <1>1, <1>2, <1>3

\* PutItem or TransactWriteItems is refused.
LEMMA ConditionalCheckFailedStep ==
  ASSUME KvInv, NEW c \in Clients, ConditionalCheckFailed(c)
  PROVE  KvInv' /\ Simulated
<1>1. /\ Executes(c) /\ Op(c).type # "update" /\ ~ConditionsHold(items, Op(c).ops)
      /\ UNCHANGED <<items, replica>> /\ (call[c].took => Op(c).type # "transact")
  BY DEF ConditionalCheckFailed, Repeated
<1>2. /\ IsWrite(Op(c)) /\ ~Malformed(Op(c)) /\ Op(c) \in Calls
      /\ Op(c).type \in {"put", "transact"}
      /\ Contract!Open(c) /\ [x \in Clients |-> Abstract(x)][c].op = Op(c)
      /\ [x \in Clients |-> Abstract(x)][c].took = call[c].took
  BY <1>1, ExecutesFacts
<1>3. Answer(c, ConditionFailed)
  <2>1. CASE Op(c).type = "put"
    BY ZenonT(40), <2>1, ErrorsMean DEF ConditionalCheckFailed
  <2>2. CASE Op(c).type = "transact"
    BY ZenonT(40), <2>2, ErrorsMean DEF ConditionalCheckFailed
  <2> QED BY <1>2, <2>1, <2>2
<1>4. KvInv' /\ Replied(c, ConditionFailed)
  BY <1>1, <1>3, SameItems, PlainAnswers, AnswerKeeps
<1>5. ~Contract!Accepts(items, Op(c).ops)
  BY <1>1, <1>2, TableWrite
<1>6. Contract!Reason(Op(c)) = ConditionFailed
  BY <1>1, CopyValues DEF Contract!Reason
<1>7. Contract!Reply(c, ConditionFailed)
  BY <1>4, ReplyIs
<1>8. CASE ~call[c].took
  <2>1. Contract!Refuse(c)
    BY <1>1, <1>2, <1>3, <1>5, <1>6, <1>7, <1>8, CopyValues DEF Contract!Refuse, Answer
  <2> QED BY <1>4, <2>1 DEF Simulated, Contract!Next
<1>9. CASE call[c].took
  <2>1. Op(c).type = "put"
    BY <1>1, <1>2, <1>9
  <2>2. Contract!RefuseAgain(c)
    BY <1>1, <1>2, <1>3, <1>5, <1>7, <1>9, <2>1, CopyValues DEF Contract!RefuseAgain, Answer
  <2> QED BY <1>4, <2>2 DEF Simulated, Contract!Next
<1> QED BY <1>8, <1>9

\* A step that changes the call of c but not its query.
LEMMA PhaseStep ==
  ASSUME KvInv, NEW c \in Clients, Phase(c) # "idle", NEW r, CallOK(r), r.phase # "idle",
         r.op = Op(c), r.took = call[c].took,
         r.rest = call[c].rest, r.found = call[c].found, r.stable = call[c].stable
  PROVE  ProgressOK(r, items, replica, Dynamo) /\ ClientOK(r, Unanswered, items, replica, Dynamo)
<1>1. ClientOK(call[c], answer[c], items, replica, Dynamo)
  BY DEF KvInv
<1>2. ProgressOK(call[c], items, replica, Dynamo)
  BY <1>1 DEF ClientOK
<1>3. ProgressOK(r, items, replica, Dynamo)
  BY <1>2 DEF ProgressOK, Phase, Op
<1> QED BY <1>3, PlainAnswers DEF ClientOK

\* UpdateItem is refused; the reason is looked up afterwards.
LEMMA UpdateConditionFailedStep ==
  ASSUME KvInv, NEW c \in Clients, UpdateConditionFailed(c)
  PROVE  KvInv' /\ Simulated
<1>1. /\ Executes(c) /\ Op(c).type = "update" /\ ~ConditionsHold(items, Op(c).ops)
      /\ call' = [call EXCEPT ![c].phase = "refused"]
      /\ UNCHANGED <<backend, items, replica, answer, late, issued>>
  BY DEF UpdateConditionFailed
<1>2. /\ IsWrite(Op(c)) /\ ~Malformed(Op(c)) /\ Op(c) \in Calls /\ Phase(c) = "sent"
      /\ Contract!Open(c) /\ [x \in Clients |-> Abstract(x)][c].op = Op(c)
  BY <1>1, ExecutesFacts
<1>3. CallOK(call[c]) /\ answer[c] = Unanswered
  BY <1>2, Pending
<1>4. PICK q : q = call[c]
  OBVIOUS
<1>5. PICK r : r = [q EXCEPT !.phase = "refused"]
  OBVIOUS
<1>6. q.phase = "sent" /\ q.op = Op(c) /\ CallOK(q)
  BY <1>2, <1>3, <1>4 DEF Phase, Op
<1>7. /\ q = [phase |-> q.phase, op |-> q.op, resends |-> q.resends, took |-> q.took,
              rest |-> q.rest, found |-> q.found, stable |-> q.stable]
      /\ q.op \in Calls
      /\ q.resends \in 0..MaxResends /\ q.took \in BOOLEAN
      /\ q.took => IsWrite(q.op) /\ ~Malformed(q.op)
      /\ \A k \in q.rest : k \in Selected(Keys, q.op.prefix)
      /\ \A pair \in q.found : starts_with(pair[1], q.op.prefix) /\ Decodes(pair[2])
      /\ \A k \in q.stable : k \in Keys /\ starts_with(k, q.op.prefix)
  BY <1>6, OpenCall
<1>8. /\ r = [phase |-> "refused", op |-> q.op, resends |-> q.resends, took |-> q.took,
              rest |-> q.rest, found |-> q.found, stable |-> q.stable]
  BY <1>5, <1>7
<1>9. /\ r.phase = "refused" /\ r.op = q.op /\ r.resends = q.resends /\ r.took = q.took
      /\ r.rest = q.rest /\ r.found = q.found /\ r.stable = q.stable
  BY <1>8
<1>10. CallOK(r)
  BY <1>1, <1>6, <1>7, <1>8, <1>9 DEF CallOK
<1>11. ClientOK(r, Unanswered, items, replica, Dynamo)
  BY <1>2, <1>4, <1>6, <1>9, <1>10, PhaseStep
<1>12. /\ call' = [call EXCEPT ![c] = r] /\ answer' = [answer EXCEPT ![c] = Unanswered]
       /\ issued' \in 0..MaxCalls /\ LateOK(late', Dynamo)
  BY <1>1, <1>3, <1>4, <1>5 DEF KvInv
<1>13. /\ KvInv'
       /\ [x \in Clients |-> Abstract(x)]' = [[x \in Clients |-> Abstract(x)] EXCEPT ![c] = AbsOf(r)]
  BY <1>1, <1>11, <1>12, ReplaceKeeps
<1>14. [x \in Clients |-> Abstract(x)][c].op = q.op /\ [x \in Clients |-> Abstract(x)][c].took = q.took
  BY <1>2, <1>4, <1>6, Pending
<1>15. AbsOf(r) = Contract!Under(q.op, q.took, TRUE)
  BY <1>9 DEF AbsOf, Contract!Under
<1>16. [x \in Clients |-> Abstract(x)]'
         = [[x \in Clients |-> Abstract(x)] EXCEPT ![c] = Contract!Under(@.op, q.took, TRUE)]
  BY <1>13, <1>14, <1>15
<1>17. ~Contract!Accepts(items, Op(c).ops)
  BY <1>1, <1>2, TableWrite
<1>18. CASE q.took = FALSE
  <2>1. Contract!RefuseUpdate(c)
    BY <1>1, <1>2, <1>14, <1>16, <1>17, <1>18 DEF Contract!RefuseUpdate
  <2> QED BY <1>13, <2>1 DEF Simulated, Contract!Next
<1>19. CASE q.took = TRUE
  <2>1. Contract!RefuseUpdateAgain(c)
    BY <1>1, <1>2, <1>14, <1>16, <1>17, <1>19 DEF Contract!RefuseUpdateAgain
  <2> QED BY <1>13, <2>1 DEF Simulated, Contract!Next
<1> QED BY <1>7, <1>18, <1>19

\* The follow-up get finds no item, an item, or one that cannot be decoded.
LEMMA ClassifyRefusalStep ==
  ASSUME KvInv, NEW c \in Clients, ClassifyRefusal(c)
  PROVE  KvInv' /\ Simulated
<1>1. PICK value : value = items[Op(c).key]
  OBVIOUS
<1>2. /\ Phase(c) = "refused" /\ UNCHANGED <<items, replica>>
      /\ Answer(c, LET got == Got(Op(c).key) IN IF got.type = "Ok" THEN ConditionFailed ELSE got)
  BY DEF ClassifyRefusal
<1>3. /\ Phase(c) # "idle" /\ Contract!Open(c) /\ [x \in Clients |-> Abstract(x)][c].refused
  BY <1>2, Pending DEF Contract!Open
<1>5. CASE value # NoItem /\ ~Decodes(value)
  <2>1. Answer(c, Transport(FALSE))
    BY <1>1, <1>2, <1>5 DEF Got, Transport
  <2> QED BY <1>2, <1>3, <2>1, TerminalStep
<1>6. CASE value = NoItem \/ Decodes(value)
  <2>1. PICK reason : reason = IF value = NoItem THEN NotFound ELSE ConditionFailed
    OBVIOUS
  <2>2. Answer(c, reason)
    BY <1>1, <1>2, <1>6, <2>1 DEF Got, NotFound, Ok
  <2>3. KvInv' /\ Replied(c, reason)
    BY <1>2, <2>1, <2>2, SameItems, PlainAnswers, AnswerKeeps
  <2>4. Contract!Reply(c, reason) /\ reason \in {Contract!NotFound, Contract!ConditionFailed}
    BY <2>1, <2>3, ReplyIs, CopyValues
  <2>5. Contract!Explain(c)
    BY <1>2, <1>3, <2>2, <2>4 DEF Contract!Explain, Answer
  <2> QED BY <2>3, <2>5 DEF Simulated, Contract!Next
<1> QED BY <1>5, <1>6

\* A path into an item that is no map.
LEMMA InvalidPathStep ==
  ASSUME KvInv, NEW c \in Clients, InvalidPath(c)
  PROVE  KvInv' /\ Simulated
<1>1. Executes(c) /\ UNCHANGED <<items, replica>> /\ Answer(c, Transport(FALSE))
  BY ErrorsMean DEF InvalidPath
<1>2. Phase(c) = "sent"
  BY <1>1, ExecutesFacts
<1> QED BY <1>1, <1>2, TerminalStep

\* A write is executed and answered.
LEMMA ExecuteWriteStep ==
  ASSUME KvInv, NEW c \in Clients, ExecuteWrite(c)
  PROVE  KvInv' /\ Simulated
<1>1. PICK t : t = Transacted(items, Op(c).ops)
  OBVIOUS
<1>2. PICK result : result = IF Op(c).type = "update"
                             THEN IF Decodes(t[Op(c).key]) THEN Ok(t[Op(c).key]) ELSE Transport(FALSE)
                             ELSE Ok(NoItem)
  OBVIOUS
<1>3. /\ Executes(c) /\ ConditionsHold(items, Op(c).ops) /\ Applicable(items, Op(c).ops)
      /\ items' = t /\ replica' = replica /\ Answer(c, result)
  BY <1>1, <1>2 DEF ExecuteWrite, UpdateResult
<1>4. /\ Phase(c) = "sent" /\ Dynamo /\ IsWrite(Op(c)) /\ ~Malformed(Op(c)) /\ Op(c) \in Calls
      /\ Contract!Open(c) /\ [x \in Clients |-> Abstract(x)][c].op = Op(c)
  BY <1>3, ExecutesFacts
<1>5. /\ Contract!Permitted(Op(c)) /\ Contract!Result(Op(c)) = t
      /\ ItemsOK(t, Dynamo, backend = "memory")
  BY <1>1, <1>3, <1>4, TableWrite
<1>6. ItemsOK(items', Dynamo, backend = "memory") /\ ItemsOK(replica', Dynamo, FALSE)
  BY <1>3, <1>5 DEF KvInv
<1>7. AnswerOK(result)
  BY <1>2, PlainAnswers
<1>8. KvInv' /\ Replied(c, result)
  BY <1>3, <1>6, <1>7, AnswerKeeps
<1>9. Contract!Reply(c, result) /\ late' = late
  BY <1>3, <1>8, ReplyIs DEF Answer
<1>10. CASE Op(c).type = "update" /\ ~Decodes(t[Op(c).key])
  <2>1. result = Contract!Transport(FALSE) /\ ~Contract!Decodes(items'[Op(c).key])
    BY <1>2, <1>3, <1>10, CopyValues
  <2>2. Contract!StoreUndecodable(c)
    BY <1>3, <1>4, <1>5, <1>9, <1>10, <2>1 DEF Contract!StoreUndecodable
  <2> QED BY <1>8, <2>2 DEF Simulated, Contract!Next
<1>11. CASE ~(Op(c).type = "update" /\ ~Decodes(t[Op(c).key]))
  <2>1. Contract!Returned(Op(c)) = result
    BY <1>2, <1>5, <1>11, CopyValues DEF Contract!Returned
  <2>2. Contract!Succeed(c)
    BY <1>3, <1>4, <1>5, <1>9, <2>1, CopyValues DEF Contract!Succeed
  <2> QED BY <1>8, <2>2 DEF Simulated, Contract!Next
<1> QED BY <1>10, <1>11

\* A transaction that took effect is recognised by its token.
LEMMA RepeatTransactionStep ==
  ASSUME KvInv, NEW c \in Clients, RepeatTransaction(c)
  PROVE  KvInv' /\ Simulated
<1>1. /\ Executes(c) /\ call[c].took /\ Op(c).type = "transact" /\ UNCHANGED <<items, replica>>
      /\ Answer(c, Ok(NoItem))
  BY DEF RepeatTransaction, Repeated
<1>2. /\ Contract!Open(c) /\ [x \in Clients |-> Abstract(x)][c].op = Op(c)
      /\ [x \in Clients |-> Abstract(x)][c].took
  BY <1>1, ExecutesFacts
<1>3. KvInv' /\ Replied(c, Ok(NoItem))
  BY <1>1, SameItems, PlainAnswers, AnswerKeeps
<1>4. Contract!Reply(c, Contract!Ok(Contract!NoItem))
  BY <1>3, ReplyIs, CopyValues
<1>5. Contract!Recognise(c)
  BY <1>1, <1>2, <1>4 DEF Contract!Recognise, Answer
<1> QED BY <1>3, <1>5 DEF Simulated, Contract!Next

\* The service refuses the request.
LEMMA ServiceRefusesStep ==
  ASSUME KvInv, NEW c \in Clients, NEW err \in Refusals(Op(c)), ServiceRefuses(c, err)
  PROVE  KvInv' /\ Simulated
<1>1. Phase(c) # "idle" /\ UNCHANGED <<items, replica>>
  BY DEF ServiceRefuses
<1>2. PICK b \in BOOLEAN : MapError(Op(c), err, {"TransactionConflict"}) = Transport(b)
  BY ZenonT(40), ErrorsMean
<1>3. Answer(c, Transport(b))
  BY <1>2 DEF ServiceRefuses
<1>4. CASE b = TRUE
  BY <1>1, <1>3, <1>4, RetryableStep
<1>5. CASE b = FALSE
  BY <1>1, <1>3, <1>5, TerminalStep
<1> QED BY <1>4, <1>5

\* A write is executed and its reply is lost.
LEMMA LoseReplyStep ==
  ASSUME KvInv, NEW c \in Clients, LoseReply(c)
  PROVE  KvInv' /\ Simulated
<1>1. PICK q : q = call[c]
  OBVIOUS
<1>2. PICK r : r = Unreplied(q)
  OBVIOUS
<1>3. PICK calls : calls = [call EXCEPT ![c] = r]
  OBVIOUS
<1>4. /\ Executes(c) /\ ConditionsHold(items, Op(c).ops) /\ Applicable(items, Op(c).ops)
      /\ items' = Transacted(items, Op(c).ops) /\ call' = Seeing(calls, items', replica')
      /\ UNCHANGED <<backend, replica, answer, late, issued>>
  BY <1>1, <1>2, <1>3 DEF LoseReply
<1>5. /\ Phase(c) = "sent" /\ Dynamo /\ IsWrite(Op(c)) /\ ~Malformed(Op(c)) /\ Op(c) \in Calls
      /\ Contract!Open(c) /\ [x \in Clients |-> Abstract(x)][c].op = Op(c)
  BY <1>4, ExecutesFacts
<1>6. /\ Contract!Permitted(Op(c)) /\ Contract!Result(Op(c)) = items'
      /\ ItemsOK(items', Dynamo, backend = "memory")
  BY <1>4, <1>5, TableWrite
<1>7. ItemsOK(replica', Dynamo, FALSE) /\ LateOK(late', Dynamo)
  BY <1>4 DEF KvInv
<1>8. CallOK(q) /\ q.phase = "sent" /\ q.op = Op(c) /\ answer[c] = Unanswered
  BY <1>1, <1>5, Pending DEF Phase, Op
<1>9. q.resends \in 0..MaxResends
  BY <1>8, OpenCall
<1>10. /\ r = [phase |-> "lost", op |-> q.op, resends |-> q.resends, took |-> TRUE,
               rest |-> {}, found |-> {}, stable |-> {}]
  BY <1>2 DEF Unreplied
<1>11. /\ r.phase = "lost" /\ r.op = q.op /\ r.resends = q.resends /\ r.took = TRUE
       /\ r.rest = {} /\ r.found = {} /\ r.stable = {}
  BY <1>10
<1>12. CallOK(r) /\ ProgressOK(r, items, replica, Dynamo)
  BY <1>5, <1>8, <1>9, <1>10, <1>11 DEF CallOK, ProgressOK
<1>13. call = [x \in Clients |-> call[x]] /\ \A x \in Clients : ClientOK(call[x], answer[x], items, replica, Dynamo)
  BY DEF KvInv
<1>14. calls[c] = r /\ \A x \in Clients : x # c => calls[x] = call[x]
  BY <1>3, <1>13
<1>15. \A x \in Clients : /\ CallOK(calls[x]) /\ ProgressOK(calls[x], items, replica, Dynamo)
                          /\ calls[x].phase # "idle" => answer[x] = Unanswered
  BY <1>8, <1>12, <1>13, <1>14 DEF ClientOK
<1>16. KvInv' /\ [x \in Clients |-> Abstract(x)]' = [x \in Clients |-> AbsOf(calls[x])]
  BY <1>4, <1>6, <1>7, <1>15, SeenKeeps
<1>17. [x \in Clients |-> Abstract(x)][c].refused = FALSE
  BY <1>5, Pending
<1>18. AbsOf(r) = Contract!Under(Op(c), TRUE, FALSE)
  BY <1>8, <1>11 DEF AbsOf, Contract!Under
<1>19. [x \in Clients |-> Abstract(x)]' = [[x \in Clients |-> Abstract(x)] EXCEPT ![c] = AbsOf(r)]
  <2>1. [[x \in Clients |-> AbsOf(call[x])] EXCEPT ![c] = AbsOf(r)] = [x \in Clients |-> AbsOf(calls[x])]
    BY <1>14
  <2> QED BY <1>16, <2>1, PendingIs
<1>20. [x \in Clients |-> Abstract(x)]'
         = [[x \in Clients |-> Abstract(x)] EXCEPT ![c] = Contract!Under(@.op, TRUE, @.refused)]
  BY <1>5, <1>17, <1>18, <1>19
<1>21. Contract!Take(c)
  BY <1>4, <1>5, <1>6, <1>20, CopyValues DEF Contract!Take
<1> QED BY <1>16, <1>21 DEF Simulated, Contract!Next

\* The SDK sends a request again: nothing the contract sees.
LEMMA ResendStep ==
  ASSUME KvInv, NEW c \in Clients, Resend(c)
  PROVE  KvInv' /\ Simulated
<1>1. PICK q : q = call[c]
  OBVIOUS
<1>2. PICK r : r = [q EXCEPT !.phase = "sent", !.resends = q.resends + 1]
  OBVIOUS
<1>3. /\ Phase(c) = "lost" /\ q.resends < MaxResends
      /\ call' = [call EXCEPT ![c] = r]
      /\ UNCHANGED <<backend, items, replica, answer, late, issued>>
  BY <1>1, <1>2 DEF Resend
<1>4. CallOK(q) /\ q.phase = "lost" /\ q.op = Op(c) /\ answer[c] = Unanswered
  BY <1>1, <1>3, Pending DEF Phase, Op
<1>5. /\ q = [phase |-> q.phase, op |-> q.op, resends |-> q.resends, took |-> q.took,
              rest |-> q.rest, found |-> q.found, stable |-> q.stable]
      /\ q.op \in Calls
      /\ q.resends \in 0..MaxResends /\ q.took \in BOOLEAN
      /\ q.took => IsWrite(q.op) /\ ~Malformed(q.op)
      /\ \A k \in q.rest : k \in Selected(Keys, q.op.prefix)
      /\ \A pair \in q.found : starts_with(pair[1], q.op.prefix) /\ Decodes(pair[2])
      /\ \A k \in q.stable : k \in Keys /\ starts_with(k, q.op.prefix)
  BY <1>4, OpenCall
<1>6. r = [phase |-> "sent", op |-> q.op, resends |-> q.resends + 1, took |-> q.took,
           rest |-> q.rest, found |-> q.found, stable |-> q.stable]
  BY <1>2, <1>5
<1>7. /\ r.phase = "sent" /\ r.op = q.op /\ r.resends = q.resends + 1 /\ r.took = q.took
      /\ r.rest = q.rest /\ r.found = q.found /\ r.stable = q.stable
  BY <1>6
<1>8. q.resends + 1 \in 0..MaxResends
  BY <1>3, <1>5, KvAssumption
<1>9. CallOK(r)
  BY <1>5, <1>6, <1>7, <1>8 DEF CallOK
<1>10. ClientOK(r, Unanswered, items, replica, Dynamo)
  BY <1>1, <1>3, <1>4, <1>7, <1>9, PhaseStep
<1>11. /\ answer' = [answer EXCEPT ![c] = Unanswered]
       /\ issued' \in 0..MaxCalls /\ LateOK(late', Dynamo)
  BY <1>3, <1>4 DEF KvInv
<1>12. /\ KvInv'
       /\ [x \in Clients |-> Abstract(x)]' = [[x \in Clients |-> Abstract(x)] EXCEPT ![c] = AbsOf(r)]
  BY <1>3, <1>10, <1>11, ReplaceKeeps
<1>13. AbsOf(r) = AbsOf(q)
  BY <1>4, <1>7 DEF AbsOf
<1>14. [x \in Clients |-> Abstract(x)]' = [x \in Clients |-> Abstract(x)]
  BY <1>1, <1>12, <1>13, PendingIs
<1> QED BY <1>3, <1>12, <1>14 DEF Simulated, Contract!vars

\* The caller gives up; the write may still be on its way.
LEMMA GiveUpStep ==
  ASSUME KvInv, NEW c \in Clients, NEW err \in Unknowns, GiveUp(c, err)
  PROVE  KvInv' /\ Simulated
<1>1. /\ Dynamo /\ Phase(c) # "idle" /\ ~Malformed(Op(c))
      /\ UNCHANGED <<items, replica, backend, issued>>
      /\ call' = [call EXCEPT ![c] = NoCall]
      /\ answer' = [answer EXCEPT ![c] = Transport(TRUE)]
      /\ late' = late \/ (IsWrite(Op(c)) /\ late' = late \cup {Op(c)})
  <2>1. MapError(Op(c), err, {}) = Transport(TRUE)
    BY ErrorsMean
  <2>2. answer' = [answer EXCEPT ![c] = MapError(Op(c), err, {})]
    BY DEF GiveUp
  <2>3. Dynamo /\ Phase(c) # "idle" /\ ~Malformed(Op(c))
    BY DEF GiveUp
  <2>4. UNCHANGED <<items, replica, backend, issued>>
    BY DEF GiveUp
  <2>6. call' = [call EXCEPT ![c] = NoCall]
    BY DEF GiveUp
  <2>5. late' = late \/ (IsWrite(Op(c)) /\ late' = late \cup {Op(c)})
    BY DEF GiveUp
  <2> QED BY <2>1, <2>2, <2>3, <2>4, <2>5, <2>6
<1>2. /\ Op(c) \in Calls /\ Contract!Open(c) /\ [x \in Clients |-> Abstract(x)][c].op = Op(c)
  BY <1>1, Pending DEF Contract!Open
<1>3. ClientOK(NoCall, Transport(TRUE), items, replica, Dynamo)
  BY PlainAnswers DEF ClientOK, CallOK, ProgressOK, NoCall
<1>4. LateOK(late', Dynamo) /\ issued' \in 0..MaxCalls
  BY <1>1, <1>2 DEF KvInv, LateOK
<1>5. /\ KvInv'
      /\ [x \in Clients |-> Abstract(x)]' = [[x \in Clients |-> Abstract(x)] EXCEPT ![c] = AbsOf(NoCall)]
  BY <1>1, <1>3, <1>4, ReplaceKeeps
<1>6. AbsOf(NoCall) = Contract!Idle
  BY DEF AbsOf, NoCall, Contract!Idle
<1>7. Contract!Reply(c, Contract!Transport(TRUE))
  BY <1>1, <1>5, <1>6, CopyValues DEF Contract!Reply
<1>8. Contract!FailRetryable(c)
  BY <1>1, <1>2, <1>7, CopyValues DEF Contract!FailRetryable
<1> QED BY <1>5, <1>8 DEF Simulated, Contract!Next

\* A write that its caller gave up on is executed, or refused.
LEMMA LateWriteStep ==
  ASSUME KvInv, NEW op \in late, LateWrite(op)
  PROVE  KvInv' /\ Simulated
<1>1. op \in Calls /\ IsWrite(op) /\ ~Malformed(op) /\ Dynamo
  BY DEF KvInv, LateOK
<1>2. /\ ConditionsHold(items, op.ops) /\ Applicable(items, op.ops) <=> Contract!Permitted(op)
      /\ Contract!Result(op) = Transacted(items, op.ops)
      /\ ItemsOK(Transacted(items, op.ops), Dynamo, backend = "memory")
  BY <1>1, TableWrite
<1>3. /\ late' = late \ {op} /\ call' = Seeing(call, items', replica')
      /\ items' = IF ConditionsHold(items, op.ops) /\ Applicable(items, op.ops)
                  THEN Transacted(items, op.ops) ELSE items
      /\ UNCHANGED <<backend, replica, answer, issued>>
  BY DEF LateWrite
<1>4. ItemsOK(items', Dynamo, backend = "memory") /\ ItemsOK(replica', Dynamo, FALSE)
  BY <1>2, <1>3 DEF KvInv
<1>5. LateOK(late', Dynamo)
  BY <1>3 DEF KvInv, LateOK
<1>6. \A x \in Clients : /\ CallOK(call[x]) /\ ProgressOK(call[x], items, replica, Dynamo)
                         /\ call[x].phase # "idle" => answer[x] = Unanswered
  BY DEF KvInv, ClientOK
<1>7. KvInv' /\ [x \in Clients |-> Abstract(x)]' = [x \in Clients |-> AbsOf(call[x])]
  <2>1. PICK calls : calls = call
    OBVIOUS
  <2>2. call' = Seeing(calls, items', replica')
    BY <1>3, <2>1
  <2>3. \A x \in Clients : /\ CallOK(calls[x]) /\ ProgressOK(calls[x], items, replica, Dynamo)
                           /\ calls[x].phase # "idle" => answer[x] = Unanswered
    BY <1>6, <2>1
  <2>4. KvInv' /\ [x \in Clients |-> Abstract(x)]' = [x \in Clients |-> AbsOf(calls[x])]
    BY <1>3, <1>4, <1>5, <2>2, <2>3, SeenKeeps
  <2> QED BY <2>1, <2>4
<1>8. [x \in Clients |-> Abstract(x)]' = [x \in Clients |-> Abstract(x)]
  BY <1>7, PendingIs
<1>9. Contract!Arrive(op)
  BY <1>2, <1>3, <1>8 DEF Contract!Arrive
<1> QED BY <1>7, <1>9 DEF Simulated, Contract!Next

\* The copy that scans read catches up.
LEMMA ReplicateStep ==
  ASSUME KvInv, NEW k \in Keys, Replicate(k)
  PROVE  KvInv' /\ Simulated
<1>1. /\ Dynamo /\ replica' = [replica EXCEPT ![k] = items[k]] /\ call' = Seeing(call, items', replica')
      /\ UNCHANGED <<backend, items, answer, late, issued>>
  BY DEF Replicate
<1>2. ItemsOK(items', Dynamo, backend = "memory") /\ LateOK(late', Dynamo)
  BY <1>1 DEF KvInv
<1>3. ItemsOK(replica', Dynamo, FALSE)
  BY <1>1 DEF KvInv, ItemsOK
<1>4. PICK calls : calls = call
  OBVIOUS
<1>5. \A x \in Clients : /\ CallOK(calls[x]) /\ ProgressOK(calls[x], items, replica, Dynamo)
                         /\ calls[x].phase # "idle" => answer[x] = Unanswered
  BY <1>4 DEF KvInv, ClientOK
<1>6. KvInv' /\ [x \in Clients |-> Abstract(x)]' = [x \in Clients |-> AbsOf(calls[x])]
  <2>1. call' = Seeing(calls, items', replica')
    BY <1>1, <1>4
  <2> QED BY <1>1, <1>2, <1>3, <1>5, <2>1, SeenKeeps
<1>7. [x \in Clients |-> Abstract(x)]' = [x \in Clients |-> Abstract(x)]
  BY <1>4, <1>6, PendingIs
<1> QED BY <1>1, <1>6, <1>7 DEF Simulated, Contract!vars

\* A page of a query: the item of one key is reported under that key, unless it
\* cannot be decoded.
LEMMA QueryPageStep ==
  ASSUME KvInv, NEW c \in Clients, NEW k \in Keys, QueryPage(c, k)
  PROVE  KvInv' /\ Simulated
<1>1. PICK q : q = call[c]
  OBVIOUS
<1>2. PICK value : value = PageSource(Op(c))[k]
  OBVIOUS
<1>3. Dynamo /\ Phase(c) = "sent" /\ Op(c).type = "query" /\ k \in q.rest
  BY <1>1 DEF QueryPage, Sent
<1>4. /\ CallOK(q) /\ q.phase = "sent" /\ q.op = Op(c) /\ answer[c] = Unanswered /\ Op(c) \in Calls
  BY <1>1, <1>3, Pending DEF Phase, Op
<1>5. /\ q = [phase |-> q.phase, op |-> q.op, resends |-> q.resends, took |-> q.took,
              rest |-> q.rest, found |-> q.found, stable |-> q.stable]
      /\ q.op \in Calls
      /\ q.resends \in 0..MaxResends /\ q.took \in BOOLEAN
      /\ q.took => IsWrite(q.op) /\ ~Malformed(q.op)
      /\ \A x \in q.rest : x \in Selected(Keys, q.op.prefix)
      /\ \A pair \in q.found : starts_with(pair[1], q.op.prefix) /\ Decodes(pair[2])
      /\ \A x \in q.stable : x \in Keys /\ starts_with(x, q.op.prefix)
  BY <1>4, OpenCall
<1>6. Splits(k) /\ starts_with(k, q.op.prefix)
  <2>1. Keys \subseteq Seq(STRING) /\ q.op.prefix \in Seq(STRING)
    BY <1>3, <1>4, CallFacts, KvAssumption
  <2> QED BY <1>3, <1>5, <2>1, SelectedByPrefix
<1>7. render_key(split_once(k)[1], split_once(k)[2]) = k
  BY <1>6, RenderSplit, KvAssumption DEF Splits
<1>8. CASE value # NoItem /\ ~Decodes(value)
  <2>1. UNCHANGED <<items, replica>> /\ Answer(c, Transport(FALSE))
    BY <1>2, <1>8 DEF QueryPage
  <2> QED BY <1>3, <2>1, TerminalStep
<1>9. CASE ~(value # NoItem /\ ~Decodes(value))
  <2>1. PICK seen : seen = IF value = NoItem THEN {} ELSE {<<k, value>>}
    OBVIOUS
  <2>2. PICK r : r = [q EXCEPT !.rest = q.rest \ {k}, !.found = q.found \cup seen]
    OBVIOUS
  <2>3. call' = [call EXCEPT ![c] = r] /\ UNCHANGED <<backend, items, replica, answer, late, issued>>
    BY <1>1, <1>2, <1>7, <1>9, <2>1, <2>2 DEF QueryPage
  <2>4. r = [phase |-> "sent", op |-> q.op, resends |-> q.resends, took |-> q.took,
             rest |-> q.rest \ {k}, found |-> q.found \cup seen, stable |-> q.stable]
    BY <1>4, <1>5, <2>2
  <2>5. /\ r.phase = "sent" /\ r.op = q.op /\ r.resends = q.resends /\ r.took = q.took
        /\ r.rest = q.rest \ {k} /\ r.found = q.found \cup seen /\ r.stable = q.stable
    BY <2>4
  <2>6. \A pair \in seen : starts_with(pair[1], q.op.prefix) /\ Decodes(pair[2])
    BY <1>6, <1>9, <2>1
  <2>7. CallOK(r)
    BY <1>5, <2>4, <2>5, <2>6 DEF CallOK
  <2>8. ProgressOK(q, items, replica, Dynamo)
    BY <1>1 DEF KvInv, ClientOK
  <2>9. ProgressOK(r, items, replica, Dynamo)
    <3> SUFFICES ASSUME NEW x \in q.stable
                 PROVE  /\ items[x] # NoItem /\ (HasSlash(q.op.prefix) \/ replica[x] # NoItem)
                        /\ x \in q.rest \ {k} \/ \E pair \in q.found \cup seen : pair[1] = x
      BY <1>3, <2>5 DEF ProgressOK
    <3>1. /\ items[x] # NoItem /\ (HasSlash(q.op.prefix) \/ replica[x] # NoItem)
          /\ x \in q.rest \/ \E pair \in q.found : pair[1] = x
      BY <1>3, <1>4, <2>8 DEF ProgressOK
    <3>2. CASE x = k
      <4>1. value # NoItem
        BY <1>2, <1>4, <3>1, <3>2 DEF PageSource
      <4>2. <<k, value>> \in seen /\ <<k, value>>[1] = x
        BY <2>1, <3>2, <4>1
      <4> QED BY <3>1, <4>2
    <3>3. CASE x # k
      BY <3>1, <3>3
    <3> QED BY <3>2, <3>3
  <2>10. ClientOK(r, Unanswered, items, replica, Dynamo)
    BY <2>7, <2>9, PlainAnswers DEF ClientOK
  <2>11. /\ answer' = [answer EXCEPT ![c] = Unanswered]
         /\ issued' \in 0..MaxCalls /\ LateOK(late', Dynamo)
    BY <1>4, <2>3 DEF KvInv
  <2>12. /\ KvInv'
         /\ [x \in Clients |-> Abstract(x)]' = [[x \in Clients |-> Abstract(x)] EXCEPT ![c] = AbsOf(r)]
    BY <2>3, <2>10, <2>11, ReplaceKeeps
  <2>13. AbsOf(r) = AbsOf(q)
    BY <1>4, <2>5 DEF AbsOf
  <2>14. [x \in Clients |-> Abstract(x)]' = [x \in Clients |-> Abstract(x)]
    BY <1>1, <2>12, <2>13, PendingIs
  <2> QED BY <2>3, <2>12, <2>14 DEF Simulated, Contract!vars
<1> QED BY <1>8, <1>9

\* The last page of a query.
LEMMA QueryEndStep ==
  ASSUME KvInv, NEW c \in Clients, QueryEnd(c)
  PROVE  KvInv' /\ Simulated
<1>1. PICK found : found = call[c].found
  OBVIOUS
<1>2. /\ Phase(c) = "sent" /\ Op(c).type = "query" /\ UNCHANGED <<items, replica>>
      /\ Answer(c, Listed(found))
  BY <1>1 DEF QueryEnd, Sent
<1>3. CallOK(call[c])
  BY <1>2, Pending
<1>4. \A pair \in found : starts_with(pair[1], Op(c).prefix) /\ Decodes(pair[2])
  BY <1>1, <1>2, <1>3, OpenCall DEF Phase, Op
<1> QED BY <1>2, <1>4, ListStep

\* Every step of either backend keeps the invariant and is one of the contract's,
\* or none.
LEMMA KvStep ==
  ASSUME KvInv, [Next]_vars
  PROVE  KvInv' /\ Simulated
<1>1. CASE UNCHANGED vars
  <2>1. KvInv'
    BY <1>1 DEF vars, KvInv, Dynamo
  <2>2. [x \in Clients |-> Abstract(x)]' = [x \in Clients |-> Abstract(x)]
    BY <1>1 DEF vars, Abstract, Phase, Op
  <2> QED BY <1>1, <2>1, <2>2 DEF vars, Simulated, Contract!vars
<1>2. ASSUME NEW op \in late, LateWrite(op) PROVE KvInv' /\ Simulated
  BY <1>2, LateWriteStep
<1>3. ASSUME NEW k \in Keys, Replicate(k) PROVE KvInv' /\ Simulated
  BY <1>3, ReplicateStep
<1>4. ASSUME NEW c \in Clients,
             \/ \E op \in Calls : Invoke(c, op)
             \/ MemoryGet(c) \/ MemoryPut(c) \/ MemoryAtomicUpdate(c) \/ MemoryTransact(c)
             \/ MemoryQuery(c)
      PROVE  KvInv' /\ Simulated
  BY <1>4, InvokeStep, MemoryGetStep, MemoryPutStep, MemoryAtomicUpdateStep, MemoryTransactStep,
     MemoryQueryStep
<1>5. ASSUME NEW c \in Clients,
             \/ RejectMalformed(c) \/ GetItem(c) \/ ConditionalCheckFailed(c)
             \/ UpdateConditionFailed(c) \/ ClassifyRefusal(c) \/ InvalidPath(c)
             \/ ExecuteWrite(c) \/ RepeatTransaction(c) \/ LoseReply(c) \/ Resend(c)
      PROVE  KvInv' /\ Simulated
  BY <1>5, RejectMalformedStep, GetItemStep, ConditionalCheckFailedStep, UpdateConditionFailedStep,
     ClassifyRefusalStep, InvalidPathStep, ExecuteWriteStep, RepeatTransactionStep, LoseReplyStep,
     ResendStep
<1>6. ASSUME NEW c \in Clients,
             \/ \E err \in Unknowns : GiveUp(c, err)
             \/ \E err \in Refusals(Op(c)) : ServiceRefuses(c, err)
             \/ \E k \in Keys : QueryPage(c, k)
             \/ QueryEnd(c)
      PROVE  KvInv' /\ Simulated
  BY <1>6, GiveUpStep, ServiceRefusesStep, QueryPageStep, QueryEndStep
<1>7. CASE Next
  BY <1>2, <1>3, <1>4, <1>5, <1>6, <1>7, Zenon DEF Next
<1> QED BY <1>1, <1>7

\* Both backends start with the items they are given and no calls.
LEMMA KvStart ==
  ASSUME Init
  PROVE  KvInv /\ Contract!Init
<1>1. /\ backend \in Backends /\ items = InitialItems /\ replica = InitialItems
      /\ call = [c \in Clients |-> NoCall] /\ answer = [c \in Clients |-> Unanswered]
      /\ late = {} /\ issued = 0
  BY DEF Init
<1>2. ItemsOK(InitialItems, Dynamo, backend = "memory") /\ ItemsOK(InitialItems, Dynamo, FALSE)
  BY KvAssumption DEF ItemsOK
<1>3. ASSUME NEW c \in Clients PROVE ClientOK(call[c], answer[c], items, replica, Dynamo)
  BY <1>1, PlainAnswers DEF ClientOK, CallOK, ProgressOK, NoCall
<1>4. issued \in 0..MaxCalls
  BY <1>1, KvAssumption
<1>5. LateOK(late, Dynamo)
  BY <1>1 DEF LateOK
<1>6. KvInv
  BY <1>1, <1>2, <1>3, <1>4, <1>5 DEF KvInv
<1>7. [c \in Clients |-> Abstract(c)] = [c \in Clients |-> Contract!Idle]
  BY <1>1 DEF Abstract, Phase, NoCall, Contract!Idle
<1>8. Contract!Init
  BY <1>1, <1>7, CopyValues DEF Contract!Init
<1> QED BY <1>6, <1>8

\* The invariant holds throughout.
THEOREM KvInvariant == Spec => []KvInv
<1>1. Init => KvInv
  BY KvStart
<1>2. KvInv /\ [Next]_vars => KvInv'
  BY KvStep
<1> QED BY <1>1, <1>2, PTL DEF Spec

\* The in-memory backend, whose calls run under one lock, and the DynamoDB one,
\* whose requests are refused, repeated, lost, given up and executed late, both
\* keep the contract of the trait ReplicatedKv: for any callers, keys, calls,
\* width of numbers and number of resends.
THEOREM BackendsKeepContract == Spec => ImplementsContract
<1>1. Init => Contract!Init
  BY KvStart
<1>2. KvInv /\ [Next]_vars => [Contract!Next]_(Contract!vars)
  BY KvStep DEF Simulated
<1> QED BY <1>1, <1>2, KvInvariant, PTL DEF Spec, ImplementsContract, Contract!Spec

\* A client is only answered by a step of its own.
LEMMA AnswersItself ==
  ASSUME KvInv, NEW c \in Clients, NEW x \in Clients, x # c,
         answer' = answer \/ \E result : answer' = [answer EXCEPT ![x] = result]
  PROVE  answer'[c] = answer[c]
<1>1. answer = [y \in Clients |-> answer[y]]
  BY DEF KvInv
<1> QED BY <1>1

\* A step of x answers x, if anyone.
LEMMA StepAnswers ==
  ASSUME NEW x \in Clients,
         \/ \E op \in Calls : Invoke(x, op)
         \/ MemoryGet(x) \/ MemoryPut(x) \/ MemoryAtomicUpdate(x) \/ MemoryTransact(x)
         \/ MemoryQuery(x)
         \/ RejectMalformed(x) \/ GetItem(x) \/ ConditionalCheckFailed(x)
         \/ UpdateConditionFailed(x) \/ ClassifyRefusal(x) \/ InvalidPath(x)
         \/ ExecuteWrite(x) \/ RepeatTransaction(x) \/ LoseReply(x) \/ Resend(x)
         \/ \E err \in Unknowns : GiveUp(x, err)
         \/ \E err \in Refusals(Op(x)) : ServiceRefuses(x, err)
         \/ \E k \in Keys : QueryPage(x, k)
         \/ QueryEnd(x)
  PROVE  answer' = answer \/ \E result : answer' = [answer EXCEPT ![x] = result]
<1>1. ASSUME NEW result, Answer(x, result) PROVE \E r : answer' = [answer EXCEPT ![x] = r]
  BY <1>1 DEF Answer
<1>2. CASE \E op \in Calls : Invoke(x, op)
  BY <1>2 DEF Invoke
<1>3. CASE MemoryGet(x) \/ MemoryPut(x) \/ MemoryAtomicUpdate(x) \/ MemoryTransact(x) \/ MemoryQuery(x)
  BY <1>1, <1>3 DEF MemoryGet, MemoryPut, MemoryAtomicUpdate, MemoryTransact, MemoryQuery
<1>4. CASE RejectMalformed(x) \/ GetItem(x) \/ ConditionalCheckFailed(x) \/ ClassifyRefusal(x) \/ InvalidPath(x)
  BY <1>1, <1>4 DEF RejectMalformed, GetItem, ConditionalCheckFailed, ClassifyRefusal, InvalidPath
<1>5. CASE UpdateConditionFailed(x) \/ LoseReply(x) \/ Resend(x)
  BY <1>5 DEF UpdateConditionFailed, LoseReply, Resend
<1>6. CASE ExecuteWrite(x) \/ RepeatTransaction(x) \/ QueryEnd(x)
  BY <1>1, <1>6 DEF ExecuteWrite, RepeatTransaction, QueryEnd
<1>7. CASE \E err \in Unknowns : GiveUp(x, err)
  BY <1>7 DEF GiveUp
<1>8. CASE \E err \in Refusals(Op(x)) : ServiceRefuses(x, err)
  BY <1>1, <1>8 DEF ServiceRefuses
<1>9. CASE \E k \in Keys : QueryPage(x, k)
  <2>1. PICK k \in Keys : QueryPage(x, k)
    BY <1>9
  <2>2. Answer(x, Transport(FALSE)) \/ answer' = answer
    BY <2>1 DEF QueryPage
  <2> QED BY <1>1, <2>2
<1> QED BY <1>2, <1>3, <1>4, <1>5, <1>6, <1>7, <1>8, <1>9

\* A query is answered with Ok by its end only.
LEMMA QueryAnswered ==
  ASSUME KvInv, Next, NEW c \in Clients, Phase(c) = "sent", Op(c).type = "query",
         answer'[c].type = "Ok"
  PROVE  MemoryQuery(c) \/ QueryEnd(c)
<1>1. answer[c] = Unanswered /\ Op(c) \in Calls
  BY Pending
<1>2. answer'[c] # answer[c] /\ answer' # answer
  BY <1>1 DEF Unanswered
<1>3. ASSUME NEW result, answer' = [answer EXCEPT ![c] = result] PROVE result.type = "Ok"
  <2>1. answer = [y \in Clients |-> answer[y]]
    BY DEF KvInv
  <2> QED BY <1>3, <2>1
<1>4. ASSUME NEW result, Answer(c, result) PROVE result.type = "Ok"
  BY <1>3, <1>4 DEF Answer
<1>5. ~IsWrite(Op(c))
  BY <1>1, CallFacts
<1>6. \A b : Transport(b).type # "Ok"
  BY DEF Transport
<1>7. ASSUME NEW op \in late, LateWrite(op) PROVE FALSE
  BY <1>2, <1>7 DEF LateWrite
<1>8. ASSUME NEW k \in Keys, Replicate(k) PROVE FALSE
  BY <1>2, <1>8 DEF Replicate
<1>9. ASSUME NEW op \in Calls, Invoke(c, op) PROVE FALSE
  BY <1>9 DEF Invoke
<1>10. ~(MemoryGet(c) \/ MemoryPut(c) \/ MemoryAtomicUpdate(c) \/ MemoryTransact(c) \/ GetItem(c))
  BY DEF MemoryGet, MemoryPut, MemoryAtomicUpdate, MemoryTransact, GetItem, Sent
<1>11. ~(\/ ConditionalCheckFailed(c) \/ UpdateConditionFailed(c) \/ InvalidPath(c)
         \/ ExecuteWrite(c) \/ RepeatTransaction(c) \/ LoseReply(c))
  BY <1>5 DEF ConditionalCheckFailed, UpdateConditionFailed, InvalidPath, ExecuteWrite,
              RepeatTransaction, LoseReply, Executes
<1>12. ~(ClassifyRefusal(c) \/ Resend(c))
  BY DEF ClassifyRefusal, Resend
<1>13. ~RejectMalformed(c)
  BY ZenonT(40), <1>4, <1>6, ErrorsMean DEF RejectMalformed
<1>14. ASSUME NEW err \in Unknowns, GiveUp(c, err) PROVE FALSE
  <2>1. answer' = [answer EXCEPT ![c] = Transport(TRUE)]
    BY <1>14, ErrorsMean DEF GiveUp
  <2> QED BY <1>3, <1>6, <2>1
<1>15. ASSUME NEW err \in Refusals(Op(c)), ServiceRefuses(c, err) PROVE FALSE
  <2>1. PICK b \in BOOLEAN : MapError(Op(c), err, {"TransactionConflict"}) = Transport(b)
    BY ZenonT(40), <1>15, ErrorsMean
  <2>2. Answer(c, Transport(b))
    BY <1>15, <2>1 DEF ServiceRefuses
  <2> QED BY <1>4, <1>6, <2>2
<1>16. ASSUME NEW k \in Keys, QueryPage(c, k) PROVE FALSE
  <2>1. Answer(c, Transport(FALSE)) \/ answer' = answer
    BY <1>16 DEF QueryPage
  <2> QED BY <1>2, <1>4, <1>6, <2>1
<1>17. PICK x \in Clients :
         \/ \E op \in Calls : Invoke(x, op)
         \/ MemoryGet(x) \/ MemoryPut(x) \/ MemoryAtomicUpdate(x) \/ MemoryTransact(x)
         \/ MemoryQuery(x)
         \/ RejectMalformed(x) \/ GetItem(x) \/ ConditionalCheckFailed(x)
         \/ UpdateConditionFailed(x) \/ ClassifyRefusal(x) \/ InvalidPath(x)
         \/ ExecuteWrite(x) \/ RepeatTransaction(x) \/ LoseReply(x) \/ Resend(x)
         \/ \E err \in Unknowns : GiveUp(x, err)
         \/ \E err \in Refusals(Op(x)) : ServiceRefuses(x, err)
         \/ \E k \in Keys : QueryPage(x, k)
         \/ QueryEnd(x)
  BY <1>7, <1>8, Zenon DEF Next
<1>18. x = c
  <2>1. answer' = answer \/ \E result : answer' = [answer EXCEPT ![x] = result]
    BY <1>17, StepAnswers
  <2> QED BY <1>2, <2>1, AnswersItself
<1> QED BY <1>9, <1>10, <1>11, <1>12, <1>13, <1>14, <1>15, <1>16, <1>17, <1>18

\* A query reports every item that matches its prefix and exists throughout the
\* call, on both backends: although it is read in pages, keys are chosen by
\* partition and sort key, and other callers write meanwhile.
THEOREM QueriesComplete == Spec => QueryMissesNothing
<1> DEFINE Reports(c) ==
             Phase(c) = "sent" /\ Op(c).type = "query" /\ answer'[c].type = "Ok"
               => call[c].stable \subseteq {pair[1] : pair \in answer'[c].list}
<1>1. ASSUME KvInv, Next, NEW c \in Clients PROVE Reports(c)
  <2> SUFFICES ASSUME Phase(c) = "sent", Op(c).type = "query", answer'[c].type = "Ok",
                      NEW k \in call[c].stable
               PROVE  \E pair \in answer'[c].list : pair[1] = k
    OBVIOUS
  <2>1. PICK q : q = call[c]
    OBVIOUS
  <2>2. ClientOK(q, answer[c], items, replica, Dynamo) /\ q.phase # "idle" /\ q.op = Op(c)
    BY <1>1, <2>1 DEF KvInv, Phase, Op
  <2>3. k \in Keys /\ starts_with(k, Op(c).prefix)
    BY <2>1, <2>2, OpenCall DEF ClientOK
  <2>4. items[k] # NoItem /\ (Dynamo => k \in q.rest \/ \E pair \in q.found : pair[1] = k)
    BY <2>1, <2>2 DEF ClientOK, ProgressOK
  <2>5. answer = [y \in Clients |-> answer[y]]
    BY <1>1 DEF KvInv
  <2>6. ASSUME NEW found, Answer(c, Listed(found)) PROVE answer'[c].list = found
    BY <2>5, <2>6 DEF Answer, Listed
  <2>7. CASE MemoryQuery(c)
    <3>1. PICK found : found = {<<j, items[j]>> : j \in {j \in Keys : /\ items[j] # NoItem
                                                                /\ starts_with(j, Op(c).prefix)}}
      OBVIOUS
    <3>2. answer'[c].list = found
      BY <2>6, <2>7, <3>1 DEF MemoryQuery
    <3>3. <<k, items[k]>> \in found /\ <<k, items[k]>>[1] = k
      BY <2>3, <2>4, <3>1
    <3> QED BY <3>2, <3>3
  <2>8. CASE QueryEnd(c)
    <3>1. Dynamo /\ q.rest = {} /\ Answer(c, Listed(q.found))
      BY <2>1, <2>8 DEF QueryEnd, Drained
    <3>2. answer'[c].list = q.found
      BY <2>6, <3>1
    <3> QED BY <2>4, <3>1, <3>2
  <2> QED BY <1>1, <2>7, <2>8, QueryAnswered
<1>2. KvInv /\ [Next]_vars => [\A c \in Clients : Reports(c)]_vars
  BY <1>1
<1> QED BY <1>2, KvInvariant, PTL DEF Spec, QueryMissesNothing

---------------------------------------------------------------------------
(* Counters: an Increment never gives a number twice. *)

\* The value has the counter a.
HasCounter(value, a) == IsMap(value) /\ a \in DOMAIN value[2] /\ IsU64(value[2][a])

Count(value, a) == value[2][a][2]

\* w has the counter of v, if v has it, and no smaller one.
Grows(v, w, a) ==
  /\ HasCounter(w, a) => Count(w, a) \in Nat
  /\ HasCounter(v, a) => HasCounter(w, a) /\ Count(v, a) <= Count(w, a)

\* w has a larger counter than v.
GrowsPast(v, w, a) ==
  /\ HasCounter(v, a) /\ HasCounter(w, a) /\ w[2][a] = U64(Count(w, a))
  /\ Count(w, a) \in Nat /\ Count(v, a) < Count(w, a)

\* The map h has the attribute a of g, incremented.
Incremented(g, h, a) ==
  /\ a \in DOMAIN g /\ IsU64(g[a]) /\ a \in DOMAIN h
  /\ h[a] = U64(h[a][2]) /\ h[a][2] \in Nat /\ g[a][2] < h[a][2]

\* The map h has the attribute a of g.
Retained(g, h, a) ==
  (a \in DOMAIN h <=> a \in DOMAIN g) /\ (a \in DOMAIN g => h[a] = g[a])

\* One action of apply_update_actions: the counter is left alone or incremented.
LEMMA ActionCounts ==
  ASSUME NEW g, NEW act, NEW a, ValidAction(act), ActionApplies(g, act),
         act.attribute = a => act.type = "Increment" /\ act.by > 0,
         a \in DOMAIN g => (IsU64(g[a]) => g[a][2] \in Nat)
  PROVE  /\ act.attribute # a => Retained(g, AfterAction(g, act), a)
         /\ act.attribute = a => Incremented(g, AfterAction(g, act), a)
<1>1. PICK h : h = AfterAction(g, act)
  OBVIOUS
<1>2. CASE act.attribute # a
  <2>1. CASE act.type = "Set"
    <3>1. h = [x \in DOMAIN g \cup {act.attribute} |-> IF x = act.attribute THEN act.value ELSE g[x]]
      BY <1>1, <2>1 DEF AfterAction
    <3> QED BY <1>1, <1>2, <3>1 DEF Retained
  <2>2. CASE act.type = "Increment"
    <3>1. h = [g EXCEPT ![act.attribute] = U64(g[act.attribute][2] + act.by)]
      BY <1>1, <2>2 DEF AfterAction
    <3> QED BY <1>1, <1>2, <3>1 DEF Retained
  <2>3. CASE act.type = "Remove"
    <3>1. h = [x \in DOMAIN g \ {act.attribute} |-> g[x]]
      BY <1>1, <2>3 DEF AfterAction
    <3> QED BY <1>1, <1>2, <3>1 DEF Retained
  <2> QED BY <2>1, <2>2, <2>3 DEF ValidAction
<1>3. CASE act.attribute = a
  <2>1. PICK sum : sum = g[a][2] + act.by
    OBVIOUS
  <2>2. h = [g EXCEPT ![a] = U64(sum)]
    BY <1>1, <1>3, <2>1 DEF AfterAction
  <2>3. a \in DOMAIN g /\ IsU64(g[a])
    BY <1>3 DEF ActionApplies
  <2>4. g[a][2] \in Nat /\ act.by \in 0..MaxU64 /\ act.by > 0
    BY <1>3, <2>3 DEF ValidAction
  <2>5. sum \in Nat /\ g[a][2] < sum
    BY <2>1, <2>4, MaxU64Assumption
  <2>6. h[a] = U64(sum) /\ a \in DOMAIN h /\ U64(sum)[2] = sum
    BY <2>2, <2>3 DEF U64
  <2> QED BY <1>1, <1>3, <2>3, <2>5, <2>6 DEF Incremented
<1> QED BY <1>2, <1>3

\* An update in memory: counters grow.
LEMMA UpdateCounts ==
  ASSUME NEW value, NEW expr, Len(expr) \in Nat, NEW a,
         \A j \in 1..Len(expr) : /\ ValidAction(expr[j])
                                 /\ expr[j].attribute = a => expr[j].type = "Increment" /\ expr[j].by > 0,
         HasCounter(value, a) => Count(value, a) \in Nat,
         apply_update_actions(value, expr) # NoItem
  PROVE  /\ Grows(value, apply_update_actions(value, expr), a)
         /\ Len(expr) > 0 /\ expr[1].attribute = a
              => GrowsPast(value, apply_update_actions(value, expr), a)
<1> DEFINE N == Len(expr)
           v == value[2]
           First == N > 0 /\ expr[1].attribute = a
<1>1. IsMap(value)
  BY DEF apply_update_actions
<1>2. PICK f : Loop(value, expr, f)
  BY LoopExists
<1>3. /\ f[0] = value
      /\ \A i \in 1..N : f[i] = IF f[i - 1] # NoItem /\ ActionApplies(f[i - 1][2], expr[i])
                                THEN Map(AfterAction(f[i - 1][2], expr[i])) ELSE NoItem
  <2>1. f = [i \in 0..N |->
               IF i = 0 THEN value
               ELSE IF f[i - 1] # NoItem /\ ActionApplies(f[i - 1][2], expr[i])
                    THEN Map(AfterAction(f[i - 1][2], expr[i])) ELSE NoItem]
    BY <1>2 DEF Loop
  <2>2. 0 \in 0..N /\ \A i \in 1..N : i \in 0..N /\ i # 0
    OBVIOUS
  <2> QED BY <2>1, <2>2
<1> DEFINE Has(g) == a \in DOMAIN g /\ IsU64(g[a])
           Good(g, n) == /\ Has(g) <=> Has(v)
                         /\ Has(g) => g[a][2] \in Nat /\ v[a][2] <= g[a][2]
                         /\ First /\ n > 0 => Has(g) /\ g[a] = U64(g[a][2]) /\ v[a][2] < g[a][2]
           T == {n \in Nat : n <= N /\ f[n] # NoItem => IsMap(f[n]) /\ Good(f[n][2], n)}
<1>4. Has(v) => v[a][2] \in Nat
  BY <1>1 DEF HasCounter, Count
<1>5. 0 \in T
  BY <1>1, <1>3, <1>4
<1>6. ASSUME NEW n \in Nat, n \in T PROVE n + 1 \in T
  <2> SUFFICES ASSUME n + 1 <= N, f[n + 1] # NoItem PROVE IsMap(f[n + 1]) /\ Good(f[n + 1][2], n + 1)
    OBVIOUS
  <2>1. n <= N /\ n + 1 \in 1..N /\ (n + 1) - 1 = n
    OBVIOUS
  <2>2. PICK g : g = f[n][2]
    OBVIOUS
  <2>3. PICK act : act = expr[n + 1]
    OBVIOUS
  <2>4. PICK h : h = AfterAction(g, act)
    OBVIOUS
  <2>5. f[n] # NoItem /\ ActionApplies(g, act) /\ f[n + 1] = Map(h)
    BY <1>3, <2>1, <2>2, <2>3, <2>4
  <2>6. Good(g, n)
    BY <1>6, <2>1, <2>2, <2>5
  <2>7. ValidAction(act) /\ (act.attribute = a => act.type = "Increment" /\ act.by > 0)
    BY <2>1, <2>3
  <2>8. a \in DOMAIN g => (IsU64(g[a]) => g[a][2] \in Nat)
    BY <2>6
  <2>9. /\ act.attribute # a => Retained(g, h, a)
        /\ act.attribute = a => Incremented(g, h, a)
    BY <2>4, <2>5, <2>7, <2>8, ActionCounts
  <2>10. First /\ n = 0 => act.attribute = a
    BY <2>3
  <2>11. Good(h, n + 1)
    <3>1. CASE act.attribute = a
      <4>1. Has(g) /\ Has(v) /\ v[a][2] \in Nat /\ g[a][2] \in Nat /\ v[a][2] <= g[a][2]
        BY <1>4, <2>6, <2>9, <3>1 DEF Incremented
      <4>5. \A i : IsU64(U64(i))
        BY DEF IsU64, U64
      <4>2. Has(h) /\ h[a] = U64(h[a][2]) /\ h[a][2] \in Nat /\ g[a][2] < h[a][2]
        BY <2>9, <3>1, <4>5 DEF Incremented
      <4>3. \A i, j, m \in Nat : i <= j /\ j < m => i <= m /\ i < m
        OBVIOUS
      <4>4. v[a][2] <= h[a][2] /\ v[a][2] < h[a][2]
        BY <4>1, <4>2, <4>3, Zenon
      <4> QED BY <4>1, <4>2, <4>4
    <3>2. CASE act.attribute # a
      <4>1. (a \in DOMAIN h <=> a \in DOMAIN g) /\ (a \in DOMAIN g => h[a] = g[a])
        BY <2>9, <3>2 DEF Retained
      <4>2. Has(h) <=> Has(g)
        BY <4>1
      <4>3. First => n > 0
        BY <2>10, <3>2
      <4> QED BY <2>6, <4>1, <4>2, <4>3
    <3> QED BY <3>1, <3>2
  <2>12. IsMap(f[n + 1]) /\ f[n + 1][2] = h
    BY <2>5 DEF Map, IsMap
  <2> QED BY <2>11, <2>12
<1>7. N \in T
  BY <1>5, <1>6, SetInduction
<1>8. apply_update_actions(value, expr) = f[N]
  BY <1>1, <1>2 DEF Loop
<1>9. IsMap(f[N]) /\ Good(f[N][2], N)
  BY <1>7, <1>8
<1>10. Grows(value, f[N], a)
  BY <1>1, <1>9 DEF Grows, HasCounter, Count
<1>11. First => GrowsPast(value, f[N], a)
  BY <1>1, <1>9 DEF GrowsPast, HasCounter, Count
<1> QED BY <1>8, <1>10, <1>11

\* An update expression in the table: counters grow, and a sum is never one that
\* was there before, as numbers do not wrap.
LEMMA UpdatedCounts ==
  ASSUME NEW value, NEW expr, IsSequence(expr), NEW a,
         \A j \in 1..Len(expr) : /\ ValidAction(expr[j])
                                 /\ expr[j].attribute = a => expr[j].type = "Increment" /\ expr[j].by > 0,
         HasCounter(value, a) => Count(value, a) \in Nat,
         IncrementGuard(value, expr), PathsValid(value, expr)
  PROVE  /\ Grows(value, Updated(value, expr), a)
         /\ Len(expr) > 0 /\ expr[1].attribute = a => GrowsPast(value, Updated(value, expr), a)
<1>1. CASE expr = <<>>
  <2>1. Updated(value, expr) = value /\ Len(expr) = 0
    BY <1>1 DEF Updated
  <2>2. Count(value, a) \in Nat => Count(value, a) <= Count(value, a)
    OBVIOUS
  <2> QED BY <2>1, <2>2 DEF Grows
<1>2. CASE expr # <<>>
  <2>1. PICK g : g = value[2]
    OBVIOUS
  <2> DEFINE Action(x) == CHOOSE i \in 1..Len(expr) : expr[i].attribute = x
             Named == {expr[i].attribute : i \in 1..Len(expr)}
             Removed == {expr[i].attribute : i \in {j \in 1..Len(expr) : expr[j].type = "Remove"}}
             New(x) == IF x \notin Named THEN g[x]
                       ELSE IF expr[Action(x)].type = "Set" THEN expr[Action(x)].value
                       ELSE U64(g[x][2] + expr[Action(x)].by)
  <2>2. PICK h : h = [x \in (DOMAIN g \cup Named) \ Removed |-> New(x)]
    OBVIOUS
  <2>3. Updated(value, expr) = Map(h)
    BY <1>2, <2>1, <2>2 DEF Updated
  <2>4. IsMap(value) /\ IsMap(Map(h)) /\ Map(h)[2] = h
    BY <1>2 DEF PathsValid, Map, IsMap
  <2>5. Removed \subseteq Named
    OBVIOUS
  <2>6. CASE a \notin Named
    <3>1. (a \in DOMAIN h <=> a \in DOMAIN g) /\ (a \in DOMAIN g => h[a] = g[a])
      BY <2>2, <2>5, <2>6
    <3>2. HasCounter(Map(h), a) <=> HasCounter(value, a)
      BY <2>1, <2>4, <3>1 DEF HasCounter
    <3>3. HasCounter(value, a) => Count(Map(h), a) = Count(value, a)
      BY <2>1, <2>4, <3>1 DEF HasCounter, Count
    <3>4. Grows(value, Map(h), a)
      <4>1. PICK n : n = Count(value, a)
        OBVIOUS
      <4>2. n \in Nat => n <= n
        OBVIOUS
      <4> QED BY <3>2, <3>3, <4>1, <4>2 DEF Grows
    <3>5. ~(Len(expr) > 0 /\ expr[1].attribute = a)
      <4>1. Len(expr) \in Nat
        BY DEF IsSequence
      <4> QED BY <2>6, <4>1
    <3> QED BY <2>3, <3>4, <3>5
  <2>7. CASE a \in Named
    <3>1. PICK i : i = Action(a)
      OBVIOUS
    <3>2. i \in 1..Len(expr) /\ expr[i].attribute = a
      BY <2>7, <3>1
    <3>3. expr[i].type = "Increment" /\ expr[i].by > 0 /\ expr[i].by \in 0..MaxU64 /\ a # ""
      BY <3>2 DEF ValidAction
    <3>4. IsU64(value_path(value, a))
      BY <3>2, <3>3 DEF IncrementGuard
    <3>5. a \in DOMAIN g /\ IsU64(g[a])
      BY <2>1, <2>4, <3>3, <3>4 DEF value_path, IsU64, NoItem
    <3>6. HasCounter(value, a) /\ g[a][2] \in Nat /\ Count(value, a) = g[a][2]
      BY <2>1, <2>4, <3>5 DEF HasCounter, Count
    <3>7. a \notin Removed
      <4>1. ASSUME NEW j \in 1..Len(expr), expr[j].type = "Remove" PROVE expr[j].attribute # a
        BY <4>1
      <4> QED BY <4>1
    <3>8. PICK sum : sum = g[a][2] + expr[i].by
      OBVIOUS
    <3>9. sum \in Nat /\ g[a][2] < sum
      <4>1. \A m, n \in Nat : n > 0 => m + n \in Nat /\ m < m + n
        OBVIOUS
      <4>3. \A n \in 0..MaxU64 : n \in Nat
        BY MaxU64Assumption
      <4>2. expr[i].by \in Nat /\ expr[i].by > 0
        BY <3>3, <4>3, Zenon
      <4> QED BY <3>6, <3>8, <4>1, <4>2, Zenon
    <3>10. a \in DOMAIN h /\ h[a] = U64(sum)
      <4>1. New(a) = U64(sum)
        BY <2>7, <3>1, <3>3, <3>8
      <4> QED BY <2>2, <2>7, <3>7, <4>1
    <3>11. IsU64(U64(sum)) /\ U64(sum)[2] = sum
      BY DEF IsU64, U64
    <3>12. HasCounter(Map(h), a) /\ Count(Map(h), a) = sum /\ Map(h)[2][a] = U64(sum)
      BY <2>4, <3>10, <3>11 DEF HasCounter, Count
    <3>13. GrowsPast(value, Map(h), a)
      BY <3>6, <3>9, <3>12 DEF GrowsPast
    <3>14. Grows(value, Map(h), a)
      BY <3>6, <3>9, <3>12 DEF Grows
    <3> QED BY <2>3, <3>13, <3>14
  <2> QED BY <2>6, <2>7
<1> QED BY <1>1, <1>2

\* Every counter in before that some call allocates from is in after, no smaller.
CountersGrow(before, after) ==
  \A op \in Calls : Allocates(op) => Grows(before[op.key], after[op.key], Counter(op))

\* The counters of a table are numbers.
CountersAreNumbers(table) ==
  \A op \in Calls : Allocates(op) =>
    (HasCounter(table[op.key], Counter(op)) => Count(table[op.key], Counter(op)) \in Nat)

\* An item that is left alone keeps its counter.
LEMMA SameCounts ==
  ASSUME NEW value, NEW a, HasCounter(value, a) => Count(value, a) \in Nat
  PROVE  Grows(value, value, a)
<1>1. PICK n : n = Count(value, a)
  OBVIOUS
<1>2. n \in Nat => n <= n
  OBVIOUS
<1> QED BY <1>1, <1>2 DEF Grows

\* An item that is created has a counter that is a number, or none.
LEMMA CreatedCounts ==
  ASSUME NEW value, Decodes(value), NEW a
  PROVE  Grows(NoItem, value, a)
<1>1. ~HasCounter(NoItem, a)
  BY DEF HasCounter, IsMap, NoItem
<1>2. ASSUME HasCounter(value, a) PROVE Count(value, a) \in Nat
  <2>1. Count(value, a) \in 0..MaxU64
    BY <1>2 DEF Decodes, HasCounter, Count
  <2>2. \A n \in 0..MaxU64 : n \in Nat
    BY MaxU64Assumption
  <2> QED BY <2>1, <2>2, Zenon
<1> QED BY <1>1, <1>2 DEF Grows

\* The first action of an update that allocates.
LEMMA AllocatesFacts ==
  ASSUME NEW op \in Calls, Allocates(op)
  PROVE  /\ op.type = "update" /\ Len(op.ops) = 1 /\ op.key \in Keys /\ op.ops[1].key = op.key
         /\ op.ops[1].type = "Update" /\ IsSequence(op.ops[1].expr) /\ Len(op.ops[1].expr) > 0
         /\ op.ops[1].expr[1].attribute = Counter(op)
<1>1. op.type = "update" /\ op.ops[1].expr # <<>>
  BY DEF Allocates
<1>2. /\ Len(op.ops) = 1 /\ op.key \in Keys /\ op.ops[1].key = op.key /\ op.ops[1].type = "Update"
      /\ \A i \in 1..Len(op.ops) : ValidOperation(op.ops[i])
  BY <1>1, CallFacts
<1>3. ValidOperation(op.ops[1])
  BY <1>2
<1>4. IsSequence(op.ops[1].expr)
  BY <1>2, <1>3 DEF ValidOperation
<1>5. Len(op.ops[1].expr) > 0
  BY <1>1, <1>4 DEF IsSequence
<1> QED BY <1>1, <1>2, <1>4, <1>5 DEF Counter

\* An operation on an item with a counter, in memory.
LEMMA PlannedCounts ==
  ASSUME NEW o, ValidOperation(o), NEW a, OnlyCounts(o, a), NEW value, Validates(o, value),
         HasCounter(value, a) => Count(value, a) \in Nat
  PROVE  /\ Grows(value, Planned(o, value), a)
         /\ o.type = "Update" /\ Len(o.expr) > 0 /\ o.expr[1].attribute = a
              => GrowsPast(value, Planned(o, value), a)
<1>1. o.type \in {"Put", "Update", "ConditionCheck"}
  BY DEF OnlyCounts
<1>2. CASE o.type = "ConditionCheck"
  <2>1. Planned(o, value) = value
    BY <1>2 DEF Planned
  <2> QED BY <1>2, <2>1, SameCounts
<1>3. CASE o.type = "Update"
  <2>1. Planned(o, value) = apply_update_actions(value, o.expr) /\ Planned(o, value) # NoItem
    BY <1>3 DEF Planned, Validates
  <2>2. PICK expr : expr = o.expr
    OBVIOUS
  <2>3. Len(expr) \in Nat
    BY <1>3, <2>2 DEF ValidOperation, IsSequence
  <2>4. \A j \in 1..Len(expr) : /\ ValidAction(expr[j])
                                /\ expr[j].attribute = a => expr[j].type = "Increment" /\ expr[j].by > 0
    BY <1>3, <2>2 DEF ValidOperation, OnlyCounts
  <2> QED BY <2>1, <2>2, <2>3, <2>4, UpdateCounts
<1>4. CASE o.type = "Put"
  <2>1. value = NoItem
    BY <1>4 DEF OnlyCounts, Validates, check_conditions, check_condition
  <2>2. Planned(o, value) = o.value /\ Decodes(o.value)
    BY <1>4 DEF Planned, ValidOperation
  <2> QED BY <1>4, <2>1, <2>2, CreatedCounts
<1> QED BY <1>1, <1>2, <1>3, <1>4

\* An operation on an item with a counter, in the table.
LEMMA WrittenCounts ==
  ASSUME NEW o, ValidOperation(o), NEW a, OnlyCounts(o, a), NEW value, ItemCondition(o, value),
         o.type = "Update" => PathsValid(value, o.expr),
         HasCounter(value, a) => Count(value, a) \in Nat
  PROVE  LET w == IF o.type = "Update" THEN Updated(value, o.expr) ELSE Planned(o, value)
         IN  /\ Grows(value, w, a)
             /\ o.type = "Update" /\ Len(o.expr) > 0 /\ o.expr[1].attribute = a
                  => GrowsPast(value, w, a)
<1>1. o.type \in {"Put", "Update", "ConditionCheck"}
  BY DEF OnlyCounts
<1>2. CASE o.type = "ConditionCheck"
  <2>1. Planned(o, value) = value
    BY <1>2 DEF Planned
  <2> QED BY <1>2, <2>1, SameCounts
<1>3. CASE o.type = "Update"
  <2>1. IncrementGuard(value, o.expr) /\ PathsValid(value, o.expr)
    BY <1>3 DEF ItemCondition, update_condition_expression
  <2>2. PICK expr : expr = o.expr
    OBVIOUS
  <2>3. IsSequence(expr)
    BY <1>3, <2>2 DEF ValidOperation
  <2>4. \A j \in 1..Len(expr) : /\ ValidAction(expr[j])
                                /\ expr[j].attribute = a => expr[j].type = "Increment" /\ expr[j].by > 0
    BY <1>3, <2>2 DEF ValidOperation, OnlyCounts
  <2>5. /\ Grows(value, Updated(value, expr), a)
        /\ Len(expr) > 0 /\ expr[1].attribute = a => GrowsPast(value, Updated(value, expr), a)
    BY <2>1, <2>2, <2>3, <2>4, UpdatedCounts
  <2> QED BY <1>3, <2>2, <2>5
<1>4. CASE o.type = "Put"
  <2>1. value = NoItem
    BY <1>4 DEF OnlyCounts, ItemCondition, conditions_clause, condition_clause
  <2>2. Planned(o, value) = o.value /\ Decodes(o.value)
    BY <1>4 DEF Planned, ValidOperation
  <2> QED BY <1>4, <2>1, <2>2, CreatedCounts
<1> QED BY <1>1, <1>2, <1>3, <1>4

\* Every counter grows, and the one that op allocates from past its value before.
Counts(op, before, after) ==
  /\ CountersGrow(before, after)
  /\ Allocates(op) => GrowsPast(before[op.key], after[op.key], Counter(op))

\* A write that the in-memory backend accepts, for callers that keep to the rules.
LEMMA MemoryCounts ==
  ASSUME CountersOnlyCount, NEW table, table = [k \in Keys |-> table[k]], CountersAreNumbers(table),
         NEW op \in Calls, Accepts(table, op.ops)
  PROVE  Counts(op, table, ApplyPlan(table, op.ops))
<1>1. PICK p : p = ApplyPlan(table, op.ops)
  OBVIOUS
<1>2. /\ Len(op.ops) \in Nat
      /\ \A i \in 1..Len(op.ops) : ValidOperation(op.ops[i]) /\ op.ops[i].key \in Keys
  BY CallFacts
<1>3. DOMAIN table = Keys
  OBVIOUS
<1>4. Stems(p, table, op.ops)
  BY <1>1, <1>2, <1>3, PlanStems
<1>5. \A i \in 1..Len(op.ops) : Validates(op.ops[i], table[op.ops[i].key])
  BY DEF Accepts
<1>6. ASSUME NEW x \in Calls, Allocates(x)
      PROVE  Grows(table[x.key], p[x.key], Counter(x))
  <2>1. x.key \in Keys
    BY <1>6, AllocatesFacts
  <2>2. HasCounter(table[x.key], Counter(x)) => Count(table[x.key], Counter(x)) \in Nat
    BY <1>6 DEF CountersAreNumbers
  <2>3. CASE p[x.key] = table[x.key]
    <3>1. Grows(table[x.key], table[x.key], Counter(x))
      BY <2>2, SameCounts
    <3> QED BY <2>3, <3>1
  <2>4. ASSUME NEW i \in 1..Len(op.ops), op.ops[i].key = x.key,
               p[x.key] = Planned(op.ops[i], table[x.key])
        PROVE  Grows(table[x.key], p[x.key], Counter(x))
    <3>1. OnlyCounts(op.ops[i], Counter(x))
      BY <1>6, <2>4 DEF CountersOnlyCount
    <3>2. ValidOperation(op.ops[i]) /\ Validates(op.ops[i], table[x.key])
      BY <1>2, <1>5, <2>4
    <3>3. Grows(table[x.key], Planned(op.ops[i], table[x.key]), Counter(x))
      BY <2>2, <3>1, <3>2, PlannedCounts
    <3> QED BY <2>4, <3>3
  <2> QED BY <1>3, <1>4, <2>1, <2>3, <2>4 DEF Stems
<1>7. ASSUME Allocates(op) PROVE GrowsPast(table[op.key], p[op.key], Counter(op))
  <2>1. PICK o : o = op.ops[1]
    OBVIOUS
  <2>2. /\ Len(op.ops) = 1 /\ op.key \in Keys /\ o.key = op.key
        /\ o.type = "Update" /\ Len(o.expr) > 0 /\ o.expr[1].attribute = Counter(op)
    BY <1>7, <2>1, AllocatesFacts
  <2>3. p = [table EXCEPT ![op.key] = Planned(o, table[op.key])]
    BY <1>1, <1>3, <2>1, <2>2, SingleWrite
  <2>4. p[op.key] = Planned(o, table[op.key])
    BY <1>3, <2>2, <2>3
  <2>5. ValidOperation(o) /\ Validates(o, table[op.key]) /\ OnlyCounts(o, Counter(op))
    <3>1. 1 \in 1..Len(op.ops)
      BY <2>2
    <3> QED BY <1>2, <1>5, <1>7, <2>1, <2>2, <3>1 DEF CountersOnlyCount
  <2>6. HasCounter(table[op.key], Counter(op)) => Count(table[op.key], Counter(op)) \in Nat
    BY <1>7 DEF CountersAreNumbers
  <2>7. GrowsPast(table[op.key], Planned(o, table[op.key]), Counter(op))
    BY <2>2, <2>5, <2>6, PlannedCounts
  <2> QED BY <2>4, <2>7
<1> QED BY <1>1, <1>6, <1>7 DEF Counts, CountersGrow

\* A write that the table executes, for callers that keep to the rules.
LEMMA TableCounts ==
  ASSUME CountersOnlyCount, NEW table, table = [k \in Keys |-> table[k]], CountersAreNumbers(table),
         NEW op \in Calls, ConditionsHold(table, op.ops), Applicable(table, op.ops), RequestValid(op.ops)
  PROVE  Counts(op, table, Transacted(table, op.ops))
<1>1. PICK p : p = Transacted(table, op.ops)
  OBVIOUS
<1>2. /\ Len(op.ops) \in Nat
      /\ \A i \in 1..Len(op.ops) : ValidOperation(op.ops[i]) /\ op.ops[i].key \in Keys
  BY CallFacts
<1>3. DOMAIN table = Keys
  OBVIOUS
<1>4. \A i, j \in 1..Len(op.ops) : op.ops[i].key = op.ops[j].key => i = j
  BY DEF RequestValid
<1>5. ASSUME NEW i \in 1..Len(op.ops)
      PROVE  p[op.ops[i].key] = IF op.ops[i].type = "Update"
                                THEN Updated(table[op.ops[i].key], op.ops[i].expr)
                                ELSE Planned(op.ops[i], table[op.ops[i].key])
  <2>1. PICK k : k = op.ops[i].key
    OBVIOUS
  <2>2. (CHOOSE j \in 1..Len(op.ops) : op.ops[j].key = k) = i
    BY <1>4, <2>1
  <2>3. k \in DOMAIN table /\ \E j \in 1..Len(op.ops) : op.ops[j].key = k
    BY <1>2, <1>3, <2>1
  <2> QED BY <1>1, <2>1, <2>2, <2>3 DEF Transacted
<1>6. ASSUME NEW x \in Calls, Allocates(x), NEW i \in 1..Len(op.ops), op.ops[i].key = x.key
      PROVE  /\ Grows(table[x.key], p[x.key], Counter(x))
             /\ op.ops[i].type = "Update" /\ Len(op.ops[i].expr) > 0
                  /\ op.ops[i].expr[1].attribute = Counter(x)
                => GrowsPast(table[x.key], p[x.key], Counter(x))
  <2>1. OnlyCounts(op.ops[i], Counter(x))
    BY <1>6 DEF CountersOnlyCount
  <2>2. HasCounter(table[x.key], Counter(x)) => Count(table[x.key], Counter(x)) \in Nat
    BY <1>6 DEF CountersAreNumbers
  <2>3. /\ ValidOperation(op.ops[i]) /\ ItemCondition(op.ops[i], table[x.key])
        /\ op.ops[i].type = "Update" => PathsValid(table[x.key], op.ops[i].expr)
    BY <1>2, <1>6 DEF ConditionsHold, Applicable
  <2>4. p[x.key] = IF op.ops[i].type = "Update" THEN Updated(table[x.key], op.ops[i].expr)
                   ELSE Planned(op.ops[i], table[x.key])
    BY <1>5, <1>6
  <2> QED BY <2>1, <2>2, <2>3, <2>4, WrittenCounts
<1>7. ASSUME NEW x \in Calls, Allocates(x)
      PROVE  Grows(table[x.key], p[x.key], Counter(x))
  <2>1. CASE \E i \in 1..Len(op.ops) : op.ops[i].key = x.key
    BY <1>6, <1>7, <2>1
  <2>2. CASE ~ \E i \in 1..Len(op.ops) : op.ops[i].key = x.key
    <3>1. x.key \in Keys
      BY <1>7, AllocatesFacts
    <3>2. p[x.key] = table[x.key]
      BY <1>1, <1>3, <2>2, <3>1 DEF Transacted
    <3>3. Grows(table[x.key], table[x.key], Counter(x))
      BY <1>7, SameCounts DEF CountersAreNumbers
    <3> QED BY <3>2, <3>3
  <2> QED BY <2>1, <2>2
<1>8. ASSUME Allocates(op) PROVE GrowsPast(table[op.key], p[op.key], Counter(op))
  <2>1. /\ Len(op.ops) = 1 /\ op.ops[1].key = op.key /\ op.ops[1].type = "Update"
        /\ Len(op.ops[1].expr) > 0 /\ op.ops[1].expr[1].attribute = Counter(op)
    BY <1>8, AllocatesFacts
  <2>2. 1 \in 1..Len(op.ops)
    BY <2>1
  <2> QED BY <1>6, <1>8, <2>1, <2>2
<1> QED BY <1>1, <1>7, <1>8 DEF Counts, CountersGrow

\* A number that was given is at most the one the counter has.
Covered(grant, table) ==
  \E op \in Calls : Allocates(op) /\ \E n \in Nat :
    /\ grant = <<op.key, U64(n)>> /\ HasCounter(table[op.key], Counter(op))
    /\ n <= Count(table[op.key], Counter(op))

CounterInv ==
  /\ CountersAreNumbers(items)
  /\ granted \in Seq(Keys \X {U64(n) : n \in Nat})
  /\ \A i \in DOMAIN granted : Covered(granted[i], items)
  /\ AllocationsDisjoint

\* Counters that grow cover what was given before.
LEMMA GrowingCovers ==
  ASSUME NEW grant, NEW before, NEW after, CountersAreNumbers(before), CountersGrow(before, after),
         Covered(grant, before)
  PROVE  Covered(grant, after)
<1>1. PICK op \in Calls, n \in Nat : /\ Allocates(op) /\ grant = <<op.key, U64(n)>>
                                     /\ HasCounter(before[op.key], Counter(op))
                                     /\ n <= Count(before[op.key], Counter(op))
  BY DEF Covered
<1>2. PICK i : i = Count(before[op.key], Counter(op))
  OBVIOUS
<1>3. PICK j : j = Count(after[op.key], Counter(op))
  OBVIOUS
<1>4. i \in Nat /\ j \in Nat /\ HasCounter(after[op.key], Counter(op)) /\ i <= j
  BY <1>1, <1>2, <1>3 DEF CountersAreNumbers, CountersGrow, Grows
<1>5. n <= j
  BY <1>1, <1>2, <1>4
<1> QED BY <1>1, <1>3, <1>4, <1>5 DEF Covered

\* Counters that grow remain numbers.
LEMMA GrowingNumbers ==
  ASSUME NEW before, NEW after, CountersGrow(before, after)
  PROVE  CountersAreNumbers(after)
BY DEF CountersGrow, CountersAreNumbers, Grows

\* A step that gives no number.
LEMMA NothingGranted ==
  ASSUME CounterInv, CountersGrow(items, items'), granted' = granted
  PROVE  CounterInv'
<1>1. CountersAreNumbers(items')
  BY GrowingNumbers
<1>2. \A i \in DOMAIN granted : Covered(granted[i], items')
  BY GrowingCovers DEF CounterInv
<1> QED BY <1>1, <1>2 DEF CounterInv, AllocationsDisjoint

\* A step that gives a number: the counter was smaller before, and so is every
\* number that was given.
LEMMA NumberGranted ==
  ASSUME CountersOnlyCount, CounterInv, NEW op \in Calls, Allocates(op), Counts(op, items, items'),
         granted' = Append(granted, <<op.key, items'[op.key][2][Counter(op)]>>)
  PROVE  CounterInv'
<1>1. PICK a : a = Counter(op)
  OBVIOUS
<1>2. PICK v : v = items[op.key]
  OBVIOUS
<1>3. PICK w : w = items'[op.key]
  OBVIOUS
<1>4. PICK i : i = Count(v, a)
  OBVIOUS
<1>5. PICK j : j = Count(w, a)
  OBVIOUS
<1>6. /\ HasCounter(v, a) /\ HasCounter(w, a) /\ w[2][a] = U64(j) /\ i \in Nat /\ j \in Nat /\ i < j
  <2>1. GrowsPast(v, w, a)
    BY <1>1, <1>2, <1>3 DEF Counts
  <2>2. HasCounter(v, a) => i \in Nat
    BY <1>1, <1>2, <1>4 DEF CounterInv, CountersAreNumbers
  <2> QED BY <1>4, <1>5, <2>1, <2>2 DEF GrowsPast
<1>7. PICK new : new = <<op.key, U64(j)>>
  OBVIOUS
<1>8. granted' = Append(granted, new)
  BY <1>1, <1>3, <1>6, <1>7
<1>9. PICK old : old = granted
  OBVIOUS
<1> DEFINE S == Keys \X {U64(n) : n \in Nat}
<1>10. old \in Seq(S) /\ new \in S
  <2>1. op.key \in Keys
    BY AllocatesFacts
  <2>2. U64(j) \in {U64(n) : n \in Nat}
    BY <1>6
  <2> QED BY <1>7, <1>9, <2>1, <2>2 DEF CounterInv
<1>11. /\ Append(old, new) \in Seq(S) /\ Len(old) \in Nat
       /\ DOMAIN old = 1..Len(old) /\ DOMAIN Append(old, new) = 1..(Len(old) + 1)
       /\ \A x \in 1..Len(old) : Append(old, new)[x] = old[x]
       /\ Append(old, new)[Len(old) + 1] = new
  <2> HIDE DEF S
  <2> QED BY <1>10
<1>12. CountersAreNumbers(items) /\ CountersAreNumbers(items') /\ CountersGrow(items, items')
  BY GrowingNumbers DEF CounterInv, Counts
<1>13. \A x \in 1..Len(old) : Covered(old[x], items')
  BY <1>9, <1>11, <1>12, GrowingCovers DEF CounterInv
<1>14. Covered(new, items')
  <2>1. j <= j
    BY <1>6
  <2> QED BY <1>1, <1>3, <1>5, <1>6, <1>7, <2>1 DEF Covered
<1>15. ASSUME NEW x \in 1..Len(old) PROVE old[x] # new
  <2>1. Covered(old[x], items)
    BY <1>9, <1>11 DEF CounterInv
  <2>2. PICK b \in Calls, n \in Nat : /\ Allocates(b) /\ old[x] = <<b.key, U64(n)>>
                                      /\ n <= Count(items[b.key], Counter(b))
    BY <2>1 DEF Covered
  <2>3. SUFFICES ASSUME old[x] = new PROVE FALSE
    OBVIOUS
  <2>4. b.key = op.key /\ U64(n) = U64(j)
    BY <1>7, <2>2, <2>3
  <2>5. n = j
    BY <2>4 DEF U64
  <2>6. Counter(b) = a
    BY <1>1, <2>2, <2>4 DEF CountersOnlyCount
  <2>7. n <= i
    BY <1>2, <1>4, <2>2, <2>4, <2>6
  <2> QED BY <1>6, <2>5, <2>7
<1>16. \A x, y \in 1..Len(old) : old[x] = old[y] => x = y
  BY <1>9, <1>11 DEF CounterInv, AllocationsDisjoint
<1>17. PICK after : after = Append(old, new)
  OBVIOUS
<1>18. \A x, y \in DOMAIN after : after[x] = after[y] => x = y
  <2>1. \A x \in DOMAIN after : x \in 1..Len(old) \/ x = Len(old) + 1
    BY <1>11, <1>17
  <2> QED BY <1>11, <1>15, <1>16, <1>17, <2>1
<1>19. \A x \in DOMAIN after : Covered(after[x], items')
  <2>1. \A x \in DOMAIN after : x \in 1..Len(old) \/ x = Len(old) + 1
    BY <1>11, <1>17
  <2> QED BY <1>11, <1>13, <1>14, <1>17, <2>1
<1>20. granted' = after
  BY <1>8, <1>9, <1>17
<1> QED BY <1>11, <1>12, <1>17, <1>18, <1>19, <1>20 DEF CounterInv, AllocationsDisjoint

\* A step that writes nothing.
LEMMA NothingWritten ==
  ASSUME CounterInv, items' = items, granted' = granted
  PROVE  CounterInv'
<1>1. CountersGrow(items, items)
  BY SameCounts DEF CounterInv, CountersGrow, CountersAreNumbers
<1> QED BY <1>1, NothingGranted

\* A write of c that took effect and is answered.
LEMMA AnsweredCounts ==
  ASSUME CountersOnlyCount, CounterInv, NEW c \in Clients, Op(c) \in Calls,
         Counts(Op(c), items, items'), NEW result, Granted(c, result),
         Op(c).type = "update" /\ result.type = "Ok" => result.value = items'[Op(c).key]
  PROVE  CounterInv'
<1>1. CountersGrow(items, items')
  BY DEF Counts
<1>2. CASE Allocates(Op(c)) /\ result.type = "Ok"
  <2>1. Op(c).type = "update"
    BY <1>2 DEF Allocates
  <2>2. granted' = Append(granted, <<Op(c).key, items'[Op(c).key][2][Counter(Op(c))]>>)
    BY <1>2, <2>1 DEF Granted
  <2> QED BY <1>2, <2>2, NumberGranted
<1>3. CASE ~(Allocates(Op(c)) /\ result.type = "Ok")
  <2>1. granted' = granted
    BY <1>3 DEF Granted
  <2> QED BY <1>1, <2>1, NothingGranted
<1> QED BY <1>2, <1>3

\* A write of the in-memory backend applies the whole call or nothing: put and
\* atomic_update are transactions of one operation.
LEMMA MemoryWritesWhole ==
  ASSUME KvInv, NEW c \in Clients,
         MemoryPut(c) \/ MemoryAtomicUpdate(c) \/ MemoryTransact(c)
  PROVE  /\ Op(c) \in Calls /\ Op(c).type \in {"put", "update", "transact"}
         /\ \/ items' = items /\ granted' = granted
            \/ Accepts(items, Op(c).ops) /\ items' = ApplyPlan(items, Op(c).ops)
<1>1. PICK o : o = Op(c).ops[1]
  OBVIOUS
<1>2. Phase(c) = "sent" /\ Op(c).type \in {"put", "update", "transact"}
  BY DEF MemoryPut, MemoryAtomicUpdate, MemoryTransact, Sent
<1>3. Op(c) \in Calls
  BY <1>2, Pending
<1>4. items = [k \in Keys |-> items[k]] /\ DOMAIN items = Keys
  BY DEF KvInv, ItemsOK
<1>5. Op(c).type \in {"put", "update"} => Len(Op(c).ops) = 1 /\ o.key \in Keys
  BY <1>1, <1>3, CallFacts
<1>6. ASSUME Op(c).type \in {"put", "update"}, o.type \in {"Put", "Update"}
      PROVE  ApplyPlan(items, Op(c).ops) = [items EXCEPT ![o.key] = Planned(o, items[o.key])]
  <2>1. PICK t : t = items
    OBVIOUS
  <2>2. ApplyPlan(t, Op(c).ops) = [t EXCEPT ![o.key] = Planned(o, t[o.key])]
    BY <1>1, <1>4, <1>5, <1>6, <2>1, SingleWrite
  <2> QED BY <2>1, <2>2
<1>7. CASE items' = items /\ granted' = granted
  BY <1>2, <1>3, <1>7
<1>8. CASE MemoryTransact(c) /\ ~(items' = items /\ granted' = granted)
  BY <1>2, <1>3, <1>8 DEF MemoryTransact
<1>9. CASE MemoryPut(c) /\ ~(items' = items /\ granted' = granted)
  <2>1. Op(c).type = "put"
    BY <1>9 DEF MemoryPut, Sent
  <2>2. check_conditions(items[o.key], o.conditions) /\ items' = [items EXCEPT ![o.key] = o.value]
    BY <1>1, <1>9 DEF MemoryPut
  <2>3. o.type = "Put"
    BY <1>1, <1>3, <2>1, CallFacts
  <2>4. Accepts(items, Op(c).ops)
    BY <1>1, <1>5, <2>1, <2>2, <2>3 DEF Accepts, Validates
  <2>5. Planned(o, items[o.key]) = o.value
    BY <2>3 DEF Planned
  <2>6. items' = ApplyPlan(items, Op(c).ops)
    BY <1>6, <2>1, <2>2, <2>3, <2>5
  <2> QED BY <1>2, <1>3, <2>4, <2>6
<1>10. CASE MemoryAtomicUpdate(c) /\ ~(items' = items /\ granted' = granted)
  <2>1. PICK u : u = apply_update_actions(items[o.key], o.expr)
    OBVIOUS
  <2>2. Op(c).type = "update"
    BY <1>10 DEF MemoryAtomicUpdate, Sent
  <2>3. /\ items[o.key] # NoItem /\ check_conditions(items[o.key], o.conditions) /\ u # NoItem
        /\ items' = [items EXCEPT ![o.key] = u]
    BY <1>1, <1>10, <2>1, SMTT(30) DEF MemoryAtomicUpdate
  <2>4. o.type = "Update"
    BY <1>1, <1>3, <2>2, CallFacts
  <2>5. Accepts(items, Op(c).ops)
    BY <1>1, <1>5, <2>1, <2>2, <2>3, <2>4 DEF Accepts, Validates
  <2>6. Planned(o, items[o.key]) = u
    BY <2>1, <2>4 DEF Planned
  <2>7. items' = ApplyPlan(items, Op(c).ops)
    BY <1>6, <2>2, <2>3, <2>4, <2>6
  <2> QED BY <1>2, <1>3, <2>5, <2>7
<1> QED BY <1>7, <1>8, <1>9, <1>10

\* The writes of the in-memory backend.
LEMMA MemoryWritesCount ==
  ASSUME CountersOnlyCount, KvInv, CounterInv, NEW c \in Clients,
         MemoryPut(c) \/ MemoryAtomicUpdate(c) \/ MemoryTransact(c)
  PROVE  CounterInv'
<1>1. Op(c) \in Calls
  BY MemoryWritesWhole
<1>2. items = [k \in Keys |-> items[k]] /\ DOMAIN items = Keys /\ CountersAreNumbers(items)
  BY DEF KvInv, ItemsOK, CounterInv
<1>3. Accepts(items, Op(c).ops) => Counts(Op(c), items, ApplyPlan(items, Op(c).ops))
  <2>1. PICK t : t = items
    OBVIOUS
  <2>2. Accepts(t, Op(c).ops) => Counts(Op(c), t, ApplyPlan(t, Op(c).ops))
    BY <1>1, <1>2, <2>1, MemoryCounts
  <2> QED BY <2>1, <2>2
<1>4. CASE items' = items /\ granted' = granted
  BY <1>4, NothingWritten
<1>5. CASE Accepts(items, Op(c).ops) /\ items' = ApplyPlan(items, Op(c).ops)
  <2>1. Counts(Op(c), items, items')
    BY <1>3, <1>5
  <2>2. CASE granted' = granted
    BY <2>1, <2>2, NothingGranted DEF Counts
  <2>3. CASE granted' # granted
    <3>1. PICK o : o = Op(c).ops[1]
      OBVIOUS
    <3>2. PICK u : u = apply_update_actions(items[o.key], o.expr)
      OBVIOUS
    <3>3. MemoryAtomicUpdate(c)
      BY <2>3 DEF MemoryPut, MemoryTransact
    <3>4. items' = [items EXCEPT ![o.key] = u] /\ Granted(c, Ok(u)) /\ Op(c).type = "update"
      BY <2>3, <3>1, <3>2, <3>3 DEF MemoryAtomicUpdate, Sent
    <3>5. o.key = Op(c).key /\ o.key \in Keys
      BY <1>1, <3>1, <3>4, CallFacts
    <3>6. Ok(u).value = items'[Op(c).key]
      BY <1>2, <3>4, <3>5 DEF Ok
    <3> QED BY <1>1, <2>1, <3>4, <3>6, AnsweredCounts
  <2> QED BY <2>2, <2>3
<1> QED BY <1>4, <1>5, MemoryWritesWhole

\* The writes that the table executes.
LEMMA TableWritesCount ==
  ASSUME CountersOnlyCount, KvInv, CounterInv, NEW op \in Calls, IsWrite(op), ~Malformed(op),
         ConditionsHold(items, op.ops), Applicable(items, op.ops),
         items' = Transacted(items, op.ops)
  PROVE  Counts(op, items, items')
<1>1. PICK t : t = items
  OBVIOUS
<1>2. t = [k \in Keys |-> t[k]] /\ CountersAreNumbers(t)
  BY <1>1 DEF KvInv, ItemsOK, CounterInv
<1>3. RequestValid(op.ops)
  BY CallFacts DEF Malformed
<1>4. ConditionsHold(t, op.ops) /\ Applicable(t, op.ops)
  BY <1>1
<1>5. Counts(op, t, Transacted(t, op.ops))
  BY <1>2, <1>3, <1>4, TableCounts
<1> QED BY <1>1, <1>5

\* A write is executed and answered.
LEMMA ExecuteWriteCounts ==
  ASSUME CountersOnlyCount, KvInv, CounterInv, NEW c \in Clients, ExecuteWrite(c)
  PROVE  CounterInv'
<1>1. PICK t : t = Transacted(items, Op(c).ops)
  OBVIOUS
<1>2. PICK result : result = IF Op(c).type = "update"
                             THEN IF Decodes(t[Op(c).key]) THEN Ok(t[Op(c).key]) ELSE Transport(FALSE)
                             ELSE Ok(NoItem)
  OBVIOUS
<1>3. /\ Executes(c) /\ ConditionsHold(items, Op(c).ops) /\ Applicable(items, Op(c).ops)
      /\ items' = t /\ Granted(c, result)
  BY <1>1, <1>2 DEF ExecuteWrite, UpdateResult
<1>4. IsWrite(Op(c)) /\ ~Malformed(Op(c)) /\ Op(c) \in Calls
  BY <1>3, ExecutesFacts
<1>5. Counts(Op(c), items, items')
  BY <1>1, <1>3, <1>4, TableWritesCount
<1>6. Op(c).type = "update" /\ result.type = "Ok" => result.value = items'[Op(c).key]
  BY <1>2, <1>3 DEF Ok, Transport
<1> QED BY <1>3, <1>4, <1>5, <1>6, AnsweredCounts

\* A write is executed without an answer.
LEMMA UnansweredWritesCount ==
  ASSUME CountersOnlyCount, KvInv, CounterInv
  PROVE  /\ \A c \in Clients : LoseReply(c) => CounterInv'
         /\ \A op \in late : LateWrite(op) => CounterInv'
<1>1. ASSUME NEW c \in Clients, LoseReply(c) PROVE CounterInv'
  <2>1. /\ Executes(c) /\ ConditionsHold(items, Op(c).ops) /\ Applicable(items, Op(c).ops)
        /\ items' = Transacted(items, Op(c).ops) /\ granted' = granted
    BY <1>1 DEF LoseReply
  <2>2. IsWrite(Op(c)) /\ ~Malformed(Op(c)) /\ Op(c) \in Calls
    BY <2>1, ExecutesFacts
  <2>3. CountersGrow(items, items')
    BY <2>1, <2>2, TableWritesCount DEF Counts
  <2> QED BY <2>1, <2>3, NothingGranted
<1>2. ASSUME NEW op \in late, LateWrite(op) PROVE CounterInv'
  <2>1. op \in Calls /\ IsWrite(op) /\ ~Malformed(op)
    BY DEF KvInv, LateOK
  <2>2. granted' = granted
    BY <1>2 DEF LateWrite
  <2>3. CASE items' = items
    BY <2>2, <2>3, NothingWritten
  <2>4. CASE /\ ConditionsHold(items, op.ops) /\ Applicable(items, op.ops)
             /\ items' = Transacted(items, op.ops)
    <3>1. CountersGrow(items, items')
      BY <2>1, <2>4, TableWritesCount DEF Counts
    <3> QED BY <2>2, <3>1, NothingGranted
  <2> QED BY <1>2, <2>3, <2>4 DEF LateWrite
<1> QED BY <1>1, <1>2

\* Every step keeps the numbers that were given apart.
LEMMA CounterStep ==
  ASSUME CountersOnlyCount, KvInv, CounterInv, [Next]_vars
  PROVE  CounterInv'
<1>1. CASE UNCHANGED vars
  BY <1>1, NothingWritten DEF vars
<1>2. ASSUME NEW op \in late, LateWrite(op) PROVE CounterInv'
  BY <1>2, UnansweredWritesCount
<1>3. ASSUME NEW k \in Keys, Replicate(k) PROVE CounterInv'
  BY <1>3, NothingWritten DEF Replicate
<1>4. ASSUME NEW c \in Clients, \E op \in Calls : Invoke(c, op) PROVE CounterInv'
  BY <1>4, NothingWritten DEF Invoke
<1>5. ASSUME NEW c \in Clients, MemoryPut(c) \/ MemoryAtomicUpdate(c) \/ MemoryTransact(c)
      PROVE  CounterInv'
  BY <1>5, MemoryWritesCount
<1>6. ASSUME NEW c \in Clients, ExecuteWrite(c) PROVE CounterInv'
  BY <1>6, ExecuteWriteCounts
<1>7. ASSUME NEW c \in Clients, LoseReply(c) PROVE CounterInv'
  BY <1>7, UnansweredWritesCount
<1>8. ASSUME NEW c \in Clients,
             \/ MemoryGet(c) \/ MemoryQuery(c) \/ RejectMalformed(c) \/ GetItem(c)
             \/ ConditionalCheckFailed(c) \/ UpdateConditionFailed(c) \/ ClassifyRefusal(c)
             \/ InvalidPath(c) \/ RepeatTransaction(c) \/ Resend(c)
             \/ \E err \in Unknowns : GiveUp(c, err)
             \/ \E err \in Refusals(Op(c)) : ServiceRefuses(c, err)
             \/ QueryEnd(c)
      PROVE  CounterInv'
  <2>1. items' = items /\ granted' = granted
    BY <1>8 DEF MemoryGet, MemoryQuery, RejectMalformed, GetItem, ConditionalCheckFailed,
       UpdateConditionFailed, ClassifyRefusal, InvalidPath, RepeatTransaction, Resend, GiveUp,
       ServiceRefuses, QueryEnd
  <2> QED BY <2>1, NothingWritten
<1>9. ASSUME NEW c \in Clients, NEW k \in Keys, QueryPage(c, k) PROVE CounterInv'
  <2>1. items' = items /\ granted' = granted
    BY <1>9 DEF QueryPage
  <2> QED BY <2>1, NothingWritten
<1>10. CASE Next
  BY <1>2, <1>3, <1>4, <1>5, <1>6, <1>7, <1>8, <1>9, <1>10, Zenon DEF Next
<1> QED BY <1>1, <1>10

\* The variables have their types, in particular every value a caller was told
\* can be decoded.
LEMMA KvInvTypes ==
  ASSUME KvInv
  PROVE  TypeOK
<1>1. ASSUME NEW c \in Clients
      PROVE  /\ Phase(c) \in {"idle", "sent", "lost", "refused"}
             /\ Phase(c) # "idle" => Op(c) \in Calls /\ call[c].resends \in 0..MaxResends
  <2>1. CallOK(call[c])
    BY DEF KvInv, ClientOK
  <2>2. CASE call[c].phase = "idle"
    BY <2>2 DEF Phase
  <2>3. CASE call[c].phase # "idle"
    BY <2>1, <2>3, OpenCall DEF Phase, Op
  <2> QED BY <2>2, <2>3
<1>2. ASSUME NEW c \in Clients PROVE \A value \in Returned(answer[c]) : Decodes(value)
  BY DEF KvInv, ClientOK, AnswerOK
<1>3. DOMAIN items = Keys /\ DOMAIN replica = Keys
  BY DEF KvInv, ItemsOK
<1> QED BY <1>1, <1>2, <1>3 DEF TypeOK, KvInv, LateOK

\* No caller of either backend is told a number that is no u64, and no two
\* successful updates are told the same counter value, whatever is resent, lost,
\* executed late or answered with an error, provided every caller treats counters
\* as counters: the index allocation of the batch intake rests on it.
THEOREM StoreSafe ==
  ASSUME CountersOnlyCount
  PROVE  Spec => []StoreInv
<1>1. Init => CounterInv
  <2> SUFFICES ASSUME Init PROVE CounterInv
    OBVIOUS
  <2>1. items = InitialItems /\ granted = <<>>
    BY DEF Init
  <2>2. ASSUME NEW op \in Calls, Allocates(op), HasCounter(items[op.key], Counter(op))
        PROVE  Count(items[op.key], Counter(op)) \in Nat
    <3>1. op.key \in Keys
      BY <2>2, AllocatesFacts
    <3>2. Decodes(items[op.key])
      BY <2>1, <3>1, KvAssumption
    <3>3. Count(items[op.key], Counter(op)) \in 0..MaxU64
      BY <2>2, <3>2 DEF Decodes, HasCounter, Count
    <3>4. \A n \in 0..MaxU64 : n \in Nat
      BY MaxU64Assumption
    <3> QED BY <3>3, <3>4, Zenon
  <2>3. granted \in Seq(Keys \X {U64(n) : n \in Nat}) /\ DOMAIN granted = {}
    BY <2>1
  <2> QED BY <2>2, <2>3 DEF CounterInv, CountersAreNumbers, AllocationsDisjoint
<1>2. KvInv /\ CounterInv /\ [Next]_vars => CounterInv'
  BY CounterStep
<1>3. KvInv /\ CounterInv => StoreInv
  BY KvInvTypes DEF StoreInv, CounterInv
<1> QED BY <1>1, <1>2, <1>3, KvInvariant, PTL DEF Spec

---------------------------------------------------------------------------
(* Calls are applied as a whole. *)

\* What the callers must keep to: every call, executed as a whole on a table that
\* is intact, leaves it intact.
CallsKeepIntact ==
  /\ Intact(InitialItems)
  /\ \A op \in Calls : IsWrite(op) =>
       \A table : table = [k \in Keys |-> table[k]] /\ Intact(table) => KeepsIntact(op, table)

\* A step leaves the items alone or applies one whole call to them.
Whole ==
  \/ items' = items
  \/ \E op \in Calls :
       /\ IsWrite(op)
       /\ \/ Accepts(items, op.ops) /\ items' = ApplyPlan(items, op.ops)
          \/ /\ RequestValid(op.ops) /\ ConditionsHold(items, op.ops) /\ Applicable(items, op.ops)
             /\ items' = Transacted(items, op.ops)

\* A write that the table executes is a whole call.
LEMMA TableWritesWhole ==
  ASSUME NEW op \in Calls, IsWrite(op), ~Malformed(op), ConditionsHold(items, op.ops),
         Applicable(items, op.ops), items' = Transacted(items, op.ops)
  PROVE  Whole
<1>1. RequestValid(op.ops)
  BY CallFacts DEF Malformed
<1> QED BY <1>1 DEF Whole

\* The items change by whole calls only, whether the caller is told, is not, or is
\* gone by then.
LEMMA WholeStep ==
  ASSUME KvInv, [Next]_vars
  PROVE  Whole
<1>1. CASE UNCHANGED vars
  BY <1>1 DEF vars, Whole
<1>2. ASSUME NEW op \in late, LateWrite(op) PROVE Whole
  <2>1. op \in Calls /\ IsWrite(op) /\ ~Malformed(op)
    BY DEF KvInv, LateOK
  <2>2. CASE items' = items
    BY <2>2 DEF Whole
  <2>3. CASE /\ ConditionsHold(items, op.ops) /\ Applicable(items, op.ops)
             /\ items' = Transacted(items, op.ops)
    BY <2>1, <2>3, TableWritesWhole
  <2> QED BY <1>2, <2>2, <2>3 DEF LateWrite
<1>3. ASSUME NEW c \in Clients, MemoryPut(c) \/ MemoryAtomicUpdate(c) \/ MemoryTransact(c)
      PROVE  Whole
  <2>1. Op(c) \in Calls /\ IsWrite(Op(c))
    BY <1>3, MemoryWritesWhole, CallFacts
  <2> QED BY <1>3, <2>1, MemoryWritesWhole DEF Whole
<1>4. ASSUME NEW c \in Clients, ExecuteWrite(c) \/ LoseReply(c) PROVE Whole
  <2>1. /\ Executes(c) /\ ConditionsHold(items, Op(c).ops) /\ Applicable(items, Op(c).ops)
        /\ items' = Transacted(items, Op(c).ops)
    BY <1>4 DEF ExecuteWrite, LoseReply
  <2>2. IsWrite(Op(c)) /\ ~Malformed(Op(c)) /\ Op(c) \in Calls
    BY <2>1, ExecutesFacts
  <2> QED BY <2>1, <2>2, TableWritesWhole
<1>5. ASSUME NEW c \in Clients,
             \/ \E op \in Calls : Invoke(c, op)
             \/ MemoryGet(c) \/ MemoryQuery(c) \/ RejectMalformed(c) \/ GetItem(c)
             \/ ConditionalCheckFailed(c) \/ UpdateConditionFailed(c) \/ ClassifyRefusal(c)
             \/ InvalidPath(c) \/ RepeatTransaction(c) \/ Resend(c)
             \/ \E err \in Unknowns : GiveUp(c, err)
             \/ \E err \in Refusals(Op(c)) : ServiceRefuses(c, err)
             \/ QueryEnd(c)
      PROVE  Whole
  <2>1. items' = items
    BY <1>5 DEF Invoke, MemoryGet, MemoryQuery, RejectMalformed, GetItem, ConditionalCheckFailed,
       UpdateConditionFailed, ClassifyRefusal, InvalidPath, RepeatTransaction, Resend, GiveUp,
       ServiceRefuses, QueryEnd
  <2> QED BY <2>1 DEF Whole
<1>6. ASSUME NEW c \in Clients, NEW k \in Keys, QueryPage(c, k) PROVE Whole
  BY <1>6 DEF QueryPage, Whole
<1>7. ASSUME NEW k \in Keys, Replicate(k) PROVE Whole
  BY <1>7 DEF Replicate, Whole
<1>8. CASE Next
  BY <1>2, <1>3, <1>4, <1>5, <1>6, <1>7, <1>8, Zenon DEF Next
<1> QED BY <1>1, <1>8

\* What every call keeps true of the table as a whole is true in every state of
\* either backend, for every such property and any calls: no caller finds one
\* operation of a transaction applied and another not, whatever is resent, lost,
\* executed late or refused.
THEOREM TransactionsAreWhole ==
  ASSUME CallsKeepIntact
  PROVE  Spec => []TableStaysIntact
<1>1. Init => TableStaysIntact
  BY DEF Init, TableStaysIntact, CallsKeepIntact
<1>2. ASSUME KvInv, TableStaysIntact, [Next]_vars PROVE TableStaysIntact'
  <2>1. PICK before : before = items
    OBVIOUS
  <2>2. PICK after : after = items'
    OBVIOUS
  <2>3. before = [k \in Keys |-> before[k]] /\ Intact(before)
    BY <1>2, <2>1 DEF KvInv, ItemsOK, TableStaysIntact
  <2>4. CASE after = before
    BY <2>2, <2>3, <2>4 DEF TableStaysIntact
  <2>5. ASSUME NEW op \in Calls, IsWrite(op),
               \/ Accepts(before, op.ops) /\ after = ApplyPlan(before, op.ops)
               \/ /\ RequestValid(op.ops) /\ ConditionsHold(before, op.ops)
                  /\ Applicable(before, op.ops) /\ after = Transacted(before, op.ops)
        PROVE  TableStaysIntact'
    <3>1. KeepsIntact(op, before)
      BY <2>3, <2>5 DEF CallsKeepIntact
    <3>2. Intact(after)
      BY <2>5, <3>1 DEF KeepsIntact
    <3> QED BY <2>2, <3>2 DEF TableStaysIntact
  <2>6. Whole
    BY <1>2, WholeStep
  <2> QED BY <2>1, <2>2, <2>4, <2>5, <2>6 DEF Whole
<1> QED BY <1>1, <1>2, KvInvariant, PTL DEF Spec
=============================================================================
