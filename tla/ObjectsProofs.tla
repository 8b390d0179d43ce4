--------------------------- MODULE ObjectsProofs ---------------------------
(***************************************************************************)
(* Proofs about Objects, for any keys, clients, calls, retention settings  *)
(* and bounds: what Object Lock keeps, on both backends.                   *)
(***************************************************************************)
EXTENDS Objects, TLAPS, SequenceTheorems

VersionRecord ==
  [id : Nat, data : Nat, retain_until : 0..MaxTime, class : ObjectClass \cup {"none"},
   asked : 0..MaxNow, since : Nat \ {0}]

\* The date is no earlier than the policy's for the class and the time of the
\* call; a pruning checkpoint is kept indefinitely.
LongEnough(class, asked, until) ==
  class \in ObjectClass =>
    /\ policy.type = "Ok" /\ policy.value \in Nat
    /\ class = "PruningCheckpoint" => until >= Indefinite
    /\ class # "PruningCheckpoint" => until >= asked + policy.value

\* The versions of one key, when n ids, locks and deletions there have been.
TableInv(t, n) ==
  /\ t \in Seq(VersionRecord)
  /\ backend = "memory" => Len(t) <= 1
  /\ \A i \in 1..Len(t) :
       t[i].id <= n /\ t[i].since <= n /\ LongEnough(t[i].class, t[i].asked, t[i].retain_until)
  /\ \A i, j \in 1..Len(t) : t[i].id = t[j].id => i = j

VersionsInv ==
  /\ ids \in Nat /\ now \in 0..MaxNow /\ config \in Configs /\ backend \in Backends
  /\ versions = [k \in Keys |-> versions[k]]
  /\ \A k \in Keys : TableInv(versions[k], ids)

CreatorInv == creator = [k \in Keys |-> creator[k]] /\ CreatorKeepsKey

\* A call as Invoke makes it.
MadeOp(op) ==
  /\ op \in [type : {"get", "head", "list", "put", "put_with_retention", "delete",
                     "extend_retention", "get_retention"},
             key : Keys, class : ObjectClass \cup {"none"},
             mode : {"IfNotExists", "Overwrite", "none"}, until : 0..MaxTime,
             prefix : {op.prefix}, data : Nat, asked : 0..MaxNow]
  /\ LongEnough(op.class, op.asked, op.until)

\* An Overwrite that has looked for a lock looked before the lock, or before
\* the locked version was current.
Warned(r) ==
  /\ r.mark \in Nat /\ r.mark <= ids
  /\ (IsOverwrite(r.op) /\ Occupied(r.op.key) /\ Current(r.op.key).retain_until # Unlocked)
       => r.mark < Current(r.op.key).since

IsWrite(op) == CreateOnly(op) \/ IsOverwrite(op) \/ op.type \in {"delete", "extend_retention"}

CallShape(r) ==
  /\ r \in [phase : {"sent", "checked", "lost"}, op : {r.op}, resends : {r.resends},
            took : {r.took}, seen : {r.seen}, mark : Nat, rest : {r.rest}, found : {r.found},
            stable : {r.stable}]
  /\ MadeOp(r.op)
  /\ r.phase # "sent" => IsWrite(r.op)

CallsInv ==
  /\ call = [c \in Clients |-> call[c]]
  /\ \A c \in Clients : call[c] = Idle \/ CallShape(call[c])
  /\ \A c \in Clients : call[c] # Idle => Warned(Request(c))

LateInv ==
  /\ late # {} => backend = "s3"
  /\ \A r \in late : /\ r = [op |-> r.op, seen |-> r.seen, mark |-> r.mark]
                     /\ MadeOp(r.op) /\ IsWrite(r.op) /\ Warned(r)

ObjectsIndInv ==
  /\ VersionsInv /\ CreatorInv /\ CallsInv /\ LateInv /\ issued \in 0..MaxCalls

-----------------------------------------------------------------------------
(* What a change of one key's versions from t to u must respect.           *)

\* Every locked version is still there, with its bytes and no earlier date.
Kept(t, u) ==
  \A i \in 1..Len(t) : IsLocked(t[i]) =>
    \E j \in 1..Len(u) :
      u[j].id = t[i].id /\ u[j].data = t[i].data /\ u[j].retain_until >= t[i].retain_until

\* A date on the current version was there before, on the same version, or is
\* younger than all requests under way.
NewOrSame(t, u) ==
  u # <<>> /\ u[Len(u)].retain_until # Unlocked =>
    \/ u[Len(u)].since > ids
    \/ /\ t # <<>> /\ t[Len(t)].retain_until # Unlocked
       /\ u[Len(u)].since = t[Len(t)].since

\* A locked current version stays current.
TopStays(t, u) ==
  t # <<>> /\ IsLocked(t[Len(t)]) => u # <<>> /\ u[Len(u)].id = t[Len(t)].id

\* A current version that stays current keeps its bytes.
SameTop(t, u) ==
  t # <<>> /\ u # <<>> /\ u[Len(u)].id = t[Len(t)].id => u[Len(u)].data = t[Len(t)].data

Respects(t, u) == TableInv(u, ids') /\ Kept(t, u) /\ NewOrSame(t, u)

\* The record put builds from its call is a version the invariant allows.
LEMMA VersionType ==
  ASSUME VersionsInv, NEW op, MadeOp(op)
  PROVE  /\ Version(op) \in VersionRecord
         /\ Version(op).id = ids + 1 /\ Version(op).since = ids + 1
         /\ Version(op).data = op.data /\ Version(op).retain_until = op.until
         /\ LongEnough(Version(op).class, Version(op).asked, Version(op).retain_until)
BY DEF VersionsInv, MadeOp, Version, VersionRecord

\* A later count and an unchanged table.
LEMMA TableStays ==
  ASSUME VersionsInv, NEW k \in Keys, NEW n \in Nat, ids <= n
  PROVE  TableInv(versions[k], n) /\ Kept(versions[k], versions[k])
<1>1. TableInv(versions[k], ids) /\ ids \in Nat
  BY DEF VersionsInv
<1>2. \A i \in 1..Len(versions[k]) : versions[k][i] \in VersionRecord
  BY <1>1 DEF TableInv
<1>3. ASSUME NEW i \in 1..Len(versions[k])
      PROVE  /\ versions[k][i].id <= n /\ versions[k][i].since <= n
             /\ versions[k][i].retain_until >= versions[k][i].retain_until
  <2>1. versions[k][i].id \in Nat /\ versions[k][i].since \in Nat /\ versions[k][i].retain_until \in Nat
    BY <1>2 DEF VersionRecord
  <2>2. versions[k][i].id <= ids /\ versions[k][i].since <= ids
    BY <1>1 DEF TableInv
  <2> QED BY <1>1, <2>1, <2>2
<1> QED BY <1>1, <1>3 DEF TableInv, Kept

\* A version on top of the others: put on S3, or on a key without objects.
LEMMA AppendRespects ==
  ASSUME VersionsInv, NEW k \in Keys, NEW op, MadeOp(op), ids' = ids + 1,
         backend' = backend, config' = config, now' = now,
         backend = "memory" => versions[k] = <<>>
  PROVE  Respects(versions[k], Append(versions[k], Version(op)))
<1> DEFINE t == versions[k]
           v == Version(op)
           u == Append(t, v)
<1>0. ids \in Nat /\ TableInv(t, ids)
  BY DEF VersionsInv
<1>1. t \in Seq(VersionRecord) /\ Len(t) \in Nat
  BY <1>0 DEF TableInv
<1>2. /\ v \in VersionRecord /\ v.id = ids + 1 /\ v.since = ids + 1
      /\ LongEnough(v.class, v.asked, v.retain_until)
  BY VersionType
<1> HIDE DEF t, v
<1>3. /\ u \in Seq(VersionRecord) /\ Len(u) = Len(t) + 1 /\ u # <<>>
      /\ \A i \in 1..Len(t) : u[i] = t[i]
      /\ u[Len(t) + 1] = v
  BY <1>1, <1>2
<1> HIDE DEF u
<1>4. TableInv(t, ids + 1) /\ Kept(t, t)
  BY <1>0, TableStays DEF t
<1>5. ASSUME NEW i \in 1..Len(u)
      PROVE  /\ u[i].id <= ids + 1 /\ u[i].since <= ids + 1
             /\ LongEnough(u[i].class, u[i].asked, u[i].retain_until)
  <2>1. CASE i \in 1..Len(t)
    BY <1>3, <1>4, <2>1 DEF TableInv
  <2>2. CASE i \notin 1..Len(t)
    <3>1. i = Len(t) + 1
      BY <1>1, <1>3, <2>2
    <3> QED BY <1>0, <1>2, <1>3, <3>1
  <2> QED BY <2>1, <2>2
<1>6. ASSUME NEW i \in 1..Len(u), NEW j \in 1..Len(u), u[i].id = u[j].id
      PROVE  i = j
  <2>0. \A m \in 1..Len(t) : t[m] \in VersionRecord
    BY <1>1
  <2>1. \A m \in 1..Len(t) : t[m].id <= ids /\ t[m].id \in Nat
    BY <1>0, <2>0 DEF TableInv, VersionRecord
  <2>2. \A m \in 1..Len(u) : m \in 1..Len(t) \/ m = Len(t) + 1
    BY <1>1, <1>3
  <2>3. \A m \in 1..Len(t) : u[m].id # ids + 1
    BY <1>0, <1>3, <2>1
  <2>4. CASE i \in 1..Len(t) /\ j \in 1..Len(t)
    BY <1>0, <1>3, <1>6, <2>4 DEF TableInv
  <2>5. CASE ~(i \in 1..Len(t) /\ j \in 1..Len(t))
    BY <1>2, <1>3, <1>6, <2>2, <2>3, <2>5
  <2> QED BY <2>4, <2>5
<1>7. backend = "memory" => Len(u) <= 1
  BY <1>3 DEF t
<1>8. TableInv(u, ids + 1)
  BY <1>3, <1>5, <1>6, <1>7 DEF TableInv
<1>9. Kept(t, u)
  BY <1>1, <1>3, <1>4 DEF Kept
<1>10. NewOrSame(t, u)
  BY <1>0, <1>2, <1>3 DEF NewOrSame
<1> QED BY <1>8, <1>9, <1>10 DEF Respects, t, u, v

\* The in-memory store replaces or drops an object whose date has come.
LEMMA MemoryRespects ==
  ASSUME VersionsInv, NEW k \in Keys, ids' = ids + 1,
         backend = "memory", ~reject_if_retained(k)
  PROVE  /\ \A op : MadeOp(op) => Respects(versions[k], <<Version(op)>>)
         /\ Respects(versions[k], <<>>) /\ TopStays(versions[k], <<>>)
         /\ \A u : TopStays(versions[k], u)
<1> DEFINE t == versions[k]
<1>0. ids \in Nat /\ TableInv(t, ids) /\ now \in Nat
  BY DEF VersionsInv
<1>1. t \in Seq(VersionRecord) /\ Len(t) \in Nat /\ Len(t) <= 1
  BY <1>0 DEF TableInv
<1>2. t # <<>> => ~IsLocked(t[Len(t)])
  BY DEF reject_if_retained, Occupied, Current
<1> HIDE DEF t
<1>3. \A i \in 1..Len(t) : ~IsLocked(t[i])
  BY <1>1, <1>2
<1>4. \A u : Kept(t, u) /\ TopStays(t, u)
  BY <1>2, <1>3 DEF Kept, TopStays
<1>5. ASSUME NEW op, MadeOp(op) PROVE Respects(t, <<Version(op)>>)
  <2> DEFINE v == Version(op)
             u == <<v>>
  <2>1. /\ v \in VersionRecord /\ v.id = ids + 1 /\ v.since = ids + 1
        /\ LongEnough(v.class, v.asked, v.retain_until)
    BY <1>5, VersionType
  <2> HIDE DEF v
  <2>2. u \in Seq(VersionRecord) /\ Len(u) = 1 /\ u[1] = v /\ u # <<>>
    BY <2>1
  <2> HIDE DEF u
  <2>3. TableInv(u, ids + 1)
    BY <1>0, <2>1, <2>2 DEF TableInv
  <2>4. NewOrSame(t, u)
    BY <1>0, <2>1, <2>2 DEF NewOrSame
  <2> QED BY <1>4, <2>3, <2>4 DEF Respects, u, v
<1>6. Respects(t, <<>>)
  <2>1. <<>> \in Seq(VersionRecord) /\ Len(<<>>) = 0
    OBVIOUS
  <2>2. TableInv(<<>>, ids + 1)
    BY <2>1 DEF TableInv
  <2>3. NewOrSame(t, <<>>)
    BY DEF NewOrSame
  <2> QED BY <1>4, <2>2, <2>3 DEF Respects
<1> QED BY <1>4, <1>5, <1>6 DEF t

\* Both backends lengthen a lock, or set one where there is none.
LEMMA RelockRespects ==
  ASSUME VersionsInv, NEW k \in Keys, Occupied(k), NEW until \in 0..MaxTime,
         until >= Current(k).retain_until, Relocks(k, until)
  PROVE  /\ ids' \in {ids, ids + 1} /\ creator' = creator
         /\ versions' = [versions EXCEPT ![k] = versions'[k]]
         /\ Respects(versions[k], versions'[k]) /\ TopStays(versions[k], versions'[k])
         /\ versions'[k] # <<>> /\ versions'[k][Len(versions'[k])].data = Current(k).data
<1> DEFINE t == versions[k]
           n == Len(t)
           fresh == t[n].retain_until = Unlocked
           since == IF fresh THEN ids + 1 ELSE t[n].since
           v == [t[n] EXCEPT !.retain_until = until, !.since = since]
           u == [t EXCEPT ![n] = v]
<1>0. ids \in Nat /\ TableInv(t, ids) /\ now \in Nat /\ versions = [q \in Keys |-> versions[q]]
  BY DEF VersionsInv
<1>1. t \in Seq(VersionRecord) /\ n \in Nat /\ n >= 1 /\ n \in 1..n
  BY <1>0 DEF TableInv, Occupied
<1>2. /\ ids' = (IF fresh THEN ids + 1 ELSE ids) /\ creator' = creator
      /\ versions' = [versions EXCEPT ![k][n].retain_until = until,
                                      ![k][n].since = IF fresh THEN ids + 1 ELSE @]
  BY DEF Relocks, Current
<1>3. versions' = [versions EXCEPT ![k] = u]
  BY <1>0, <1>1, <1>2
<1>4. versions'[k] = u
  BY <1>0, <1>3
<1>5. t[n] \in VersionRecord /\ t[n].id <= ids /\ t[n].since <= ids
      /\ LongEnough(t[n].class, t[n].asked, t[n].retain_until) /\ until >= t[n].retain_until
  BY <1>0, <1>1 DEF TableInv, Current
<1>6. since \in Nat \ {0} /\ since <= ids' /\ ids' \in Nat /\ ids <= ids'
      /\ (fresh => since > ids) /\ (~fresh => since = t[n].since)
  BY <1>0, <1>2, <1>5 DEF VersionRecord
<1> HIDE DEF since, fresh
<1>7. /\ v \in VersionRecord /\ v.id = t[n].id /\ v.data = t[n].data /\ v.retain_until = until
      /\ v.since = since /\ v.class = t[n].class /\ v.asked = t[n].asked
  BY <1>5, <1>6 DEF VersionRecord
<1> HIDE DEF v
<1>8. LongEnough(v.class, v.asked, v.retain_until)
  <2>1. t[n].retain_until \in Nat /\ t[n].asked \in Nat /\ until \in Nat /\ Indefinite \in Nat
    BY <1>5, RetentionAssumption DEF VersionRecord
  <2>2. CASE t[n].class \in ObjectClass
    <3>1. /\ policy.type = "Ok" /\ policy.value \in Nat
          /\ t[n].class = "PruningCheckpoint" => t[n].retain_until >= Indefinite
          /\ t[n].class # "PruningCheckpoint" => t[n].retain_until >= t[n].asked + policy.value
      BY <1>5, <2>2 DEF LongEnough
    <3>2. /\ t[n].class = "PruningCheckpoint" => until >= Indefinite
          /\ t[n].class # "PruningCheckpoint" => until >= t[n].asked + policy.value
      BY <1>5, <2>1, <3>1
    <3> QED BY <1>7, <3>1, <3>2 DEF LongEnough
  <2>3. CASE t[n].class \notin ObjectClass
    BY <1>7, <2>3 DEF LongEnough
  <2> QED BY <2>2, <2>3
<1> HIDE DEF t, n
<1>9. /\ u \in Seq(VersionRecord) /\ Len(u) = Len(t) /\ n = Len(t) /\ u # <<>>
      /\ \A i \in 1..Len(t) : u[i] = IF i = n THEN v ELSE t[i]
  <2>1. n = Len(t)
    BY DEF n
  <2> QED BY <1>1, <1>7, <2>1, ExceptSeq
<1> HIDE DEF u
<1>10. TableInv(t, ids') /\ Kept(t, t)
  BY <1>6, TableStays DEF t
<1>11. TableInv(u, ids')
  <2>1. \A i \in 1..Len(u) : u[i].id = t[i].id
    BY <1>7, <1>9
  <2>2. ASSUME NEW i \in 1..Len(u)
        PROVE  /\ u[i].id <= ids' /\ u[i].since <= ids'
               /\ LongEnough(u[i].class, u[i].asked, u[i].retain_until)
    <3>1. CASE i = n
      BY <1>6, <1>7, <1>8, <1>9, <1>10, <2>1, <3>1 DEF TableInv
    <3>2. CASE i # n
      BY <1>9, <1>10, <3>2 DEF TableInv
    <3> QED BY <3>1, <3>2
  <2>3. \A i, j \in 1..Len(u) : u[i].id = u[j].id => i = j
    BY <1>9, <1>10, <2>1 DEF TableInv
  <2>4. backend = "memory" => Len(u) <= 1
    BY <1>9, <1>10 DEF TableInv
  <2> QED BY <1>9, <2>2, <2>3, <2>4 DEF TableInv
<1>12. Kept(t, u)
  <2> SUFFICES ASSUME NEW i \in 1..Len(t)
               PROVE  i \in 1..Len(u) /\ u[i].id = t[i].id /\ u[i].data = t[i].data
                      /\ u[i].retain_until >= t[i].retain_until
    BY DEF Kept
  <2>1. t[i] \in VersionRecord
    BY <1>1
  <2>2. CASE i = n
    BY <1>5, <1>7, <1>9, <2>2
  <2>3. CASE i # n
    <3>1. u[i] = t[i] /\ i \in 1..Len(u)
      BY <1>9, <2>3
    <3>2. t[i].retain_until \in Int
      BY <2>1, RetentionAssumption DEF VersionRecord
    <3> QED BY <3>1, <3>2
  <2> QED BY <2>2, <2>3
<1>13. u[Len(u)] = v /\ t[Len(t)] = t[n] /\ t # <<>>
  BY <1>1, <1>9
<1>14. NewOrSame(t, u) /\ TopStays(t, u)
  BY <1>6, <1>7, <1>9, <1>13 DEF NewOrSame, TopStays, fresh
<1>15. ids' \in {ids, ids + 1}
  BY <1>2
<1> QED BY <1>2, <1>3, <1>4, <1>7, <1>9, <1>11, <1>12, <1>13, <1>14, <1>15 DEF Respects, t, n, Current

Without(t, d, u) ==
  /\ Len(u) = Len(t) - 1 /\ Len(u) \in Nat
  /\ \A i \in 1..Len(u) :
       (i < d /\ u[i] = t[i] /\ i \in 1..Len(t))
       \/ (i >= d /\ u[i] = t[i + 1] /\ i + 1 \in 1..Len(t))

\* A sequence without its element d, as RemoveAt builds it.
LEMMA Removed ==
  ASSUME NEW S, NEW t \in Seq(S), NEW d \in 1..Len(t),
         NEW u, u = SubSeq(t, 1, d - 1) \o SubSeq(t, d + 1, Len(t))
  PROVE  u \in Seq(S) /\ Without(t, d, u)
<1> DEFINE n == Len(t)
           a == SubSeq(t, 1, d - 1)
           b == SubSeq(t, d + 1, n)
<1>0. n \in Nat /\ d \in Int /\ d >= 1 /\ d <= n /\ \A i \in 1..n : t[i] \in S
  OBVIOUS
<1>1. a \in Seq(S) /\ Len(a) = d - 1 /\ \A i \in 1..(d - 1) : a[i] = t[i]
  <2>1. \A i \in 1..(d - 1) : t[i] \in S
    BY <1>0
  <2> QED BY <1>0, <2>1, SubSeqProperties
<1>2. b \in Seq(S) /\ Len(b) = n - d /\ \A i \in 1..(n - d) : b[i] = t[d + i]
  <2>1. \A i \in (d + 1)..n : t[i] \in S
    BY <1>0
  <2> QED BY <1>0, <2>1, SubSeqProperties
<1> HIDE DEF a, b
<1>3. u = a \o b
  BY DEF a, b
<1>4. u \in Seq(S) /\ Len(u) = Len(a) + Len(b)
  BY ZenonT(40), <1>1, <1>2, <1>3, ConcatProperties
<1> HIDE DEF n
<1>5. Len(u) = n - 1 /\ Len(u) \in Nat
  <2>1. \A p, q, l : l = p + q /\ p = d - 1 /\ q = n - d => l = n - 1 /\ l \in Nat
    BY <1>0
  <2> QED BY <1>1, <1>2, <1>4, <2>1, Zenon
<1>6. ASSUME NEW i \in 1..Len(u)
      PROVE  (i < d /\ u[i] = t[i] /\ i \in 1..n)
             \/ (i >= d /\ u[i] = t[i + 1] /\ i + 1 \in 1..n)
  <2>0. u[i] = IF i <= Len(a) THEN a[i] ELSE b[i - Len(a)]
    <3>1. \A j \in 1..Len(a) + Len(b) : (a \o b)[j] = IF j <= Len(a) THEN a[j] ELSE b[j - Len(a)]
      BY <1>1, <1>2, ConcatProperties, Zenon
    <3> QED BY <1>3, <1>4, <3>1, Zenon
  <2>1. CASE i < d
    <3>1. i <= Len(a) /\ i \in 1..(d - 1) /\ i \in 1..n
      BY <1>0, <1>1, <1>5, <2>1
    <3> QED BY <1>1, <2>0, <2>1, <3>1
  <2>2. CASE i >= d
    <3> DEFINE m == i - (d - 1)
    <3>1. ~(i <= Len(a)) /\ m = i - Len(a) /\ m \in 1..(n - d) /\ d + m = i + 1 /\ i + 1 \in 1..n
      <4>1. i \in Int /\ i <= n - 1
        <5>1. \A l : l = n - 1 => \A j \in 1..l : j \in Int /\ j <= n - 1
          BY <1>0
        <5> QED BY <1>5, <5>1, Zenon
      <4> HIDE DEF m
      <4>2. m = i - (d - 1)
        BY DEF m
      <4>3. ~(i <= d - 1) /\ m \in 1..(n - d) /\ d + m = i + 1 /\ i + 1 \in 1..n
        BY <1>0, <2>2, <4>1, <4>2
      <4> QED BY <1>1, <4>2, <4>3
    <3> HIDE DEF m
    <3>2. u[i] = b[m] /\ b[m] = t[d + m]
      BY <1>2, <2>0, <3>1
    <3> QED BY <2>2, <3>1, <3>2
  <2>3. i < d \/ i >= d
    <3>1. i \in Int
      OBVIOUS
    <3> QED BY <1>0, <3>1
  <2> QED BY <2>1, <2>2, <2>3
<1> QED BY <1>4, <1>5, <1>6 DEF n, Without

\* DeleteObject takes one version away, and only one whose date has come.
LEMMA DeleteRespects ==
  ASSUME VersionsInv, NEW r, r.op.key \in Keys, ids' = ids + 1, backend = "s3",
         ~\E v \in Seqs!ToSet(versions[r.op.key]) : v.id = r.seen /\ IsLocked(v)
  PROVE  /\ Respects(versions[r.op.key], AfterDelete(r))
         /\ TopStays(versions[r.op.key], AfterDelete(r))
         /\ SameTop(versions[r.op.key], AfterDelete(r))
<1> DEFINE t == versions[r.op.key]
           at == {i \in DOMAIN t : t[i].id = r.seen}
           d == CHOOSE j \in at : TRUE
           u == AfterDelete(r)
<1>0. ids \in Nat /\ TableInv(t, ids) /\ now \in Nat
  BY DEF VersionsInv
<1>1. t \in Seq(VersionRecord) /\ Len(t) \in Nat /\ DOMAIN t = 1..Len(t)
  BY <1>0 DEF TableInv
<1>2. \A i \in 1..Len(t) : t[i] \in VersionRecord
  BY <1>1
<1>3. TableInv(t, ids + 1) /\ Kept(t, t)
  BY <1>0, TableStays
<1>4. \A i \in 1..Len(t) : t[i].id = r.seen => ~IsLocked(t[i])
  BY <1>1 DEF Seqs!ToSet
<1>5. CASE at = {}
  <2>1. u = t
    BY <1>5 DEF AfterDelete
  <2> HIDE DEF u, t
  <2>2. NewOrSame(t, u) /\ TopStays(t, u) /\ SameTop(t, u)
    BY <2>1 DEF NewOrSame, TopStays, SameTop
  <2> QED BY <1>3, <2>1, <2>2 DEF Respects, t, u
<1>6. CASE at # {}
  <2>1. d \in 1..Len(t) /\ t[d].id = r.seen /\ Len(t) >= 1
    BY SMTT(30), <1>1, <1>6
  <2>2. ~IsLocked(t[d])
    BY <1>4, <2>1
  <2>3. CASE d = Len(t) /\ d > 1
    <3> DEFINE f == SubSeq(t, 1, d - 1)
               v == [f[d - 1] EXCEPT !.since = ids + 1]
    <3>1. u = [f EXCEPT ![d - 1].since = ids + 1]
      BY <1>6, <2>3 DEF AfterDelete, Seqs!Front
    <3> HIDE DEF u, t, d
    <3>2. /\ f \in Seq(VersionRecord) /\ Len(f) = d - 1 /\ d - 1 \in 1..Len(f)
          /\ \A i \in 1..(d - 1) : f[i] = t[i] /\ i \in 1..Len(t)
      BY <1>1, <2>1, <2>3
    <3>3. u = [f EXCEPT ![d - 1] = v]
      BY <3>1, <3>2
    <3>4. f[d - 1] = t[d - 1] /\ f[d - 1] \in VersionRecord
      BY <1>2, <3>2
    <3>5. /\ v \in VersionRecord /\ v.id = t[d - 1].id /\ v.data = t[d - 1].data
          /\ v.retain_until = t[d - 1].retain_until /\ v.since = ids + 1
          /\ v.class = t[d - 1].class /\ v.asked = t[d - 1].asked
      <4>1. t[d - 1] \in VersionRecord /\ v = [t[d - 1] EXCEPT !.since = ids + 1]
        BY <3>4
      <4>2. ids + 1 \in Nat \ {0}
        BY <1>0
      <4> HIDE DEF v, f
      <4>3. v \in VersionRecord
        BY <4>1, <4>2 DEF VersionRecord
      <4> QED BY <4>1, <4>3 DEF VersionRecord
    <3> HIDE DEF v, f
    <3>6. /\ u \in Seq(VersionRecord) /\ Len(u) = d - 1 /\ u # <<>>
          /\ \A i \in 1..(d - 1) : u[i] = IF i = d - 1 THEN v ELSE t[i]
      BY <3>2, <3>3, <3>5, ExceptSeq
    <3>7. ASSUME NEW i \in 1..Len(u)
          PROVE  /\ i \in 1..Len(t) /\ u[i].id = t[i].id /\ u[i].data = t[i].data
                 /\ u[i].retain_until = t[i].retain_until /\ u[i].class = t[i].class
                 /\ u[i].asked = t[i].asked /\ (u[i].since = t[i].since \/ u[i].since = ids + 1)
      BY <3>2, <3>5, <3>6
    <3>8. TableInv(u, ids + 1)
      <4>1. ASSUME NEW i \in 1..Len(u)
            PROVE  /\ u[i].id <= ids + 1 /\ u[i].since <= ids + 1
                   /\ LongEnough(u[i].class, u[i].asked, u[i].retain_until)
        BY <1>0, <1>3, <3>7 DEF TableInv
      <4>2. \A i, j \in 1..Len(u) : u[i].id = u[j].id => i = j
        BY <1>3, <3>7 DEF TableInv
      <4> QED BY <3>6, <4>1, <4>2 DEF TableInv
    <3>9. Kept(t, u)
      <4> SUFFICES ASSUME NEW i \in 1..Len(t), IsLocked(t[i])
                   PROVE  /\ i \in 1..Len(u) /\ u[i].id = t[i].id /\ u[i].data = t[i].data
                          /\ u[i].retain_until >= t[i].retain_until
        BY DEF Kept
      <4>0. i # d
        BY <2>2
      <4>1. i \in 1..Len(u)
        <5>1. Len(t) \in Nat /\ d = Len(t) /\ Len(u) = d - 1
          BY <1>1, <2>3, <3>6
        <5>2. i \in Int /\ i >= 1 /\ i <= d
          BY <5>1
        <5>3. i \in 1..(d - 1)
          BY <4>0, <5>1, <5>2
        <5> QED BY <5>1, <5>3
      <4>2. t[i].retain_until \in Int
        BY <1>2, RetentionAssumption DEF VersionRecord
      <4> QED BY <3>7, <4>1, <4>2
    <3>10. NewOrSame(t, u)
      <4>1. u[Len(u)] = v
        BY <3>2, <3>6
      <4> QED BY <1>0, <3>5, <4>1 DEF NewOrSame
    <3>11. TopStays(t, u)
      BY <2>2, <2>3 DEF TopStays
    <3>12. SameTop(t, u)
      <4>0. Len(t) \in Nat /\ d = Len(t) /\ d > 1
        BY <1>1, <2>3
      <4>1. u[Len(u)] = v /\ d - 1 \in 1..Len(t) /\ d - 1 # Len(t)
        <5>1. d - 1 \in 1..(d - 1) /\ d - 1 # d
          BY <4>0
        <5> QED BY <3>2, <3>6, <4>0, <5>1
      <4>2. t[d - 1].id # t[Len(t)].id
        <5>1. Len(t) \in 1..Len(t)
          BY <1>1, <2>1
        <5> QED BY <1>3, <4>1, <5>1 DEF TableInv
      <4> QED BY <3>5, <4>1, <4>2 DEF SameTop
    <3> QED BY <3>8, <3>9, <3>10, <3>11, <3>12 DEF Respects, t, u
  <2>4. CASE ~(d = Len(t) /\ d > 1)
    <3>1. u = SubSeq(t, 1, d - 1) \o SubSeq(t, d + 1, Len(t))
      BY <1>6, <2>4 DEF AfterDelete, Seqs!RemoveAt
    <3> HIDE DEF u, t, d
    <3>3. u \in Seq(VersionRecord) /\ Without(t, d, u)
      BY <1>1, <2>1, <3>1, Removed, Zenon
    <3>4. u \in Seq(VersionRecord) /\ Len(u) = Len(t) - 1 /\ Len(u) \in Nat
      BY <3>3 DEF Without
    <3>5. ASSUME NEW i \in 1..Len(u)
          PROVE  (i < d /\ u[i] = t[i] /\ i \in 1..Len(t))
                 \/ (i >= d /\ u[i] = t[i + 1] /\ i + 1 \in 1..Len(t))
      BY <3>3 DEF Without
    <3>0. d \in Int /\ d >= 1 /\ d <= Len(t)
      BY <1>1, <2>1
    <3>6. TableInv(u, ids + 1)
      <4>1. ASSUME NEW i \in 1..Len(u)
            PROVE  /\ u[i].id <= ids + 1 /\ u[i].since <= ids + 1
                   /\ LongEnough(u[i].class, u[i].asked, u[i].retain_until)
        BY <1>3, <3>5 DEF TableInv
      <4>2. ASSUME NEW i \in 1..Len(u), NEW j \in 1..Len(u), u[i].id = u[j].id
            PROVE  i = j
        <5>1. \A m, n \in 1..Len(t) : t[m].id = t[n].id => m = n
          BY <1>3 DEF TableInv
        <5>2. i \in Int /\ j \in Int /\ d \in Int
          BY <2>1
        <5>3. PICK m \in 1..Len(t) : u[i] = t[m] /\ (IF i < d THEN m = i ELSE m = i + 1)
          BY <3>5, <5>2
        <5>4. PICK n \in 1..Len(t) : u[j] = t[n] /\ (IF j < d THEN n = j ELSE n = j + 1)
          BY <3>5, <5>2
        <5>5. m = n
          BY <4>2, <5>1, <5>3, <5>4
        <5> QED BY <5>2, <5>3, <5>4, <5>5
      <4>3. backend # "memory"
        OBVIOUS
      <4> QED BY <3>4, <4>1, <4>2, <4>3 DEF TableInv
    <3>7. Kept(t, u)
      <4> SUFFICES ASSUME NEW i \in 1..Len(t), IsLocked(t[i])
                   PROVE  \E j \in 1..Len(u) : /\ u[j].id = t[i].id /\ u[j].data = t[i].data
                                               /\ u[j].retain_until >= t[i].retain_until
        BY DEF Kept
      <4>1. i # d
        BY <2>2
      <4>2. PICK j \in 1..Len(u) : u[j] = t[i]
        <5>0. i \in Int /\ i >= 1 /\ i <= Len(t) /\ Len(t) \in Int
          BY <1>1
        <5>1. CASE i < d
          <6>1. i \in 1..Len(u) /\ ~(i >= d)
            BY <3>0, <3>4, <5>0, <5>1
          <6> QED BY <3>5, <6>1
        <5>2. CASE i > d
          <6>1. i - 1 \in 1..Len(u) /\ ~(i - 1 < d) /\ (i - 1) + 1 = i
            BY <3>0, <3>4, <5>0, <5>2
          <6>2. u[i - 1] = t[i]
            BY <3>5, <6>1
          <6> QED BY <6>1, <6>2
        <5> QED BY <3>0, <4>1, <5>0, <5>1, <5>2
      <4>3. t[i].retain_until \in Int
        BY <1>2, RetentionAssumption DEF VersionRecord
      <4> QED BY <4>2, <4>3
    <3>8. u # <<>> => u[Len(u)] = t[Len(t)] /\ t # <<>>
      <4> SUFFICES ASSUME u # <<>> PROVE u[Len(u)] = t[Len(t)] /\ t # <<>>
        OBVIOUS
      <4>0. Len(u) > 0
        BY <3>4
      <4>1. Len(t) \in Nat /\ Len(t) > 1 /\ d < Len(t)
        <5>1. Len(t) \in Nat /\ Len(t) - 1 > 0
          BY <1>1, <3>4, <4>0
        <5> QED BY <2>4, <3>0, <5>1
      <4>2. Len(u) \in 1..Len(u) /\ ~(Len(u) < d) /\ Len(u) + 1 = Len(t)
        BY <3>0, <3>4, <4>1
      <4>3. t # <<>>
        BY <1>1, <4>1
      <4> QED BY <3>5, <4>2, <4>3
    <3>9. NewOrSame(t, u)
      BY <3>8 DEF NewOrSame
    <3>10. TopStays(t, u)
      <4> SUFFICES ASSUME t # <<>>, IsLocked(t[Len(t)]) PROVE u # <<>>
        BY <3>8 DEF TopStays
      <4>1. d # Len(t)
        BY <2>2
      <4>2. Len(u) # 0
        <5>0. \A l \in Nat : d <= l /\ d # l => d < l
          BY <3>0
        <5>1. Len(t) \in Nat /\ d < Len(t)
          BY <1>1, <3>0, <4>1, <5>0, Zenon
        <5>2. Len(t) - 1 # 0
          BY <3>0, <5>1
        <5> QED BY <3>4, <5>2
      <4> QED BY <3>4, <4>2
    <3>11. SameTop(t, u)
      BY <3>8 DEF SameTop
    <3> QED BY <3>6, <3>7, <3>9, <3>10, <3>11 DEF Respects, t, u
  <2> QED BY <2>3, <2>4
<1> QED BY <1>5, <1>6

-----------------------------------------------------------------------------
(* What a step does to the whole store.                                    *)

\* The step keeps the invariant of the versions, every locked version, and
\* what the requests under way have looked at.
KeepsStore ==
  /\ VersionsInv' /\ ids <= ids'
  /\ \A k \in Keys : Kept(versions[k], versions'[k]) /\ NewOrSame(versions[k], versions'[k])

\* A step that leaves the objects alone keeps them.
LEMMA StoreStays ==
  ASSUME VersionsInv, CreatorInv, UNCHANGED <<versions, ids, creator, backend, config>>,
         now' \in 0..MaxNow
  PROVE  KeepsStore /\ CreatorInv' /\ \A k \in Keys : ~Hidden(k)
<1>0. ids \in Nat
  BY DEF VersionsInv
<1>1. VersionsInv'
  BY DEF VersionsInv, TableInv, LongEnough, policy
<1>2. \A k \in Keys : Kept(versions[k], versions'[k])
  BY <1>0, TableStays
<1>3. \A k \in Keys : NewOrSame(versions[k], versions'[k])
  BY DEF NewOrSame
<1>4. CreatorInv'
  BY DEF CreatorInv, CreatorKeepsKey, Occupied, Current
<1>5. \A k \in Keys : ~Hidden(k)
  BY DEF Hidden, Occupied, Current
<1> QED BY <1>0, <1>1, <1>2, <1>3, <1>4, <1>5 DEF KeepsStore

\* A change of the versions of one key that respects the locks.
LEMMA OneKeyChanges ==
  ASSUME VersionsInv, NEW k \in Keys, NEW u, ids' \in Nat, ids <= ids',
         UNCHANGED <<backend, config, now>>,
         versions' = [versions EXCEPT ![k] = u], Respects(versions[k], u)
  PROVE  /\ KeepsStore /\ versions'[k] = u
         /\ \A q \in Keys \ {k} : versions'[q] = versions[q]
<1>0. ids \in Nat /\ now \in 0..MaxNow /\ config \in Configs /\ backend \in Backends
      /\ versions = [q \in Keys |-> versions[q]]
  BY DEF VersionsInv
<1>1. /\ versions'[k] = u /\ versions' = [q \in Keys |-> versions'[q]]
      /\ \A q \in Keys \ {k} : versions'[q] = versions[q]
  BY <1>0
<1>2. \A q \in Keys : TableInv(versions'[q], ids')
  BY <1>1, TableStays DEF Respects
<1>3. \A q \in Keys : TableInv(versions[q], ids)'
  BY <1>2 DEF TableInv, LongEnough, policy
<1>4. VersionsInv'
  BY <1>0, <1>1, <1>3 DEF VersionsInv
<1>5. \A q \in Keys : Kept(versions[q], versions'[q])
  BY <1>0, <1>1, TableStays DEF Respects
<1>6. \A q \in Keys : NewOrSame(versions[q], versions'[q])
  BY <1>1 DEF Respects, NewOrSame
<1> QED BY <1>1, <1>4, <1>5, <1>6 DEF KeepsStore

\* A locked current version that stays on top is not hidden.
LEMMA NotHidden ==
  ASSUME NEW k \in Keys, NEW q \in Keys, q # k => versions'[q] = versions[q],
         TopStays(versions[k], versions'[k])
  PROVE  ~Hidden(q)
BY DEF Hidden, TopStays, Occupied, Current

\* Create-only writes: the first object of a key.
LEMMA CreatesKeeps ==
  ASSUME VersionsInv, CreatorInv, UNCHANGED <<backend, config, now>>,
         NEW k \in Keys, NEW op, MadeOp(op), NEW told \in BOOLEAN, ~Occupied(k), NEW u,
         u = Append(versions[k], Version(op)), Creates(k, u, op, told)
  PROVE  KeepsStore /\ CreatorInv' /\ \A q \in Keys : ~Hidden(q)
<1>0. /\ ids \in Nat /\ versions[k] = <<>> /\ ids' = ids + 1
      /\ versions' = [versions EXCEPT ![k] = u]
      /\ creator' = [creator EXCEPT ![k] = IF told THEN @ \cup {op.data} ELSE @]
  BY DEF VersionsInv, Creates, Occupied
<1>1. Respects(versions[k], u)
  BY <1>0, AppendRespects
<1>2. /\ KeepsStore /\ versions'[k] = u
      /\ \A q \in Keys \ {k} : versions'[q] = versions[q]
  <2>1. ids' \in Nat /\ ids <= ids'
    BY <1>0
  <2> QED BY <1>0, <1>1, <2>1, OneKeyChanges
<1>3. TopStays(versions[k], versions'[k])
  BY <1>0 DEF TopStays
<1>4. \A q \in Keys : ~Hidden(q)
  BY <1>2, <1>3, NotHidden
<1>5. Version(op).data = op.data
  BY VersionType
<1>6. u # <<>> /\ u[Len(u)].data = op.data
  <2>1. u = <<Version(op)>>
    BY <1>0
  <2> QED BY <1>5, <2>1
<1>7. creator = [q \in Keys |-> creator[q]] /\ CreatorKeepsKey
  BY DEF CreatorInv
<1>8. creator[k] = {}
  BY <1>7 DEF CreatorKeepsKey
<1>9. /\ creator' = [q \in Keys |-> creator'[q]]
      /\ creator'[k] \in {{}, {op.data}}
      /\ \A q \in Keys \ {k} : creator'[q] = creator[q]
  BY <1>0, <1>7, <1>8
<1>10. CreatorKeepsKey'
  <2> SUFFICES ASSUME NEW q \in Keys, creator'[q] # {}
               PROVE  /\ versions'[q] # <<>>
                      /\ creator'[q] = {versions'[q][Len(versions'[q])].data}
    BY DEF CreatorKeepsKey, Occupied, Current
  <2>1. CASE q = k
    BY <1>2, <1>6, <1>9, <2>1
  <2>2. CASE q # k
    BY <1>2, <1>7, <1>9, <2>2 DEF CreatorKeepsKey, Occupied, Current
  <2> QED BY <2>1, <2>2
<1> QED BY <1>2, <1>4, <1>9, <1>10 DEF CreatorInv

\* Overwrites forget the creator of the key.
LEMMA ReplacesKeeps ==
  ASSUME VersionsInv, CreatorInv, UNCHANGED <<backend, config, now>>,
         NEW k \in Keys, NEW u, ids' = ids + 1, Respects(versions[k], u),
         versions' = [versions EXCEPT ![k] = u], creator' = [creator EXCEPT ![k] = {}]
  PROVE  /\ KeepsStore /\ CreatorInv' /\ versions'[k] = u
         /\ \A q \in Keys \ {k} : versions'[q] = versions[q]
<1>0. ids \in Nat
  BY DEF VersionsInv
<1>1. /\ KeepsStore /\ versions'[k] = u
      /\ \A q \in Keys \ {k} : versions'[q] = versions[q]
  <2>1. ids' \in Nat /\ ids <= ids'
    BY <1>0
  <2> QED BY <2>1, OneKeyChanges
<1>2. creator = [q \in Keys |-> creator[q]] /\ CreatorKeepsKey
  BY DEF CreatorInv
<1>3. /\ creator' = [q \in Keys |-> creator'[q]] /\ creator'[k] = {}
      /\ \A q \in Keys \ {k} : creator'[q] = creator[q]
  BY <1>2
<1>4. CreatorKeepsKey'
  BY <1>1, <1>2, <1>3 DEF CreatorKeepsKey, Occupied, Current
<1> QED BY <1>1, <1>3, <1>4 DEF CreatorInv

\* Deletions forget the creator of the key unless they leave its object.
LEMMA DeletesKeeps ==
  ASSUME VersionsInv, CreatorInv, UNCHANGED <<backend, config, now>>,
         NEW k \in Keys, NEW u, ids' = ids + 1, Respects(versions[k], u),
         SameTop(versions[k], u), Deletes(k, u)
  PROVE  /\ KeepsStore /\ CreatorInv' /\ versions'[k] = u
         /\ \A q \in Keys \ {k} : versions'[q] = versions[q]
<1>0. ids \in Nat /\ versions' = [versions EXCEPT ![k] = u]
  BY DEF VersionsInv, Deletes
<1>1. /\ KeepsStore /\ versions'[k] = u
      /\ \A q \in Keys \ {k} : versions'[q] = versions[q]
  <2>1. ids' \in Nat /\ ids <= ids'
    BY <1>0
  <2> QED BY <1>0, <2>1, OneKeyChanges
<1>2. creator = [q \in Keys |-> creator[q]] /\ CreatorKeepsKey
  BY DEF CreatorInv
<1>3. /\ creator' = [q \in Keys |-> creator'[q]]
      /\ creator'[k] = IF TopRemains(k, u) THEN creator[k] ELSE {}
      /\ \A q \in Keys \ {k} : creator'[q] = creator[q]
  <2>1. creator' = [creator EXCEPT ![k] = IF TopRemains(k, u) THEN @ ELSE {}]
    BY DEF Deletes
  <2> HIDE DEF TopRemains
  <2> QED BY <1>2, <2>1
<1>4. TopRemains(k, u) => u # <<>> /\ u[Len(u)].data = Current(k).data
  BY DEF TopRemains, SameTop, Occupied, Current
<1>5. ASSUME NEW q \in Keys, creator'[q] # {}
      PROVE  /\ versions'[q] # <<>>
             /\ creator'[q] = {versions'[q][Len(versions'[q])].data}
  <2>1. CASE q = k
    BY <1>1, <1>2, <1>3, <1>4, <1>5, <2>1 DEF CreatorKeepsKey
  <2>2. CASE q # k
    BY <1>1, <1>2, <1>3, <1>5, <2>2 DEF CreatorKeepsKey, Occupied, Current
  <2> QED BY <2>1, <2>2
<1>6. CreatorKeepsKey'
  BY <1>5 DEF CreatorKeepsKey, Occupied, Current
<1> QED BY <1>1, <1>3, <1>6 DEF CreatorInv

\* extend_retention.
LEMMA RelocksKeeps ==
  ASSUME VersionsInv, CreatorInv, UNCHANGED <<backend, config, now>>,
         NEW k \in Keys, Occupied(k), NEW until \in 0..MaxTime,
         until >= Current(k).retain_until, Relocks(k, until)
  PROVE  KeepsStore /\ CreatorInv' /\ \A q \in Keys : ~Hidden(q)
<1>0. ids \in Nat
  BY DEF VersionsInv
<1>1. /\ ids' \in {ids, ids + 1} /\ creator' = creator
      /\ versions' = [versions EXCEPT ![k] = versions'[k]]
      /\ Respects(versions[k], versions'[k]) /\ TopStays(versions[k], versions'[k])
      /\ versions'[k] # <<>> /\ versions'[k][Len(versions'[k])].data = Current(k).data
  BY RelockRespects
<1>2. PICK u : u = versions'[k]
  OBVIOUS
<1>3. /\ KeepsStore /\ \A q \in Keys \ {k} : versions'[q] = versions[q]
  <2>1. ids' \in Nat /\ ids <= ids'
    BY <1>0, <1>1
  <2>2. versions' = [versions EXCEPT ![k] = u] /\ Respects(versions[k], u)
    BY <1>1, <1>2
  <2> QED BY <2>1, <2>2, OneKeyChanges
<1>4. \A q \in Keys : ~Hidden(q)
  BY <1>1, <1>3, NotHidden
<1>5. CreatorInv'
  BY <1>1, <1>3 DEF CreatorInv, CreatorKeepsKey, Occupied, Current
<1> QED BY <1>3, <1>4, <1>5

\* The object a reader gets.
LEMMA CurrentType ==
  ASSUME VersionsInv, NEW k \in Keys, Occupied(k)
  PROVE  /\ Current(k) \in VersionRecord
         /\ LongEnough(Current(k).class, Current(k).asked, Current(k).retain_until)
<1> DEFINE t == versions[k]
<1>1. TableInv(t, ids) /\ t # <<>>
  BY DEF VersionsInv, Occupied
<1> HIDE DEF t
<1>2. t \in Seq(VersionRecord)
  BY <1>1 DEF TableInv
<1>3. Len(t) \in 1..Len(t)
  BY <1>1, <1>2
<1>4. t[Len(t)] \in VersionRecord /\ LongEnough(t[Len(t)].class, t[Len(t)].asked, t[Len(t)].retain_until)
  BY <1>1, <1>2, <1>3 DEF TableInv
<1> QED BY <1>4 DEF Current, t

\* Dates and times are compared as integers.
LEMMA TotalOrder ==
  \A a, b \in Int : (~(a <= b) => a > b) /\ (~(a < b) => a >= b) /\ (a > b => a >= b)
OBVIOUS

\* Times and dates are numbers.
LEMMA Dates ==
  (\A i \in 0..MaxTime : i \in Int) /\ (\A i \in 0..MaxNow : i \in Int)
<1>1. MaxTime \in Nat
  BY RetentionAssumption
<1>2. MaxNow \in Nat
  BY ObjectsAssumption
<1> QED BY <1>1, <1>2

\* What S3 checks before it executes a write request.
LEMMA Accepted ==
  ASSUME NEW r, IsWrite(r.op), r.op.until \in Int, now \in Int, Refuses(r) = ""
  PROVE  /\ CreateOnly(r.op) => ~Occupied(r.op.key)
         /\ r.op.type = "delete" =>
              ~\E v \in Seqs!ToSet(versions[r.op.key]) : v.id = r.seen /\ IsLocked(v)
         /\ r.op.type = "extend_retention" =>
              Occupied(r.op.key) /\ ~(r.op.until < Current(r.op.key).retain_until) /\ ~(r.op.until <= now)
<1> DEFINE lockedSeen == \E v \in Seqs!ToSet(versions[r.op.key]) : v.id = r.seen /\ IsLocked(v)
<1>1. CASE CreateOnly(r.op)
  <2>1. r.op.type \in {"put", "put_with_retention"}
    BY <1>1 DEF CreateOnly
  <2> HIDE DEF lockedSeen
  <2>2. ASSUME Occupied(r.op.key) PROVE FALSE
    BY <1>1, <2>1, <2>2 DEF Refuses, PreconditionFails, lockedSeen
  <2> QED BY <2>1, <2>2
<1>2. CASE r.op.type = "delete"
  <2>1. ~CreateOnly(r.op)
    BY <1>2 DEF CreateOnly
  <2>2. ASSUME lockedSeen PROVE FALSE
    <3>1. Refuses(r) = "AccessDenied"
      BY <1>2, <2>1, <2>2 DEF Refuses, PreconditionFails
    <3> QED BY <3>1
  <2> QED BY <1>2, <2>1, <2>2
<1>3. CASE r.op.type = "extend_retention"
  <2>1. ~CreateOnly(r.op)
    BY <1>3 DEF CreateOnly
  <2> HIDE DEF lockedSeen
  <2>2. Occupied(r.op.key)
    BY <1>3, <2>1 DEF Refuses, PreconditionFails, lockedSeen
  <2>3. ~(r.op.until <= now)
    BY <1>3, <2>1, <2>2 DEF Refuses, PreconditionFails, lockedSeen
  <2>30. r.op.until > now
    BY <2>3, TotalOrder
  <2>4. ~(r.op.until < Current(r.op.key).retain_until)
    BY <1>3, <2>1, <2>2, <2>3, <2>30 DEF Refuses, PreconditionFails, lockedSeen
  <2> QED BY <1>3, <2>1, <2>2, <2>3, <2>4
<1>4. CASE IsOverwrite(r.op)
  <2>1. ~CreateOnly(r.op) /\ r.op.type = "put"
    BY <1>4 DEF CreateOnly, IsOverwrite
  <2> QED BY <2>1
<1> QED BY <1>1, <1>2, <1>3, <1>4 DEF IsWrite

\* A write request that S3 executes keeps what is locked, and only an Overwrite
\* hides a locked version.
LEMMA ExecutesKeeps ==
  ASSUME VersionsInv, CreatorInv, UNCHANGED <<backend, config, now>>, backend = "s3",
         NEW r, MadeOp(r.op), IsWrite(r.op), Refuses(r) = "", NEW told \in BOOLEAN,
         Executes(r, told)
  PROVE  /\ KeepsStore /\ CreatorInv'
         /\ \A q \in Keys : Hidden(q) => IsOverwrite(r.op) /\ r.op.key = q
<1> DEFINE k == r.op.key
<1>0. k \in Keys /\ r.op.until \in 0..MaxTime /\ ids \in Nat /\ r.op.until \in Int /\ now \in Int
  <2>1. k \in Keys /\ r.op.until \in 0..MaxTime /\ ids \in Nat /\ now \in 0..MaxNow
    BY DEF MadeOp, VersionsInv
  <2> QED BY <2>1, Dates, Zenon
<1>1. CASE CreateOnly(r.op)
  <2>1. ~IsOverwrite(r.op) /\ r.op.type # "delete" /\ r.op.type # "extend_retention"
    BY <1>1 DEF CreateOnly, IsOverwrite
  <2>2. ~Occupied(k)
    BY <1>0, <1>1, Accepted
  <2>3. PICK u : u = Append(versions[k], Version(r.op))
    OBVIOUS
  <2>4. Creates(k, u, r.op, told)
    BY <1>1, <2>1, <2>3 DEF Executes
  <2> QED BY <1>0, <2>2, <2>3, <2>4, CreatesKeeps
<1>2. CASE IsOverwrite(r.op)
  <2>1. ~CreateOnly(r.op) /\ r.op.type # "delete" /\ r.op.type # "extend_retention"
    BY <1>2 DEF CreateOnly, IsOverwrite
  <2>2. PICK u : u = Append(versions[k], Version(r.op))
    OBVIOUS
  <2>3. Overwrites(k, u)
    BY <1>2, <2>1, <2>2 DEF Executes
  <2>4. /\ ids' = ids + 1 /\ versions' = [versions EXCEPT ![k] = u]
        /\ creator' = [creator EXCEPT ![k] = {}]
    BY <2>3 DEF Overwrites
  <2>5. Respects(versions[k], u)
    <3>1. backend # "memory"
      OBVIOUS
    <3> QED BY <1>0, <2>2, <2>4, <3>1, AppendRespects
  <2>6. /\ KeepsStore /\ CreatorInv'
        /\ \A q \in Keys \ {k} : versions'[q] = versions[q]
    BY <1>0, <2>4, <2>5, ReplacesKeeps
  <2>7. \A q \in Keys : Hidden(q) => q = k
    BY <2>6 DEF Hidden, Occupied, Current
  <2> QED BY <1>2, <2>6, <2>7
<1>3. CASE r.op.type = "delete"
  <2>1. ~CreateOnly(r.op) /\ ~IsOverwrite(r.op)
    BY <1>3 DEF CreateOnly, IsOverwrite
  <2>2. PICK u : u = AfterDelete(r)
    OBVIOUS
  <2>3. Deletes(k, u)
    BY <1>3, <2>1, <2>2 DEF Executes
  <2>4. ids' = ids + 1
    BY <2>3 DEF Deletes
  <2>5. Respects(versions[k], u) /\ TopStays(versions[k], u) /\ SameTop(versions[k], u)
    <3>1. ~\E v \in Seqs!ToSet(versions[r.op.key]) : v.id = r.seen /\ IsLocked(v)
      BY <1>0, <1>3, Accepted
    <3> QED BY <1>0, <2>2, <2>4, <3>1, DeleteRespects
  <2>6. /\ KeepsStore /\ CreatorInv' /\ versions'[k] = u
        /\ \A q \in Keys \ {k} : versions'[q] = versions[q]
    BY <1>0, <2>3, <2>4, <2>5, DeletesKeeps
  <2>7. \A q \in Keys : ~Hidden(q)
    <3>1. TopStays(versions[k], versions'[k])
      BY <2>5, <2>6 DEF TopStays
    <3> QED BY <1>0, <2>6, <3>1, NotHidden
  <2> QED BY <2>6, <2>7
<1>4. CASE r.op.type = "extend_retention"
  <2>1. ~CreateOnly(r.op) /\ ~IsOverwrite(r.op)
    BY <1>4 DEF CreateOnly, IsOverwrite
  <2>2. Occupied(k) /\ ~(r.op.until < Current(k).retain_until)
    BY <1>0, <1>4, Accepted
  <2>3. Relocks(k, r.op.until)
    BY <1>4, <2>1 DEF Executes
  <2>4. r.op.until >= Current(k).retain_until
    <3>2. Current(k).retain_until \in Int
      <4>1. Current(k) \in VersionRecord
        BY <1>0, <2>2, CurrentType
      <4>2. \A v \in VersionRecord : v.retain_until \in 0..MaxTime
        BY DEF VersionRecord
      <4> QED BY <4>1, <4>2, Dates, Zenon
    <3> QED BY <1>0, <2>2, <3>2, TotalOrder
  <2> QED BY <1>0, <2>2, <2>3, <2>4, RelocksKeeps
<1> QED BY <1>1, <1>2, <1>3, <1>4 DEF IsWrite

-----------------------------------------------------------------------------
(* The calls and the late requests.                                        *)

\* A request that looked before the lock still did.
LEMMA WarnedStays ==
  ASSUME VersionsInv, KeepsStore, NEW r, r.op.key \in Keys, Warned(r)
  PROVE  Warned(r)'
<1> DEFINE k == r.op.key
           t == versions[k]
           u == versions'[k]
<1>1. ids \in Nat /\ ids' \in Nat /\ ids <= ids' /\ NewOrSame(t, u)
  BY DEF KeepsStore, VersionsInv
<1>2. r.mark \in Nat /\ r.mark <= ids
      /\ (IsOverwrite(r.op) /\ t # <<>> /\ t[Len(t)].retain_until # Unlocked => r.mark < t[Len(t)].since)
  BY DEF Warned, Occupied, Current
<1>3. r.mark <= ids'
  BY <1>1, <1>2
<1>4. ASSUME IsOverwrite(r.op), u # <<>>, u[Len(u)].retain_until # Unlocked
      PROVE  r.mark < u[Len(u)].since
  <2>1. u[Len(u)].since \in Nat
    <3>1. u \in Seq(VersionRecord)
      BY DEF KeepsStore, VersionsInv, TableInv
    <3>2. u[Len(u)] \in VersionRecord
      BY <1>4, <3>1
    <3> QED BY <3>2 DEF VersionRecord
  <2>2. CASE u[Len(u)].since > ids
    BY <1>1, <1>2, <2>1, <2>2
  <2>3. CASE ~(u[Len(u)].since > ids)
    BY <1>1, <1>2, <1>4, <2>3 DEF NewOrSame
  <2> QED BY <2>2, <2>3
<1> QED BY <1>2, <1>3, <1>4 DEF Warned, IsOverwrite, Occupied, Current

\* A call stays what it is, or ends.
Continues(c) ==
  \/ call'[c] = Idle
  \/ /\ call[c] # Idle /\ CallShape(call[c])'
     /\ call'[c].op = call[c].op /\ call'[c].mark = call[c].mark

\* Seeing, Resend and LoseReply leave what a call asks for alone.
LEMMA CallsStay ==
  ASSUME VersionsInv, CallsInv, KeepsStore,
         call' = [c \in Clients |-> call'[c]], \A c \in Clients : Continues(c)
  PROVE  CallsInv'
<1>1. \A c \in Clients : call'[c] = Idle \/ CallShape(call[c])'
  BY DEF Continues
<1>2. ASSUME NEW c \in Clients, call'[c] # Idle PROVE Warned(Request(c))'
  <2>1. /\ call[c] # Idle /\ CallShape(call[c]) /\ Warned(Request(c))
        /\ call'[c].op = call[c].op /\ call'[c].mark = call[c].mark
    BY <1>2 DEF CallsInv, Continues
  <2>2. PICK r : r = Request(c)
    OBVIOUS
  <2>3. r.op = call[c].op /\ r.mark = call[c].mark /\ r.op.key \in Keys
    BY <2>1, <2>2 DEF Request, Op, CallShape, MadeOp
  <2>4. Warned(r)'
    BY <2>1, <2>2, <2>3, WarnedStays
  <2>5. Request(c)'.op = r.op /\ Request(c)'.mark = r.mark
    BY <2>1, <2>3 DEF Request, Op
  <2> QED BY <2>4, <2>5 DEF Warned
<1>3. \A c \in Clients : (call[c] = Idle \/ CallShape(call[c]))'
  BY <1>1
<1> QED BY <1>2, <1>3 DEF CallsInv, Idle

\* Requests whose caller gave up wait, or have arrived.
LEMMA LateStays ==
  ASSUME VersionsInv, LateInv, KeepsStore, late' \subseteq late, UNCHANGED <<backend, config>>
  PROVE  LateInv'
<1>1. ASSUME NEW r \in late PROVE Warned(r)' /\ MadeOp(r.op)'
  <2>1. r.op.key \in Keys /\ Warned(r) /\ MadeOp(r.op)
    BY DEF LateInv, MadeOp
  <2>2. Warned(r)'
    BY <2>1, WarnedStays
  <2> QED BY <2>1, <2>2 DEF MadeOp, LongEnough, policy
<1> QED BY <1>1 DEF LateInv, IsWrite, CreateOnly, IsOverwrite

\* The call x continues the call y, or there is none.
ContinuesAs(x, y) ==
  \/ x = Idle
  \/ y # Idle /\ CallShape(x) /\ x.op = y.op /\ x.mark = y.mark

\* What the listings forget does not matter here.
LEMMA SeeingContinues ==
  ASSUME NEW X, X = [c \in Clients |-> X[c]], \A c \in Clients : ContinuesAs(X[c], call[c]),
         NEW T, call' = Seeing(X, T), config' = config
  PROVE  call' = [c \in Clients |-> call'[c]] /\ \A c \in Clients : Continues(c)
<1>1. call' = [c \in Clients |-> call'[c]]
  BY DEF Seeing
<1>2. ASSUME NEW c \in Clients PROVE Continues(c)
  <2>1. call'[c] = IF X[c].phase = "idle" THEN X[c]
                   ELSE [X[c] EXCEPT !.stable = {k \in @ : T[k] # <<>>}]
    BY DEF Seeing
  <2>2. CASE X[c] = Idle
    BY <2>1, <2>2 DEF Continues, Idle
  <2>3. CASE X[c] # Idle
    <3>1. call[c] # Idle /\ CallShape(X[c]) /\ X[c].op = call[c].op /\ X[c].mark = call[c].mark
      BY <2>3 DEF ContinuesAs
    <3>2. PICK x : x = X[c]
      OBVIOUS
    <3>3. PICK s : s = {k \in x.stable : T[k] # <<>>}
      OBVIOUS
    <3>4. x \in [phase : {"sent", "checked", "lost"}, op : {x.op}, resends : {x.resends},
            took : {x.took}, seen : {x.seen}, mark : Nat, rest : {x.rest}, found : {x.found},
            stable : {x.stable}] /\ MadeOp(x.op) /\ (x.phase # "sent" => IsWrite(x.op))
      BY <3>1, <3>2 DEF CallShape
    <3>5. call'[c] = [x EXCEPT !.stable = s]
      BY <2>1, <3>2, <3>3, <3>4
    <3>6. PICK y : y = [x EXCEPT !.stable = s]
      OBVIOUS
    <3>7. /\ y \in [phase : {"sent", "checked", "lost"}, op : {y.op}, resends : {y.resends},
               took : {y.took}, seen : {y.seen}, mark : Nat, rest : {y.rest}, found : {y.found},
               stable : {y.stable}]
          /\ y.op = x.op /\ y.mark = x.mark /\ y.phase = x.phase
      BY <3>4, <3>6
    <3>8. CallShape(y)
      BY <3>4, <3>7 DEF CallShape
    <3>9. CallShape(call[c])'
      BY <3>5, <3>6, <3>8 DEF CallShape, MadeOp, LongEnough, policy, IsWrite, CreateOnly, IsOverwrite
    <3> QED BY <3>1, <3>2, <3>5, <3>6, <3>7, <3>9 DEF Continues
  <2> QED BY <2>2, <2>3
<1> QED BY <1>1, <1>2

\* The calls of the other clients go on.
LEMMA OthersContinue ==
  ASSUME CallsInv, NEW c \in Clients, NEW X, NEW x, ContinuesAs(x, call[c]),
         X = [call EXCEPT ![c] = x]
  PROVE  X = [d \in Clients |-> X[d]] /\ \A d \in Clients : ContinuesAs(X[d], call[d])
<1>1. call = [d \in Clients |-> call[d]]
      /\ \A d \in Clients : call[d] = Idle \/ CallShape(call[d])
  BY DEF CallsInv
<1>2. \A d \in Clients : X[d] = IF d = c THEN x ELSE call[d]
  BY <1>1
<1>3. X = [d \in Clients |-> X[d]]
  BY <1>1
<1>4. \A d \in Clients : ContinuesAs(call[d], call[d])
  BY <1>1 DEF ContinuesAs
<1> QED BY <1>2, <1>3, <1>4

\* A step that ends a call, whatever the answer.
LEMMA AnswerKeeps ==
  ASSUME ObjectsIndInv, KeepsStore, CreatorInv', NEW c \in Clients,
         call' = Seeing([call EXCEPT ![c] = Idle], versions'),
         UNCHANGED <<backend, config, now, late, issued>>
  PROVE  ObjectsIndInv'
<1>0. VersionsInv /\ CallsInv /\ LateInv /\ issued \in 0..MaxCalls
  BY DEF ObjectsIndInv
<1>1. PICK X : X = [call EXCEPT ![c] = Idle]
  OBVIOUS
<1>2. PICK T : T = versions'
  OBVIOUS
<1>3. X = [d \in Clients |-> X[d]] /\ \A d \in Clients : ContinuesAs(X[d], call[d])
  <2>1. ContinuesAs(Idle, call[c])
    BY DEF ContinuesAs
  <2> QED BY ZenonT(40), <1>0, <1>1, <2>1, OthersContinue
<1>4. call' = [d \in Clients |-> call'[d]] /\ \A d \in Clients : Continues(d)
  <2>1. call' = Seeing(X, T)
    BY <1>1, <1>2
  <2> QED BY <1>3, <2>1, SeeingContinues
<1>5. CallsInv'
  BY <1>0, <1>4, CallsStay
<1>6. LateInv'
  BY <1>0, LateStays
<1> QED BY <1>0, <1>5, <1>6 DEF ObjectsIndInv, KeepsStore

\* What a step that hides no locked version shows.
StepOK == ObjectsIndInv' /\ KeepsStore /\ \A k \in Keys : ~Hidden(k)

\* Answers of reads, refusals and errors.
LEMMA ReplyKeeps ==
  ASSUME ObjectsIndInv, NEW c \in Clients, UNCHANGED store,
         call' = Seeing([call EXCEPT ![c] = Idle], versions'),
         UNCHANGED <<backend, config, now, late, issued>>
  PROVE  StepOK
<1>1. KeepsStore /\ CreatorInv' /\ \A k \in Keys : ~Hidden(k)
  <2>1. VersionsInv /\ CreatorInv /\ now' \in 0..MaxNow
    BY DEF ObjectsIndInv, VersionsInv
  <2> QED BY <2>1, StoreStays DEF store
<1> QED BY <1>1, AnswerKeeps DEF StepOK

\* A step of one call that leaves the store alone and does not end it.
LEMMA ProgressKeeps ==
  ASSUME ObjectsIndInv, NEW c \in Clients, NEW x, ContinuesAs(x, call[c]),
         call' = [call EXCEPT ![c] = x], late' \subseteq late,
         UNCHANGED <<backend, config, now, versions, ids, issued, creator>>
  PROVE  StepOK
<1>0. VersionsInv /\ CallsInv /\ LateInv /\ CreatorInv /\ issued \in 0..MaxCalls /\ now' \in 0..MaxNow
  BY DEF ObjectsIndInv, VersionsInv
<1>1. KeepsStore /\ CreatorInv' /\ \A k \in Keys : ~Hidden(k)
  BY <1>0, StoreStays
<1>2. PICK X : X = [call EXCEPT ![c] = x]
  OBVIOUS
<1>3. X = [d \in Clients |-> X[d]] /\ \A d \in Clients : ContinuesAs(X[d], call[d])
  BY ZenonT(40), <1>0, <1>2, OthersContinue
<1>4. ASSUME NEW d \in Clients PROVE Continues(d)
  <2>1. call'[d] = X[d] /\ ContinuesAs(X[d], call[d])
    BY <1>2, <1>3
  <2>2. PICK y : y = X[d]
    OBVIOUS
  <2>3. CallShape(y) => CallShape(y)'
    BY DEF CallShape, MadeOp, LongEnough, policy, IsWrite, CreateOnly, IsOverwrite
  <2> QED BY <2>1, <2>2, <2>3 DEF ContinuesAs, Continues, Idle, CallShape
<1>5. CallsInv'
  BY <1>0, <1>1, <1>2, <1>3, <1>4, CallsStay
<1>6. LateInv'
  BY <1>0, <1>1, LateStays
<1> QED BY <1>0, <1>1, <1>5, <1>6 DEF ObjectsIndInv, KeepsStore, StepOK

-----------------------------------------------------------------------------
(* The policy.                                                             *)

\* RetentionPolicyConfig::build gives a window or refuses.
LEMMA WindowIsDuration ==
  ASSUME NEW n \in Int, NEW unit \in Nat, NEW why, Window(n, unit, why).type = "Ok"
  PROVE  Window(n, unit, why).value \in Nat
<1>1. ~(n <= 0) /\ Window(n, unit, why).value = n * unit
  BY DEF Window, Refused, Built
<1>2. \A a, b \in Nat : a * b \in Nat
  OBVIOUS
<1>3. n \in Nat
  BY <1>1
<1> QED BY <1>1, <1>2, <1>3

\* The window of the policy the store was given.
LEMMA PolicyIsDuration ==
  ASSUME config \in Configs, policy.type = "Ok"
  PROVE  policy.value \in Nat
<1>0. config.retention_days \in Int /\ config.dev_override_minutes \in Seq(Int)
  BY ObjectsAssumption
<1>1. SECS_PER_DAY \in Nat /\ SECS_PER_MINUTE \in Nat
  BY RetentionAssumption
<1>2. CASE policy = from_days(config.retention_days)
  BY <1>0, <1>1, <1>2, WindowIsDuration DEF from_days
<1>3. CASE policy # from_days(config.retention_days)
  <2>1. config.dev_override_minutes # <<>> /\ policy = from_minutes(config.dev_override_minutes[1])
    BY <1>3 DEF policy, build
  <2>2. config.dev_override_minutes[1] \in Int
    BY <1>0, <2>1
  <2> QED BY <1>1, <2>1, <2>2, WindowIsDuration DEF from_minutes
<1> QED BY <1>2, <1>3

\* A call that can be made asks for a date its class demands.
LEMMA MadeIsLongEnough ==
  ASSUME VersionsInv, issued \in 0..MaxCalls, NEW op \in Calls, Possible(op)
  PROVE  MadeOp(Made(op))
<1> DEFINE m == Made(op)
           until == IF op.class \in ObjectClass THEN retain_until(policy.value, op.class, now).value
                    ELSE IF op.type = "extend_retention" THEN now + op.until ELSE Unlocked
<1>0. /\ now \in 0..MaxNow /\ config \in Configs
      /\ MaxNow \in Nat /\ MaxTime \in Nat /\ MaxCalls \in Nat /\ Indefinite \in 0..MaxTime
  BY ObjectsAssumption, RetentionAssumption DEF VersionsInv
<1>1. /\ op \in [type : {"get", "head", "list", "put", "put_with_retention", "delete",
                         "extend_retention", "get_retention"},
                 key : Keys, class : ObjectClass \cup {"none"},
                 mode : {"IfNotExists", "Overwrite", "none"}, until : Nat,
                 prefix : {op.prefix}, data : Nat, asked : Nat]
      /\ op.type = "extend_retention" => MaxNow + op.until <= MaxTime
  BY ObjectsAssumption
<1>2. /\ until \in 0..MaxTime
      /\ op.class \in ObjectClass =>
           /\ policy.type = "Ok" /\ policy.value \in Nat
           /\ op.class = "PruningCheckpoint" => until >= Indefinite
           /\ op.class # "PruningCheckpoint" => until >= now + policy.value
  <2>1. CASE op.class \in ObjectClass
    <3>1. policy.type = "Ok" /\ retain_until(policy.value, op.class, now).type = "Ok"
          /\ until = retain_until(policy.value, op.class, now).value
      BY <2>1 DEF Possible
    <3>2. policy.value \in Nat
      BY <1>0, <3>1, PolicyIsDuration
    <3> HIDE DEF until
    <3>3. CASE op.class = "PruningCheckpoint"
      BY <1>0, <3>1, <3>2, <3>3 DEF retain_until, Built
    <3>4. CASE op.class # "PruningCheckpoint"
      <4>1. ~(now + policy.value > MaxTime) /\ until = now + policy.value
        BY <3>1, <3>4 DEF retain_until, Built, Refused
      <4>2. PICK w \in Nat : w = policy.value
        BY <3>2
      <4>3. until \in 0..MaxTime /\ until >= now + w
        BY <1>0, <4>1, <4>2
      <4> QED BY <3>1, <3>2, <3>4, <4>2, <4>3
    <3> QED BY <3>3, <3>4
  <2>2. CASE op.class \notin ObjectClass /\ op.type = "extend_retention"
    <3>1. until = now + op.until /\ op.until \in Nat
      BY <1>1, <2>2
    <3> HIDE DEF until
    <3>2. until \in 0..MaxTime
      BY <1>0, <1>1, <2>2, <3>1
    <3> QED BY <2>2, <3>2
  <2>3. CASE op.class \notin ObjectClass /\ op.type # "extend_retention"
    <3>1. until = 0
      BY <2>3 DEF Unlocked
    <3> HIDE DEF until
    <3> QED BY <1>0, <2>3, <3>1
  <2> QED BY <2>1, <2>2, <2>3
<1>3. m = [op EXCEPT !.data = issued + 1, !.asked = now, !.until = until]
  BY DEF Made
<1>4. issued + 1 \in Nat
  BY <1>0
<1> HIDE DEF m, until
<1>5. /\ m \in [type : {"get", "head", "list", "put", "put_with_retention", "delete",
                        "extend_retention", "get_retention"},
                key : Keys, class : ObjectClass \cup {"none"},
                mode : {"IfNotExists", "Overwrite", "none"}, until : 0..MaxTime,
                prefix : {m.prefix}, data : Nat, asked : 0..MaxNow]
      /\ m.class = op.class /\ m.asked = now /\ m.until = until
  BY <1>0, <1>1, <1>2, <1>3, <1>4
<1>6. LongEnough(m.class, m.asked, m.until)
  BY <1>2, <1>5 DEF LongEnough
<1> QED BY <1>5, <1>6 DEF MadeOp, m

-----------------------------------------------------------------------------
(* The actions.                                                            *)

\* The clock moves on.
LEMMA TickKeeps ==
  ASSUME ObjectsIndInv, Tick
  PROVE  StepOK
<1>0. VersionsInv /\ CallsInv /\ LateInv /\ CreatorInv /\ issued \in 0..MaxCalls
  BY DEF ObjectsIndInv
<1>1. now' \in 0..MaxNow
  BY <1>0, ObjectsAssumption DEF Tick, VersionsInv
<1>2. KeepsStore /\ CreatorInv' /\ \A k \in Keys : ~Hidden(k)
  BY <1>0, <1>1, StoreStays DEF Tick
<1>3. CallsInv'
  BY <1>0 DEF Tick, CallsInv, CallShape, MadeOp, LongEnough, policy, IsWrite, CreateOnly, IsOverwrite,
              Warned, Request, Op, Occupied, Current
<1>4. LateInv'
  BY <1>0, <1>2, LateStays DEF Tick
<1> QED BY <1>0, <1>2, <1>3, <1>4 DEF ObjectsIndInv, KeepsStore, StepOK, Tick

\* A call that takes the place of another, or of none.
LEMMA CallKeeps ==
  ASSUME ObjectsIndInv, NEW c \in Clients, NEW x, CallShape(x), Warned([op |-> x.op, seen |-> x.seen, mark |-> x.mark]),
         call' = [call EXCEPT ![c] = x], issued' \in 0..MaxCalls,
         UNCHANGED <<backend, config, now, versions, ids, late, creator>>
  PROVE  StepOK
<1>0. VersionsInv /\ CallsInv /\ LateInv /\ CreatorInv /\ now' \in 0..MaxNow
  BY DEF ObjectsIndInv, VersionsInv
<1>1. KeepsStore /\ CreatorInv' /\ \A k \in Keys : ~Hidden(k)
  BY <1>0, StoreStays
<1>2. /\ call = [d \in Clients |-> call[d]]
      /\ \A d \in Clients : call[d] = Idle \/ CallShape(call[d])
      /\ \A d \in Clients : call[d] # Idle => Warned(Request(d))
  BY <1>0 DEF CallsInv
<1>3. /\ call' = [d \in Clients |-> call'[d]]
      /\ \A d \in Clients : call'[d] = IF d = c THEN x ELSE call[d]
  BY <1>2
<1>4. \A d \in Clients : (call[d] = Idle \/ CallShape(call[d]))'
  BY <1>2, <1>3 DEF CallShape, MadeOp, LongEnough, policy, IsWrite, CreateOnly, IsOverwrite, Idle
<1>5. ASSUME NEW d \in Clients, (call[d] # Idle)' PROVE Warned(Request(d))'
  <2>1. CASE d = c
    BY <1>3, <2>1 DEF Warned, Request, Op, IsOverwrite, Occupied, Current
  <2>2. CASE d # c
    BY <1>2, <1>3, <1>5, <2>2 DEF Warned, Request, Op, IsOverwrite, Occupied, Current, Idle
  <2> QED BY <2>1, <2>2
<1>6. CallsInv'
  BY <1>3, <1>4, <1>5 DEF CallsInv
<1>7. LateInv'
  BY <1>0, <1>1, LateStays
<1> QED BY <1>0, <1>1, <1>6, <1>7 DEF ObjectsIndInv, KeepsStore, StepOK

\* A new call.
LEMMA InvokeKeeps ==
  ASSUME ObjectsIndInv, NEW c \in Clients, NEW op \in Calls, Invoke(c, op)
  PROVE  StepOK
<1>0. VersionsInv /\ issued \in 0..MaxCalls /\ ids \in Nat
  BY DEF ObjectsIndInv, VersionsInv
<1>1. MadeOp(Made(op))
  BY <1>0, MadeIsLongEnough DEF Invoke
<1>2. PICK x : x =
        [phase |-> "sent", op |-> Made(op), resends |-> 0, took |-> FALSE, seen |-> 0, mark |-> 0,
         rest |-> IF op.type = "list" THEN Matching(op.prefix) ELSE {}, found |-> {},
         stable |-> IF op.type = "list" THEN {k \in Matching(op.prefix) : Occupied(k)} ELSE {}]
  OBVIOUS
<1>7. call' = [call EXCEPT ![c] = x]
  BY <1>2 DEF Invoke
<1>3. CallShape(x)
  BY <1>1, <1>2 DEF CallShape
<1>4. x.op = Made(op) /\ x.mark = 0
  BY <1>2
<1>5. Warned([op |-> x.op, seen |-> x.seen, mark |-> x.mark])
  <2>1. ASSUME Occupied(x.op.key) PROVE 0 < Current(x.op.key).since
    <3>1. Current(x.op.key) \in VersionRecord
      BY <1>0, <1>1, <1>4, <2>1, CurrentType DEF MadeOp
    <3>2. Current(x.op.key).since \in Nat \ {0}
      BY <3>1 DEF VersionRecord
    <3> QED BY <3>2
  <2> QED BY <1>0, <1>4, <2>1 DEF Warned
<1>6. issued' \in 0..MaxCalls
  BY <1>0, ObjectsAssumption DEF Invoke
<1> QED BY <1>3, <1>5, <1>6, <1>7, CallKeeps DEF Invoke

\* The check of two-request operations has succeeded; an Overwrite found no lock.
LEMMA ProceedKeeps ==
  ASSUME ObjectsIndInv, NEW c \in Clients, NEW seen, Phase(c) = "sent", Proceed(c, seen), IsWrite(Op(c)),
         IsOverwrite(Op(c)) => current_retention(Op(c).key) = Unlocked
  PROVE  StepOK
<1>0. VersionsInv /\ CallsInv /\ issued \in 0..MaxCalls /\ ids \in Nat
  BY DEF ObjectsIndInv, VersionsInv
<1>1. CallShape(call[c])
  BY <1>0 DEF CallsInv, Phase, Idle
<1>2. PICK x : x = [call[c] EXCEPT !.phase = "checked", !.seen = seen, !.mark = ids]
  OBVIOUS
<1>3. call' = [call EXCEPT ![c] = x]
  <2>1. call = [d \in Clients |-> call[d]]
    BY <1>0 DEF CallsInv
  <2> QED BY <1>2, <2>1 DEF Proceed
<1>4. CallShape(x) /\ x.op = Op(c) /\ x.mark = ids
  BY <1>0, <1>1, <1>2 DEF CallShape, Op
<1>5. Warned([op |-> x.op, seen |-> x.seen, mark |-> x.mark])
  BY <1>0, <1>4 DEF Warned, current_retention, NoLock
<1> QED BY <1>0, <1>3, <1>4, <1>5, CallKeeps DEF Proceed

\* The in-memory backend.
LEMMA MemoryPutKeeps ==
  ASSUME ObjectsIndInv, NEW c \in Clients, MemoryPut(c)
  PROVE  StepOK
<1> DEFINE op == Op(c)
           k == op.key
<1>0. VersionsInv /\ CreatorInv /\ CallsInv /\ ids \in Nat /\ backend = "memory" /\ Phase(c) = "sent"
  BY DEF ObjectsIndInv, VersionsInv, MemoryPut
<1>1. MadeOp(op) /\ k \in Keys
  BY <1>0 DEF CallsInv, CallShape, MadeOp, Op, Phase, Idle
<1>2. CASE UNCHANGED store /\ \E result : Answer(c, result)
  BY <1>2, ReplyKeeps DEF Answer
<1>3. CASE ~Occupied(k) /\ Creates(k, <<Version(op)>>, op, TRUE) /\ Answer(c, Done)
  <2>1. PICK u : u = Append(versions[k], Version(op))
    OBVIOUS
  <2>2. u = <<Version(op)>>
    <3>1. versions[k] = <<>>
      BY <1>3 DEF Occupied
    <3>2. PICK v : v = Version(op)
      OBVIOUS
    <3> QED BY <2>1, <3>1, <3>2
  <2>3. KeepsStore /\ CreatorInv' /\ \A q \in Keys : ~Hidden(q)
    <3>1. PICK o : o = op
      OBVIOUS
    <3>2. UNCHANGED <<backend, config, now>>
      BY <1>3 DEF Answer
    <3>3. Creates(k, u, o, TRUE) /\ MadeOp(o) /\ u = Append(versions[k], Version(o))
      BY <1>1, <1>3, <2>1, <2>2, <3>1
    <3> QED BY <1>0, <1>1, <1>3, <3>2, <3>3, CreatesKeeps
  <2> QED BY <1>3, <2>3, AnswerKeeps DEF Answer, StepOK
<1>4. CASE ~reject_if_retained(k) /\ Overwrites(k, <<Version(op)>>) /\ Answer(c, Done)
  <2>1. PICK u : u = <<Version(op)>>
    OBVIOUS
  <2>2. PICK q \in Keys : q = k
    BY <1>1
  <2>3. /\ ids' = ids + 1 /\ versions' = [versions EXCEPT ![q] = u]
        /\ creator' = [creator EXCEPT ![q] = {}] /\ UNCHANGED <<backend, config, now>>
    BY <1>4, <2>1, <2>2 DEF Overwrites, Answer
  <2>4. Respects(versions[q], u) /\ TopStays(versions[q], u)
    BY <1>0, <1>1, <1>4, <2>1, <2>2, <2>3, MemoryRespects
  <2>5. /\ KeepsStore /\ CreatorInv' /\ versions'[q] = u
        /\ \A p \in Keys \ {q} : versions'[p] = versions[p]
    BY <1>0, <2>3, <2>4, ReplacesKeeps
  <2>6. \A p \in Keys : ~Hidden(p)
    <3>1. TopStays(versions[q], versions'[q])
      BY <2>4, <2>5 DEF TopStays
    <3> QED BY <2>5, <3>1, NotHidden
  <2> QED BY <1>4, <2>5, <2>6, AnswerKeeps DEF Answer, StepOK
<1> QED BY <1>2, <1>3, <1>4 DEF MemoryPut, Reply

\* delete of the in-memory backend.
LEMMA MemoryDeleteKeeps ==
  ASSUME ObjectsIndInv, NEW c \in Clients, MemoryDelete(c)
  PROVE  StepOK
<1> DEFINE k == Op(c).key
<1>0. VersionsInv /\ CreatorInv /\ CallsInv /\ ids \in Nat /\ backend = "memory" /\ Phase(c) = "sent"
  BY DEF ObjectsIndInv, VersionsInv, MemoryDelete, Memory, Sent
<1>1. k \in Keys
  BY <1>0 DEF CallsInv, CallShape, MadeOp, Op, Phase, Idle
<1>2. CASE UNCHANGED store /\ \E result : Answer(c, result)
  BY <1>2, ReplyKeeps DEF Answer
<1>3. CASE ~reject_if_retained(k) /\ Deletes(k, <<>>) /\ Answer(c, Done)
  <2>2. PICK q \in Keys : q = k
    BY <1>1
  <2>3. /\ ids' = ids + 1 /\ versions' = [versions EXCEPT ![q] = <<>>]
        /\ creator' = [creator EXCEPT ![q] = {}] /\ UNCHANGED <<backend, config, now>>
    BY <1>3, <2>2 DEF Deletes, TopRemains, Answer
  <2>4. Respects(versions[q], <<>>) /\ TopStays(versions[q], <<>>)
    BY <1>0, <1>1, <1>3, <2>2, <2>3, MemoryRespects
  <2>5. /\ KeepsStore /\ CreatorInv' /\ versions'[q] = <<>>
        /\ \A p \in Keys \ {q} : versions'[p] = versions[p]
    BY <1>0, <2>3, <2>4, ReplacesKeeps
  <2>6. \A p \in Keys : ~Hidden(p)
    <3>1. TopStays(versions[q], versions'[q])
      BY <2>4, <2>5 DEF TopStays
    <3> QED BY <2>5, <3>1, NotHidden
  <2> QED BY <1>3, <2>5, <2>6, AnswerKeeps DEF Answer, StepOK
<1> QED BY <1>2, <1>3 DEF MemoryDelete, Reply

\* extend_retention of the in-memory backend, forward only.
LEMMA MemoryExtendKeeps ==
  ASSUME ObjectsIndInv, NEW c \in Clients, MemoryExtendRetention(c)
  PROVE  StepOK
<1> DEFINE k == Op(c).key
           until == Op(c).until
<1>0. VersionsInv /\ CreatorInv /\ CallsInv /\ Phase(c) = "sent"
  BY DEF ObjectsIndInv, MemoryExtendRetention, Memory, Sent
<1>1. k \in Keys /\ until \in 0..MaxTime
  BY <1>0 DEF CallsInv, CallShape, MadeOp, Op, Phase, Idle
<1>2. CASE UNCHANGED store /\ \E result : Answer(c, result)
  BY <1>2, ReplyKeeps DEF Answer
<1>3. CASE /\ ~NoLock(k) /\ Forward(until, Current(k).retain_until)
           /\ Relocks(k, until) /\ Answer(c, Done)
  <2>1. PICK q \in Keys : q = k
    BY <1>1
  <2>2. PICK w \in 0..MaxTime : w = until
    BY <1>1
  <2>3. Occupied(q) /\ w > Current(q).retain_until /\ Relocks(q, w) /\ UNCHANGED <<backend, config, now>>
    BY <1>3, <2>1, <2>2 DEF NoLock, Forward, Answer
  <2>4. w >= Current(q).retain_until
    <3>1. Current(q) \in VersionRecord
      BY <1>0, <2>3, CurrentType
    <3>2. \A v \in VersionRecord : v.retain_until \in 0..MaxTime
      BY DEF VersionRecord
    <3>3. Current(q).retain_until \in Int /\ w \in Int
      BY <3>1, <3>2, Dates, Zenon
    <3> QED BY <2>3, <3>3, TotalOrder, Zenon
  <2>5. KeepsStore /\ CreatorInv' /\ \A p \in Keys : ~Hidden(p)
    BY <1>0, <2>3, <2>4, RelocksKeeps
  <2> QED BY <1>3, <2>5, AnswerKeeps DEF Answer, StepOK
<1> QED BY <1>2, <1>3 DEF MemoryExtendRetention, Reply

\* Actions that read, on both backends.
LEMMA ReadsKeep ==
  ASSUME ObjectsIndInv, NEW c \in Clients,
         \/ MemoryGet(c) \/ MemoryHead(c) \/ MemoryList(c) \/ MemoryGetRetention(c)
         \/ GetObject(c) \/ HeadObject(c) \/ GetObjectRetention(c) \/ ListEnd(c) \/ RefuseWrite(c)
         \/ \E err : ServiceRefuses(c, err)
  PROVE  StepOK
<1>1. UNCHANGED store /\ \E result : Answer(c, result)
  BY DEF MemoryGet, MemoryHead, MemoryList, MemoryGetRetention, GetObject, HeadObject,
         GetObjectRetention, ListEnd, RefuseWrite, ServiceRefuses, Reply
<1> QED BY <1>1, ReplyKeeps DEF Answer

\* The S3 backend: a page of a listing.
LEMMA ListPageKeeps ==
  ASSUME ObjectsIndInv, NEW c \in Clients, NEW k \in Keys, ListPage(c, k)
  PROVE  StepOK
<1>0. CallsInv /\ Phase(c) = "sent"
  BY DEF ObjectsIndInv, ListPage, S3, Sent
<1>1. call[c] # Idle /\ CallShape(call[c]) /\ call = [d \in Clients |-> call[d]]
  BY <1>0 DEF CallsInv, Phase, Idle
<1>2. PICK f : f = call[c].found \cup (IF Occupied(k) THEN {k} ELSE {})
  OBVIOUS
<1>3. PICK x : x = [call[c] EXCEPT !.rest = @ \ {k}, !.found = f]
  OBVIOUS
<1>4. call' = [call EXCEPT ![c] = x]
  BY <1>1, <1>2, <1>3 DEF ListPage
<1>5. x.op = call[c].op /\ x.mark = call[c].mark /\ CallShape(x)
  BY <1>1, <1>3 DEF CallShape
<1>6. ContinuesAs(x, call[c])
  BY <1>1, <1>5 DEF ContinuesAs
<1> QED BY <1>4, <1>6, ProgressKeeps DEF ListPage

\* The first of two requests, which changes nothing in the bucket.
LEMMA ChecksKeep ==
  ASSUME ObjectsIndInv, NEW c \in Clients,
         CheckOverwrite(c) \/ ResolveVersion(c) \/ CheckExtension(c)
  PROVE  StepOK
<1>1. CASE UNCHANGED store /\ \E result : Answer(c, result)
  BY <1>1, ReplyKeeps DEF Answer
<1>2. CASE CheckOverwrite(c) /\ current_retention(Op(c).key) = Unlocked /\ Proceed(c, 0)
  BY <1>2, ProceedKeeps DEF CheckOverwrite, IsWrite
<1>3. CASE ResolveVersion(c) /\ Proceed(c, Current(Op(c).key).id)
  <2>1. Phase(c) = "sent" /\ IsWrite(Op(c)) /\ ~IsOverwrite(Op(c))
    BY <1>3 DEF ResolveVersion, S3, Sent, IsWrite, IsOverwrite
  <2>2. PICK seen : Proceed(c, seen)
    BY <1>3
  <2> QED BY <2>1, <2>2, ProceedKeeps
<1>4. CASE CheckExtension(c) /\ Proceed(c, current_retention(Op(c).key))
  <2>1. Phase(c) = "sent" /\ IsWrite(Op(c)) /\ ~IsOverwrite(Op(c))
    BY <1>4 DEF CheckExtension, S3, Sent, IsWrite, IsOverwrite
  <2>2. PICK seen : Proceed(c, seen)
    BY <1>4
  <2> QED BY <2>1, <2>2, ProceedKeeps
<1> QED BY <1>1, <1>2, <1>3, <1>4 DEF CheckOverwrite, ResolveVersion, CheckExtension, Reply

\* The SDK sends a write request again.
LEMMA ResendKeeps ==
  ASSUME ObjectsIndInv, NEW c \in Clients, Resend(c)
  PROVE  StepOK
<1>0. CallsInv /\ Phase(c) = "lost"
  BY DEF ObjectsIndInv, Resend
<1>1. call[c] # Idle /\ CallShape(call[c]) /\ call = [d \in Clients |-> call[d]]
  BY <1>0 DEF CallsInv, Phase, Idle
<1>2. PICK p : p = IF CreateOnly(Op(c)) THEN "sent" ELSE "checked"
  OBVIOUS
<1>3. PICK x : x = [call[c] EXCEPT !.phase = p, !.resends = @ + 1]
  OBVIOUS
<1>4. call' = [call EXCEPT ![c] = x]
  BY <1>1, <1>2, <1>3 DEF Resend
<1>5. p \in {"sent", "checked"} /\ IsWrite(call[c].op)
  BY <1>0, <1>1, <1>2 DEF CallShape, Phase
<1>6. x.op = call[c].op /\ x.mark = call[c].mark /\ CallShape(x)
  BY <1>1, <1>3, <1>5 DEF CallShape
<1>7. ContinuesAs(x, call[c])
  BY <1>1, <1>6 DEF ContinuesAs
<1> QED BY <1>4, <1>7, ProgressKeeps DEF Resend

\* A locked version is hidden by an Overwrite that looked too early.
HidesAllowed ==
  \A k \in Keys : Hidden(k) =>
    \E r \in {Request(c) : c \in {d \in Clients : Phase(d) = "checked"}} \cup late :
      IsOverwrite(r.op) /\ r.op.key = k /\ r.mark < Current(k).since

\* What every step shows.
StepSafe == ObjectsIndInv' /\ KeepsStore /\ HidesAllowed

\* The version an Overwrite hides is younger than what it looked at.
LEMMA HiddenIsYounger ==
  ASSUME VersionsInv, NEW r, Warned(r), IsOverwrite(r.op), r.op.key \in Keys, Hidden(r.op.key)
  PROVE  r.mark < Current(r.op.key).since
<1>1. Occupied(r.op.key) /\ now < Current(r.op.key).retain_until /\ now \in 0..MaxNow
  BY DEF Hidden, IsLocked, VersionsInv
<1>2. Current(r.op.key).retain_until \in Int
  <2>1. Current(r.op.key) \in VersionRecord
    BY <1>1, CurrentType
  <2>2. \A v \in VersionRecord : v.retain_until \in 0..MaxTime
    BY DEF VersionRecord
  <2> QED BY <2>1, <2>2, Dates, Zenon
<1>3. \A i \in 0..MaxNow : \A j \in Int : i < j => j # 0
  BY ObjectsAssumption
<1>4. Current(r.op.key).retain_until # Unlocked
  BY <1>1, <1>2, <1>3 DEF Unlocked
<1> QED BY <1>1, <1>4 DEF Warned

\* The request a client is about to send.
LEMMA RequestType ==
  ASSUME CallsInv, NEW c \in Clients, Writing(c)
  PROVE  /\ backend = "s3" /\ call[c] # Idle /\ CallShape(call[c])
         /\ MadeOp(Request(c).op) /\ IsWrite(Request(c).op) /\ Warned(Request(c))
         /\ IsOverwrite(Request(c).op) => Phase(c) = "checked"
<1>1. call[c] # Idle /\ CallShape(call[c]) /\ Warned(Request(c)) /\ backend = "s3"
  BY DEF CallsInv, Writing, Phase, Idle
<1>2. Request(c).op = call[c].op
  BY DEF Request, Op
<1>3. CreateOnly(call[c].op) => ~IsOverwrite(call[c].op)
  BY DEF CreateOnly, IsOverwrite
<1>4. Phase(c) = "checked" \/ CreateOnly(call[c].op)
  BY DEF Writing, Op
<1>5. IsWrite(call[c].op)
  BY <1>1, <1>4 DEF CallShape, IsWrite, Phase
<1> QED BY <1>1, <1>2, <1>3, <1>4, <1>5 DEF CallShape

\* A write request of a client is executed.
LEMMA WriteKeeps ==
  ASSUME ObjectsIndInv, NEW c \in Clients, Writing(c), Refuses(Request(c)) = "",
         NEW told \in BOOLEAN, Executes(Request(c), told), UNCHANGED <<backend, config, now>>
  PROVE  KeepsStore /\ CreatorInv' /\ HidesAllowed
<1>0. VersionsInv /\ CreatorInv /\ CallsInv
  BY DEF ObjectsIndInv
<1>1. /\ backend = "s3" /\ MadeOp(Request(c).op) /\ IsWrite(Request(c).op) /\ Warned(Request(c))
      /\ IsOverwrite(Request(c).op) => Phase(c) = "checked"
  BY <1>0, RequestType
<1>2. PICK r : r = Request(c)
  OBVIOUS
<1>3. /\ KeepsStore /\ CreatorInv'
      /\ \A q \in Keys : Hidden(q) => IsOverwrite(r.op) /\ r.op.key = q
  BY <1>0, <1>1, <1>2, ExecutesKeeps
<1>4. HidesAllowed
  <2> SUFFICES ASSUME NEW q \in Keys, Hidden(q)
               PROVE  \E s \in {Request(d) : d \in {e \in Clients : Phase(e) = "checked"}} \cup late :
                        IsOverwrite(s.op) /\ s.op.key = q /\ s.mark < Current(q).since
    BY DEF HidesAllowed
  <2>1. IsOverwrite(r.op) /\ r.op.key = q
    BY <1>3
  <2>2. r.mark < Current(q).since
    BY <1>0, <1>1, <1>2, <2>1, HiddenIsYounger
  <2>3. r \in {Request(d) : d \in {e \in Clients : Phase(e) = "checked"}}
    BY <1>1, <1>2, <2>1
  <2> QED BY <2>1, <2>2, <2>3
<1> QED BY <1>3, <1>4

\* The write succeeds, and the caller is told.
LEMMA ExecuteWriteKeeps ==
  ASSUME ObjectsIndInv, NEW c \in Clients, ExecuteWrite(c)
  PROVE  StepSafe
<1>1. KeepsStore /\ CreatorInv' /\ HidesAllowed
  BY WriteKeeps DEF ExecuteWrite, Answer
<1> QED BY <1>1, AnswerKeeps DEF ExecuteWrite, Answer, StepSafe

\* The write succeeds, and the caller is not told.
LEMMA LoseReplyKeeps ==
  ASSUME ObjectsIndInv, NEW c \in Clients, LoseReply(c)
  PROVE  StepSafe
<1>0. VersionsInv /\ CallsInv /\ LateInv /\ issued \in 0..MaxCalls
  BY DEF ObjectsIndInv
<1>1. KeepsStore /\ CreatorInv' /\ HidesAllowed
  BY WriteKeeps DEF LoseReply
<1>2. call[c] # Idle /\ CallShape(call[c]) /\ IsWrite(Request(c).op)
  BY <1>0, RequestType DEF LoseReply
<1>3. PICK x : x = [call[c] EXCEPT !.phase = "lost", !.took = TRUE]
  OBVIOUS
<1>4. x.op = call[c].op /\ x.mark = call[c].mark /\ CallShape(x)
  BY <1>2, <1>3 DEF CallShape, Request, Op
<1>5. PICK X : X = [call EXCEPT ![c] = x]
  OBVIOUS
<1>6. PICK T : T = versions'
  OBVIOUS
<1>7. call' = Seeing(X, T)
  <2>1. call = [d \in Clients |-> call[d]]
    BY <1>0 DEF CallsInv
  <2>2. [call EXCEPT ![c].phase = "lost", ![c].took = TRUE] = X
    BY <1>3, <1>5, <2>1
  <2> QED BY <1>6, <2>2 DEF LoseReply
<1>8. X = [d \in Clients |-> X[d]] /\ \A d \in Clients : ContinuesAs(X[d], call[d])
  <2>1. ContinuesAs(x, call[c])
    BY <1>2, <1>4 DEF ContinuesAs
  <2> QED BY ZenonT(40), <1>0, <1>5, <2>1, OthersContinue
<1>9. call' = [d \in Clients |-> call'[d]] /\ \A d \in Clients : Continues(d)
  BY <1>7, <1>8, SeeingContinues DEF LoseReply
<1>10. CallsInv'
  BY <1>0, <1>1, <1>9, CallsStay
<1>11. LateInv'
  BY <1>0, <1>1, LateStays DEF LoseReply
<1> QED BY <1>0, <1>1, <1>10, <1>11 DEF ObjectsIndInv, KeepsStore, StepSafe, LoseReply

\* A caller gives up; its request may still be on its way.
LEMMA GiveUpKeeps ==
  ASSUME ObjectsIndInv, NEW c \in Clients, NEW err \in Unknowns, GiveUp(c, err)
  PROVE  StepOK
<1>0. VersionsInv /\ CallsInv /\ LateInv /\ CreatorInv /\ issued \in 0..MaxCalls /\ now' \in 0..MaxNow
  BY DEF ObjectsIndInv, VersionsInv, GiveUp
<1>1. KeepsStore /\ CreatorInv' /\ \A k \in Keys : ~Hidden(k)
  BY <1>0, StoreStays DEF GiveUp
<1>2. call' = [d \in Clients |-> call'[d]] /\ \A d \in Clients : call'[d] = IF d = c THEN Idle ELSE call[d]
  BY <1>0 DEF GiveUp, CallsInv
<1>3. \A d \in Clients : Continues(d)
  <2>1. ASSUME NEW d \in Clients, d # c PROVE Continues(d)
    <3>1. call'[d] = call[d] /\ (call[d] = Idle \/ CallShape(call[d]))
      BY <1>0, <1>2, <2>1 DEF CallsInv
    <3>2. CallShape(call[d]) => CallShape(call[d])'
      BY <3>1 DEF GiveUp, CallShape, MadeOp, LongEnough, policy, IsWrite, CreateOnly, IsOverwrite
    <3> QED BY <3>1, <3>2 DEF Continues, Idle
  <2> QED BY <1>2, <2>1 DEF Continues
<1>4. CallsInv'
  BY <1>0, <1>1, <1>2, <1>3, CallsStay
<1>5. LateInv'
  <2>1. CASE late' = late
    BY <1>0, <1>1, <2>1, LateStays DEF GiveUp
  <2>2. CASE Writing(c) /\ late' = late \cup {Request(c)}
    <3>1. PICK r : r = Request(c)
      OBVIOUS
    <3>2. backend = "s3" /\ MadeOp(r.op) /\ IsWrite(r.op) /\ Warned(r)
      BY <1>0, <2>2, <3>1, RequestType
    <3>3. r = [op |-> r.op, seen |-> r.seen, mark |-> r.mark]
      BY <3>1 DEF Request
    <3>4. ASSUME NEW s \in late'
          PROVE  s = [op |-> s.op, seen |-> s.seen, mark |-> s.mark] /\ MadeOp(s.op) /\ IsWrite(s.op) /\ Warned(s)
      BY <1>0, <2>2, <3>1, <3>2, <3>3 DEF LateInv
    <3>5. ASSUME NEW s, MadeOp(s.op), Warned(s) PROVE MadeOp(s.op)' /\ Warned(s)'
      BY <3>5 DEF GiveUp, MadeOp, LongEnough, policy, Warned, IsOverwrite, Occupied, Current
    <3> QED BY <3>2, <3>4, <3>5 DEF LateInv, GiveUp, IsWrite, CreateOnly, IsOverwrite
  <2> QED BY <2>1, <2>2 DEF GiveUp
<1> QED BY <1>0, <1>1, <1>4, <1>5 DEF ObjectsIndInv, KeepsStore, StepOK, GiveUp

\* A request whose caller is gone is refused or executed.
LEMMA LateWriteKeeps ==
  ASSUME ObjectsIndInv, NEW r \in late, LateWrite(r)
  PROVE  StepSafe
<1>0. VersionsInv /\ CallsInv /\ LateInv /\ CreatorInv /\ issued \in 0..MaxCalls /\ now' \in 0..MaxNow
  BY DEF ObjectsIndInv, VersionsInv, LateWrite
<1>1. backend = "s3" /\ MadeOp(r.op) /\ IsWrite(r.op) /\ Warned(r)
  BY <1>0 DEF LateInv
<1>2. KeepsStore /\ CreatorInv' /\ \A q \in Keys : Hidden(q) => IsOverwrite(r.op) /\ r.op.key = q
  <2>1. CASE UNCHANGED store
    BY <1>0, <2>1, StoreStays DEF LateWrite, store
  <2>2. CASE Refuses(r) = "" /\ Executes(r, FALSE)
    BY <1>0, <1>1, <2>2, ExecutesKeeps DEF LateWrite
  <2> QED BY <2>1, <2>2 DEF LateWrite
<1>3. HidesAllowed
  <2> SUFFICES ASSUME NEW q \in Keys, Hidden(q)
               PROVE  IsOverwrite(r.op) /\ r.op.key = q /\ r.mark < Current(q).since
    BY DEF HidesAllowed
  <2> QED BY <1>0, <1>1, <1>2, HiddenIsYounger
<1>4. PICK X : X = call
  OBVIOUS
<1>5. PICK T : T = versions'
  OBVIOUS
<1>6. X = [d \in Clients |-> X[d]] /\ \A d \in Clients : ContinuesAs(X[d], call[d])
  BY <1>0, <1>4 DEF CallsInv, ContinuesAs
<1>7. call' = [d \in Clients |-> call'[d]] /\ \A d \in Clients : Continues(d)
  <2>1. call' = Seeing(X, T)
    BY <1>4, <1>5 DEF LateWrite
  <2> QED BY <1>6, <2>1, SeeingContinues DEF LateWrite
<1>8. CallsInv'
  BY <1>0, <1>2, <1>7, CallsStay
<1>9. LateInv'
  <2>1. late' \subseteq late /\ UNCHANGED <<backend, config>>
    BY DEF LateWrite
  <2> QED BY <1>0, <1>2, <2>1, LateStays
<1> QED BY <1>0, <1>2, <1>3, <1>8, <1>9 DEF ObjectsIndInv, KeepsStore, StepSafe, LateWrite

\* One lemma per action of Next.
LEMMA NextKeeps ==
  ASSUME ObjectsIndInv, Next
  PROVE  StepSafe
<1>0. ASSUME StepOK PROVE StepSafe
  BY <1>0 DEF StepOK, StepSafe, HidesAllowed
<1>1. CASE Tick
  BY <1>0, <1>1, TickKeeps
<1>2. CASE \E r \in late : LateWrite(r)
  BY <1>2, LateWriteKeeps
<1>3. ASSUME NEW c \in Clients, \E op \in Calls : Invoke(c, op) PROVE StepSafe
  BY <1>0, <1>3, InvokeKeeps
<1>4. ASSUME NEW c \in Clients,
             \/ MemoryPut(c) \/ MemoryDelete(c) \/ MemoryExtendRetention(c) \/ ExecuteWrite(c)
             \/ LoseReply(c) \/ Resend(c)
      PROVE  StepSafe
  BY <1>0, <1>4, MemoryPutKeeps, MemoryDeleteKeeps, MemoryExtendKeeps, ExecuteWriteKeeps,
     LoseReplyKeeps, ResendKeeps
<1>5. ASSUME NEW c \in Clients,
             \/ MemoryGet(c) \/ MemoryHead(c) \/ MemoryList(c) \/ MemoryGetRetention(c)
             \/ GetObject(c) \/ HeadObject(c) \/ GetObjectRetention(c) \/ ListEnd(c) \/ RefuseWrite(c)
      PROVE  StepSafe
  BY <1>0, <1>5, ReadsKeep
<1>6. ASSUME NEW c \in Clients, \E k \in Keys : ListPage(c, k) PROVE StepSafe
  BY <1>0, <1>6, ListPageKeeps
<1>7. ASSUME NEW c \in Clients, CheckOverwrite(c) \/ ResolveVersion(c) \/ CheckExtension(c)
      PROVE  StepSafe
  BY <1>0, <1>7, ChecksKeep
<1>8. ASSUME NEW c \in Clients, \E err \in Unknowns : GiveUp(c, err) PROVE StepSafe
  BY <1>0, <1>8, GiveUpKeeps
<1>9. ASSUME NEW c \in Clients, \E err : ServiceRefuses(c, err) PROVE StepSafe
  BY <1>0, <1>9, ReadsKeep
<1>10. ASSUME Step PROVE StepSafe
  BY <1>1, <1>2, <1>3, <1>4, <1>5, <1>6, <1>7, <1>8, <1>10 DEF Step
<1> QED BY <1>9, <1>10 DEF Next

\* Nothing changes.
LEMMA StutterKeeps ==
  ASSUME ObjectsIndInv, UNCHANGED vars
  PROVE  ObjectsIndInv'
<1>0. VersionsInv /\ CallsInv /\ LateInv /\ CreatorInv /\ issued \in 0..MaxCalls /\ now' \in 0..MaxNow
  BY DEF ObjectsIndInv, VersionsInv, vars
<1>1. KeepsStore /\ CreatorInv'
  BY <1>0, StoreStays DEF vars
<1>2. LateInv'
  BY <1>0, <1>1, LateStays DEF vars
<1>3. CallsInv'
  BY SMTT(30), <1>0
  DEF vars, CallsInv, CallShape, MadeOp, LongEnough, policy, IsWrite, CreateOnly, IsOverwrite,
      Warned, Request, Op, Occupied, Current
<1> QED BY <1>0, <1>1, <1>2, <1>3 DEF ObjectsIndInv, KeepsStore, vars

\* The empty store.
LEMMA InitKeeps ==
  ASSUME Init
  PROVE  ObjectsIndInv
<1>0. MaxNow \in Nat /\ MaxCalls \in Nat
  BY ObjectsAssumption
<1>1. VersionsInv
  BY <1>0 DEF Init, VersionsInv, TableInv
<1>2. CreatorInv
  BY DEF Init, CreatorInv, CreatorKeepsKey
<1>3. CallsInv
  BY DEF Init, CallsInv
<1>4. LateInv
  BY DEF Init, LateInv
<1>5. issued \in 0..MaxCalls
  BY <1>0 DEF Init
<1> QED BY <1>1, <1>2, <1>3, <1>4, <1>5 DEF ObjectsIndInv

\* The inductive invariant of the two object stores holds: versions with their
\* dates and ids, and what every request under way has looked at.
THEOREM ObjectsInvariant == Spec => []ObjectsIndInv
<1>1. Init => ObjectsIndInv
  BY InitKeeps
<1>2. ObjectsIndInv /\ [Next]_vars => ObjectsIndInv'
  BY NextKeeps, StutterKeeps DEF StepSafe
<1> QED BY <1>1, <1>2, PTL DEF Spec

\* The objects are well-formed, one per key in memory and one per version id on
\* S3, and a key belongs to the one creator that was told Ok (put IfNotExists and
\* put_with_retention, repeated and late requests included).
THEOREM StoreSafe == Spec => []StoreInv
<1>1. ObjectsIndInv => StoreInv
  <2> SUFFICES ASSUME ObjectsIndInv PROVE TypeOK /\ CreatorKeepsKey
    BY DEF StoreInv
  <2>1. VersionsInv /\ CallsInv /\ CreatorInv /\ issued \in 0..MaxCalls
    BY DEF ObjectsIndInv
  <2>2. ASSUME NEW k \in Keys
        PROVE  /\ backend = "memory" => Len(versions[k]) <= 1
               /\ \A i, j \in DOMAIN versions[k] : versions[k][i].id = versions[k][j].id => i = j
               /\ \A i \in DOMAIN versions[k] : versions[k][i].retain_until \in 0..MaxTime
    <3>1. TableInv(versions[k], ids)
      BY <2>1 DEF VersionsInv
    <3>2. DOMAIN versions[k] = 1..Len(versions[k])
          /\ \A i \in 1..Len(versions[k]) : versions[k][i] \in VersionRecord
      BY <3>1 DEF TableInv
    <3> QED BY <3>1, <3>2 DEF TableInv, VersionRecord
  <2>3. \A c \in Clients : Phase(c) \in {"idle", "sent", "checked", "lost"}
    BY <2>1 DEF CallsInv, CallShape, Phase, Idle
  <2>4. TypeOK
    BY <2>1, <2>2, <2>3 DEF TypeOK, VersionsInv
  <2> QED BY <2>1, <2>4 DEF CreatorInv
<1> QED BY <1>1, ObjectsInvariant, PTL

\* Retention holds: a locked version survives every step with its bytes and no
\* earlier date, no retained object goes before the configured window is over, and
\* a pruning checkpoint never does (retain_until, put_with_retention, delete and
\* extend_retention of both backends).
THEOREM RetentionHolds == Spec => RetentionKept
<1> DEFINE Honoured == \A k \in Keys : \A i \in DOMAIN versions[k] :
             LET v == versions[k][i]
             IN  IsLocked(v) => \E w \in Seqs!ToSet(versions'[k]) :
                   w.id = v.id /\ w.data = v.data /\ w.retain_until >= v.retain_until
           AsConfigured == \A k \in Keys : \A i \in DOMAIN versions[k] :
             LET v == versions[k][i]
             IN  v.class \in ObjectClass /\ v.id \notin {w.id : w \in Seqs!ToSet(versions'[k])}
                   => v.class # "PruningCheckpoint" /\ now >= v.asked + policy.value
<1>1. ASSUME ObjectsIndInv, Next PROVE Honoured /\ AsConfigured
  <2>1. VersionsInv /\ VersionsInv' /\ KeepsStore
    BY <1>1, NextKeeps DEF ObjectsIndInv, StepSafe
  <2>2. ASSUME NEW k \in Keys, NEW i \in DOMAIN versions[k]
        PROVE  /\ IsLocked(versions[k][i]) => \E w \in Seqs!ToSet(versions'[k]) :
                    /\ w.id = versions[k][i].id /\ w.data = versions[k][i].data
                    /\ w.retain_until >= versions[k][i].retain_until
               /\ i \in 1..Len(versions[k]) /\ TableInv(versions[k], ids)
    <3>1. /\ TableInv(versions[k], ids) /\ Kept(versions[k], versions'[k])
          /\ versions'[k] \in Seq(VersionRecord)
      BY <2>1 DEF VersionsInv, KeepsStore, TableInv
    <3>2. i \in 1..Len(versions[k])
      BY <2>2, <3>1 DEF TableInv
    <3>3. \A j \in 1..Len(versions'[k]) : versions'[k][j] \in Seqs!ToSet(versions'[k])
      BY <3>1 DEF Seqs!ToSet
    <3> QED BY <3>1, <3>2, <3>3 DEF Kept
  <2>3. Honoured
    BY <2>2
  <2>4. ASSUME NEW k \in Keys, NEW i \in DOMAIN versions[k], NEW v, v = versions[k][i],
               v.class \in ObjectClass, v.id \notin {w.id : w \in Seqs!ToSet(versions'[k])}
        PROVE  v.class # "PruningCheckpoint" /\ now >= v.asked + policy.value
    <3>1. ~IsLocked(v)
      BY <2>2, <2>4
    <3>2. v \in VersionRecord /\ LongEnough(v.class, v.asked, v.retain_until)
      BY <2>2, <2>4 DEF TableInv
    <3>3. /\ policy.value \in Nat
          /\ v.class = "PruningCheckpoint" => v.retain_until >= Indefinite
          /\ v.class # "PruningCheckpoint" => v.retain_until >= v.asked + policy.value
      BY <2>4, <3>2 DEF LongEnough
    <3>4. /\ now \in 0..MaxNow /\ MaxNow \in Nat /\ MaxNow < Indefinite
          /\ Indefinite \in 0..MaxTime /\ MaxTime \in Nat
      BY <2>1, ObjectsAssumption, RetentionAssumption DEF VersionsInv
    <3>5. v.retain_until \in 0..MaxTime /\ v.asked \in 0..MaxNow
      BY <3>2 DEF VersionRecord
    <3>6. PICK d \in Nat : d = policy.value
      BY <3>3
    <3>7. ~(now < v.retain_until)
      BY <3>1 DEF IsLocked
    <3>8. now >= v.retain_until /\ v.class # "PruningCheckpoint"
      BY <3>3, <3>4, <3>5, <3>7
    <3>9. now >= v.asked + d
      BY <3>3, <3>4, <3>5, <3>6, <3>8
    <3> QED BY <3>6, <3>8, <3>9
  <2>5. AsConfigured
    BY <2>4
  <2> QED BY <2>3, <2>5
<1>2. ObjectsIndInv /\ [Next]_vars => [Honoured]_vars /\ [AsConfigured]_vars
  BY <1>1
<1>3. Spec => [][Honoured]_vars /\ [][AsConfigured]_vars
  BY <1>2, ObjectsInvariant, PTL DEF Spec
<1> QED BY <1>3 DEF RetentionKept, RetentionHonoured, RetainedAsConfigured

\* Readers keep getting a locked version, unless an Overwrite whose check came
\* before the lock writes on top of it (the two requests of put on S3).
THEOREM LockedStaysCurrent == Spec => HiddenOnlyByEarlierOverwrite
<1>1. ObjectsIndInv /\ [Next]_vars => [HidesAllowed]_vars
  BY NextKeeps DEF StepSafe
<1>2. Spec => [][HidesAllowed]_vars
  BY <1>1, ObjectsInvariant, PTL DEF Spec
<1> QED BY <1>2 DEF HiddenOnlyByEarlierOverwrite, HidesAllowed

-----------------------------------------------------------------------------
(* What callers are told.                                                  *)

\* A key that a listing counts on is occupied, matches, and has been found or
\* is yet to be read.
Covered(x) ==
  x.op.type = "list" =>
    \A k \in x.stable : /\ k \in Matching(x.op.prefix) /\ Occupied(k)
                        /\ k \in x.rest \/ k \in x.found

ListInv == \A c \in Clients : call[c] # Idle => Covered(call[c])

\* The error says what happened to the call of c.
TrueError(c, error) ==
  /\ error = AlreadyExists =>
       CreateOnly(Op(c)) /\ (Occupied(Op(c).key) \/ (refused' /\ Contended(c)))
  /\ error = NotFound => IF Op(c).type \in {"extend_retention", "get_retention"}
                         THEN NoLock(Op(c).key) ELSE ~Occupied(Op(c).key)
  /\ error = RetentionViolation =>
       \/ Op(c).type = "extend_retention" /\ Op(c).until <= now
       \/ \E v \in Seqs!ToSet(versions[Op(c).key]) : v.retain_until # Unlocked
       \/ refused' /\ Phase(c) = "checked"
  /\ error = Transport(FALSE) =>
       refused' \/ (Op(c).type = "put_with_retention" /\ Op(c).until <= now)

TrueListing(c, result) ==
  Phase(c) = "sent" /\ Op(c).type = "list" /\ result.type = "Ok" => call[c].stable \subseteq result.list

\* Every call that the step ends is told the truth.
ToldTruth ==
  \A c \in Clients : Phase(c) # "idle" /\ Phase(c)' = "idle" =>
    TrueError(c, answer') /\ TrueListing(c, answer')

Truthful == ToldTruth /\ ListInv'

\* What a truthful answer is, case by case.
LEMMA ErrorsApart ==
  ASSUME NEW c, NEW r,
         \/ r.type = "Ok"
         \/ r = AlreadyExists /\ CreateOnly(Op(c)) /\ Occupied(Op(c).key)
         \/ /\ r = NotFound
            /\ IF Op(c).type \in {"extend_retention", "get_retention"}
               THEN NoLock(Op(c).key) ELSE ~Occupied(Op(c).key)
         \/ /\ r = RetentionViolation
            /\ \/ Op(c).type = "extend_retention" /\ Op(c).until <= now
               \/ \E v \in Seqs!ToSet(versions[Op(c).key]) : v.retain_until # Unlocked
         \/ r = Transport(FALSE) /\ Op(c).type = "put_with_retention" /\ Op(c).until <= now
         \/ r = Transport(TRUE)
         \/ refused' /\ r = AlreadyExists /\ CreateOnly(Op(c)) /\ Contended(c)
         \/ refused' /\ r = RetentionViolation /\ Phase(c) = "checked"
         \/ refused' /\ r = Transport(FALSE)
  PROVE  TrueError(c, r)
<1>1. /\ AlreadyExists.type = "AlreadyExists" /\ NotFound.type = "NotFound"
      /\ RetentionViolation.type = "RetentionViolation"
      /\ Transport(FALSE).type = "Transport" /\ Transport(TRUE).type = "Transport"
  BY DEF AlreadyExists, NotFound, RetentionViolation, Transport
<1>2. Transport(TRUE) # Transport(FALSE)
  <2>1. Transport(TRUE).retryable = TRUE /\ Transport(FALSE).retryable = FALSE
    BY DEF Transport
  <2> QED BY <2>1
<1> HIDE DEF AlreadyExists, NotFound, RetentionViolation, Transport
<1>3. CASE r.type = "Ok"
  BY <1>1, <1>3 DEF TrueError
<1>4. CASE r = AlreadyExists /\ CreateOnly(Op(c)) /\ Occupied(Op(c).key)
  BY <1>1, <1>4 DEF TrueError
<1>5. CASE /\ r = NotFound
           /\ IF Op(c).type \in {"extend_retention", "get_retention"}
              THEN NoLock(Op(c).key) ELSE ~Occupied(Op(c).key)
  BY <1>1, <1>5 DEF TrueError
<1>6. CASE /\ r = RetentionViolation
           /\ \/ Op(c).type = "extend_retention" /\ Op(c).until <= now
              \/ \E v \in Seqs!ToSet(versions[Op(c).key]) : v.retain_until # Unlocked
  <2>1. r # AlreadyExists /\ r # NotFound /\ r # Transport(FALSE)
    BY <1>1, <1>6
  <2> QED BY <1>6, <2>1, Zenon DEF TrueError
<1>7. CASE r = Transport(FALSE) /\ Op(c).type = "put_with_retention" /\ Op(c).until <= now
  <2>1. r # AlreadyExists /\ r # NotFound /\ r # RetentionViolation
    BY <1>1, <1>7
  <2> QED BY <1>7, <2>1, Zenon DEF TrueError
<1>8. CASE r = Transport(TRUE)
  <2>1. r # AlreadyExists /\ r # NotFound /\ r # RetentionViolation /\ r # Transport(FALSE)
    BY <1>1, <1>2, <1>8
  <2> QED BY <2>1, Zenon DEF TrueError
<1>9. CASE refused' /\ r = AlreadyExists /\ CreateOnly(Op(c)) /\ Contended(c)
  <2>1. r # NotFound /\ r # RetentionViolation /\ r # Transport(FALSE)
    BY <1>1, <1>9
  <2> QED BY <1>9, <2>1, Zenon DEF TrueError
<1>10. CASE refused' /\ r = RetentionViolation /\ Phase(c) = "checked"
  <2>1. r # AlreadyExists /\ r # NotFound /\ r # Transport(FALSE)
    BY <1>1, <1>10
  <2> QED BY <1>10, <2>1, Zenon DEF TrueError
<1>11. CASE refused' /\ r = Transport(FALSE)
  <2>1. r # AlreadyExists /\ r # NotFound /\ r # RetentionViolation
    BY <1>1, <1>11
  <2> QED BY <1>11, <2>1, Zenon DEF TrueError
<1> QED BY <1>3, <1>4, <1>5, <1>6, <1>7, <1>8, <1>9, <1>10, <1>11

\* The object that readers get is one of the versions.
LEMMA CurrentIsVersion ==
  ASSUME VersionsInv, NEW k \in Keys, Occupied(k)
  PROVE  /\ Current(k) \in Seqs!ToSet(versions[k])
         /\ IsLocked(Current(k)) => Current(k).retain_until # Unlocked
<1>1. versions[k] \in Seq(VersionRecord) /\ versions[k] # <<>>
  BY DEF VersionsInv, TableInv, Occupied
<1>2. Len(versions[k]) \in DOMAIN versions[k]
  BY <1>1
<1>3. Current(k) \in Seqs!ToSet(versions[k])
  BY <1>2 DEF Current, Seqs!ToSet
<1>4. ASSUME IsLocked(Current(k)) PROVE Current(k).retain_until # Unlocked
  <2>1. now \in Nat
    BY ObjectsAssumption DEF VersionsInv
  <2> QED BY <1>4, <2>1 DEF IsLocked, Unlocked
<1> QED BY <1>3, <1>4

\* The call d goes on with its listing, or has ended.
SameListing(x, y) ==
  \/ x = Idle
  \/ /\ y # Idle /\ x.op = y.op /\ x.rest = y.rest /\ x.found = y.found
     /\ x.op.type = "list" => \A k \in x.stable : k \in y.stable /\ versions'[k] # <<>>

\* Listings that go on stay covered.
LEMMA ListingsGoOn ==
  ASSUME ListInv, \A d \in Clients : SameListing(call'[d], call[d])
  PROVE  ListInv'
<1> SUFFICES ASSUME NEW d \in Clients, call'[d] # Idle PROVE Covered(call[d])'
  BY DEF ListInv, Idle
<1>1. PICK x : x = call'[d]
  OBVIOUS
<1>2. PICK y : y = call[d]
  OBVIOUS
<1>3. /\ y # Idle /\ x.op = y.op /\ x.rest = y.rest /\ x.found = y.found
      /\ x.op.type = "list" => \A k \in x.stable : k \in y.stable /\ versions'[k] # <<>>
  BY <1>1, <1>2 DEF SameListing
<1>4. Covered(y)
  BY <1>2, <1>3 DEF ListInv
<1>5. x.op.type = "list" =>
        \A k \in x.stable : /\ k \in Matching(x.op.prefix) /\ versions'[k] # <<>>
                            /\ k \in x.rest \/ k \in x.found
  BY <1>3, <1>4 DEF Covered
<1> QED BY <1>1, <1>5 DEF Covered, Occupied, Matching

\* Seeing takes the vacant keys from the listings and leaves the rest alone.
LEMMA SeeingSame ==
  ASSUME CallsInv, NEW X, X = [d \in Clients |-> X[d]],
         \A d \in Clients : \/ X[d] = Idle
                            \/ /\ call[d] # Idle /\ CallShape(X[d]) /\ X[d].op = call[d].op
                               /\ X[d].rest = call[d].rest /\ X[d].found = call[d].found
                               /\ X[d].stable = call[d].stable,
         call' = Seeing(X, versions')
  PROVE  \A d \in Clients : SameListing(call'[d], call[d]) /\ call'[d].phase = X[d].phase
<1> SUFFICES ASSUME NEW d \in Clients
             PROVE  SameListing(call'[d], call[d]) /\ call'[d].phase = X[d].phase
  OBVIOUS
<1>1. PICK T : T = versions'
  OBVIOUS
<1>2. call'[d] = IF X[d].phase = "idle" THEN X[d]
                 ELSE [X[d] EXCEPT !.stable = {k \in @ : T[k] # <<>>}]
  BY <1>1 DEF Seeing
<1>3. CASE X[d] = Idle
  BY <1>2, <1>3 DEF SameListing, Idle
<1>4. CASE X[d] # Idle
  <2>1. PICK x : x = X[d]
    OBVIOUS
  <2>2. PICK s : s = {k \in x.stable : T[k] # <<>>}
    OBVIOUS
  <2>3. /\ call[d] # Idle /\ CallShape(x) /\ x.op = call[d].op
        /\ x.rest = call[d].rest /\ x.found = call[d].found /\ x.stable = call[d].stable
    BY <1>4, <2>1
  <2>4. x \in [phase : {"sent", "checked", "lost"}, op : {x.op}, resends : {x.resends},
            took : {x.took}, seen : {x.seen}, mark : Nat, rest : {x.rest}, found : {x.found},
            stable : {x.stable}]
    BY <2>3 DEF CallShape
  <2>5. call'[d] = [x EXCEPT !.stable = s]
    BY <1>2, <2>1, <2>2, <2>4
  <2>6. PICK y : y = [x EXCEPT !.stable = s]
    OBVIOUS
  <2>7. y.phase = x.phase /\ y.op = x.op /\ y.rest = x.rest /\ y.found = x.found /\ y.stable = s
    BY <2>4, <2>6
  <2>8. SameListing(y, call[d])
    BY <1>1, <2>2, <2>3, <2>7 DEF SameListing
  <2> QED BY <2>1, <2>5, <2>6, <2>7, <2>8
<1> QED BY <1>3, <1>4

\* A step that ends the call of c with an answer.
LEMMA AnswerTells ==
  ASSUME ObjectsIndInv, ListInv, NEW c \in Clients, NEW result, Answer(c, result),
         TrueError(c, result), TrueListing(c, result)
  PROVE  Truthful
<1>0. CallsInv /\ call = [d \in Clients |-> call[d]]
      /\ \A d \in Clients : call[d] = Idle \/ CallShape(call[d])
  BY DEF ObjectsIndInv, CallsInv
<1>1. PICK X : X = [call EXCEPT ![c] = Idle]
  OBVIOUS
<1>2. call' = Seeing(X, versions') /\ answer' = result
  BY <1>1 DEF Answer
<1>3. X = [d \in Clients |-> X[d]] /\ \A d \in Clients : X[d] = IF d = c THEN Idle ELSE call[d]
  BY <1>0, <1>1
<1>4. \A d \in Clients : \/ X[d] = Idle
                         \/ /\ call[d] # Idle /\ CallShape(X[d]) /\ X[d].op = call[d].op
                            /\ X[d].rest = call[d].rest /\ X[d].found = call[d].found
                            /\ X[d].stable = call[d].stable
  BY <1>0, <1>3
<1>5. \A d \in Clients : SameListing(call'[d], call[d]) /\ call'[d].phase = X[d].phase
  BY <1>0, <1>2, <1>3, <1>4, SeeingSame
<1>6. ListInv'
  BY <1>5, ListingsGoOn
<1>7. ASSUME NEW d \in Clients, Phase(d) # "idle", Phase(d)' = "idle" PROVE d = c
  BY <1>3, <1>5, <1>7 DEF Phase
<1> QED BY <1>2, <1>6, <1>7 DEF Truthful, ToldTruth

\* A step that ends no call.
LEMMA SilentTells ==
  ASSUME ListInv, \A d \in Clients : SameListing(call'[d], call[d]),
         \A d \in Clients : Phase(d) # "idle" => Phase(d)' # "idle"
  PROVE  Truthful
BY ListingsGoOn DEF Truthful, ToldTruth

\* What the call of c is about.
LEMMA CallIs ==
  ASSUME ObjectsIndInv, NEW c \in Clients, Phase(c) # "idle"
  PROVE  /\ CallShape(call[c]) /\ call[c] # Idle /\ VersionsInv /\ CallsInv
         /\ Op(c).key \in Keys /\ now \in Nat
<1>1. VersionsInv /\ CallsInv
  BY DEF ObjectsIndInv
<1>2. CallShape(call[c]) /\ call[c] # Idle
  BY <1>1 DEF CallsInv, Phase, Idle
<1>3. Op(c).key \in Keys
  BY <1>2 DEF CallShape, MadeOp, Op
<1>4. now \in Nat
  BY <1>1, ObjectsAssumption DEF VersionsInv
<1> QED BY <1>1, <1>2, <1>3, <1>4

\* A date on the current version is a reason for RetentionViolation.
LEMMA LockIsReason ==
  ASSUME VersionsInv, NEW k \in Keys, ~NoLock(k) \/ reject_if_retained(k)
  PROVE  \E v \in Seqs!ToSet(versions[k]) : v.retain_until # Unlocked
<1>1. Occupied(k)
  BY DEF NoLock, reject_if_retained
<1>2. Current(k) \in Seqs!ToSet(versions[k]) /\ (IsLocked(Current(k)) => Current(k).retain_until # Unlocked)
  BY <1>1, CurrentIsVersion
<1>3. Current(k).retain_until # Unlocked
  BY <1>2 DEF NoLock, reject_if_retained
<1> QED BY <1>2, <1>3

\* The answers that succeed.
LEMMA OkTells ==
  ASSUME NEW c, NEW v
  PROVE  /\ TrueError(c, Ok(v)) /\ TrueError(c, Done) /\ TrueError(c, Listed(v))
         /\ (Op(c).type # "list" => TrueListing(c, Ok(v)) /\ TrueListing(c, Done))
<1>1. Ok(v).type = "Ok" /\ Done.type = "Ok" /\ Listed(v).type = "Ok"
  BY DEF Ok, Done, Listed
<1>2. PICK a : a = Ok(v)
  OBVIOUS
<1>3. PICK b : b = Done
  OBVIOUS
<1>4. PICK d : d = Listed(v)
  OBVIOUS
<1>5. TrueError(c, a) /\ TrueError(c, b) /\ TrueError(c, d)
  BY <1>1, <1>2, <1>3, <1>4, ErrorsApart
<1> QED BY <1>2, <1>3, <1>4, <1>5 DEF TrueListing

\* An error is not a listing.
LEMMA ErrorListsNothing ==
  ASSUME NEW c, NEW r, r \in {AlreadyExists, NotFound, RetentionViolation, Transport(FALSE), Transport(TRUE)}
  PROVE  TrueListing(c, r)
<1>1. r.type # "Ok"
  BY DEF AlreadyExists, NotFound, RetentionViolation, Transport
<1> QED BY <1>1 DEF TrueListing

\* put and put_with_retention in memory.
LEMMA MemoryPutTells ==
  ASSUME ObjectsIndInv, ListInv, NEW c \in Clients, MemoryPut(c)
  PROVE  Truthful
<1>0. VersionsInv /\ Op(c).key \in Keys
  BY CallIs DEF MemoryPut
<1>1. CASE CreateOnly(Op(c)) /\ Occupied(Op(c).key) /\ Answer(c, AlreadyExists)
  <2>1. PICK r : r = AlreadyExists
    OBVIOUS
  <2>2. TrueError(c, r) /\ TrueListing(c, r) /\ Answer(c, r)
    BY <1>1, <2>1, ErrorsApart, ErrorListsNothing
  <2> QED BY <2>2, AnswerTells
<1>2. CASE IsOverwrite(Op(c)) /\ reject_if_retained(Op(c).key) /\ Answer(c, RetentionViolation)
  <2>1. PICK r : r = RetentionViolation
    OBVIOUS
  <2>2. TrueError(c, r) /\ TrueListing(c, r) /\ Answer(c, r)
    BY <1>0, <1>2, <2>1, LockIsReason, ErrorsApart, ErrorListsNothing
  <2> QED BY <2>2, AnswerTells
<1>3. CASE (CreateOnly(Op(c)) \/ IsOverwrite(Op(c))) /\ Answer(c, Done)
  <2>1. Op(c).type # "list"
    BY <1>3 DEF CreateOnly, IsOverwrite
  <2>2. PICK r : r = Done
    OBVIOUS
  <2>3. TrueError(c, r) /\ TrueListing(c, r) /\ Answer(c, r)
    BY <1>3, <2>1, <2>2, OkTells
  <2> QED BY <2>3, AnswerTells
<1> QED BY <1>1, <1>2, <1>3 DEF MemoryPut, Reply

\* delete in memory.
LEMMA MemoryDeleteTells ==
  ASSUME ObjectsIndInv, ListInv, NEW c \in Clients, MemoryDelete(c)
  PROVE  Truthful
<1>0. VersionsInv /\ Op(c).key \in Keys /\ Op(c).type = "delete"
  BY CallIs DEF MemoryDelete, Memory, Sent
<1>1. CASE ~Occupied(Op(c).key) /\ Answer(c, NotFound)
  <2>1. PICK r : r = NotFound
    OBVIOUS
  <2>2. TrueError(c, r) /\ TrueListing(c, r) /\ Answer(c, r)
    BY <1>0, <1>1, <2>1, ErrorsApart, ErrorListsNothing
  <2> QED BY <2>2, AnswerTells
<1>2. CASE reject_if_retained(Op(c).key) /\ Answer(c, RetentionViolation)
  <2>1. PICK r : r = RetentionViolation
    OBVIOUS
  <2>2. TrueError(c, r) /\ TrueListing(c, r) /\ Answer(c, r)
    BY <1>0, <1>2, <2>1, LockIsReason, ErrorsApart, ErrorListsNothing
  <2> QED BY <2>2, AnswerTells
<1>3. CASE Answer(c, Done)
  <2>1. PICK r : r = Done
    OBVIOUS
  <2>2. TrueError(c, r) /\ TrueListing(c, r) /\ Answer(c, r)
    BY <1>0, <1>3, <2>1, OkTells
  <2> QED BY <2>2, AnswerTells
<1> QED BY <1>1, <1>2, <1>3 DEF MemoryDelete, Reply

\* extend_retention in memory.
LEMMA MemoryExtendTells ==
  ASSUME ObjectsIndInv, ListInv, NEW c \in Clients, MemoryExtendRetention(c)
  PROVE  Truthful
<1>0. VersionsInv /\ Op(c).key \in Keys /\ Op(c).type = "extend_retention"
  BY CallIs DEF MemoryExtendRetention, Memory, Sent
<1>1. CASE NoLock(Op(c).key) /\ Answer(c, NotFound)
  <2>1. PICK r : r = NotFound
    OBVIOUS
  <2>2. TrueError(c, r) /\ TrueListing(c, r) /\ Answer(c, r)
    BY <1>0, <1>1, <2>1, ErrorsApart, ErrorListsNothing
  <2> QED BY <2>2, AnswerTells
<1>2. CASE ~NoLock(Op(c).key) /\ Answer(c, RetentionViolation)
  <2>1. PICK r : r = RetentionViolation
    OBVIOUS
  <2>2. TrueError(c, r) /\ TrueListing(c, r) /\ Answer(c, r)
    BY <1>0, <1>2, <2>1, LockIsReason, ErrorsApart, ErrorListsNothing
  <2> QED BY <2>2, AnswerTells
<1>3. CASE Answer(c, Done)
  <2>1. PICK r : r = Done
    OBVIOUS
  <2>2. TrueError(c, r) /\ TrueListing(c, r) /\ Answer(c, r)
    BY <1>0, <1>3, <2>1, OkTells
  <2> QED BY <2>2, AnswerTells
<1> QED BY <1>1, <1>2, <1>3 DEF MemoryExtendRetention, Reply

\* get and head of both backends.
LEMMA ReadsTell ==
  ASSUME ObjectsIndInv, ListInv, NEW c \in Clients,
         \/ MemoryGet(c) \/ MemoryHead(c) \/ GetObject(c) \/ HeadObject(c)
  PROVE  Truthful
<1>1. /\ Op(c).type \in {"get", "head"}
      /\ Answer(c, IF Occupied(Op(c).key) THEN Ok(Current(Op(c).key).data) ELSE NotFound)
  BY DEF MemoryGet, MemoryHead, GetObject, HeadObject, Memory, S3, Sent, Reply
<1>2. PICK v : v = Current(Op(c).key).data
  OBVIOUS
<1>3. PICK r : r = IF Occupied(Op(c).key) THEN Ok(v) ELSE NotFound
  OBVIOUS
<1>4. CASE Occupied(Op(c).key)
  <2>1. r = Ok(v)
    BY <1>3, <1>4
  <2>2. TrueError(c, r) /\ TrueListing(c, r)
    BY <1>1, <2>1, OkTells
  <2> QED BY <1>1, <1>2, <1>3, <2>2, AnswerTells
<1>5. CASE ~Occupied(Op(c).key)
  <2>1. r = NotFound
    BY <1>3, <1>5
  <2>2. TrueError(c, r) /\ TrueListing(c, r)
    BY <1>1, <1>5, <2>1, ErrorsApart, ErrorListsNothing
  <2> QED BY <1>1, <1>2, <1>3, <2>2, AnswerTells
<1> QED BY <1>4, <1>5

\* get_retention of both backends.
LEMMA GetRetentionTells ==
  ASSUME ObjectsIndInv, ListInv, NEW c \in Clients, MemoryGetRetention(c) \/ GetObjectRetention(c)
  PROVE  Truthful
<1>1. /\ Op(c).type = "get_retention"
      /\ \E v : Answer(c, IF NoLock(Op(c).key) THEN NotFound ELSE Ok(v))
  BY DEF MemoryGetRetention, GetObjectRetention, Memory, S3, Sent, Reply
<1>2. PICK v : Answer(c, IF NoLock(Op(c).key) THEN NotFound ELSE Ok(v))
  BY <1>1
<1>3. PICK r : r = IF NoLock(Op(c).key) THEN NotFound ELSE Ok(v)
  OBVIOUS
<1>4. CASE ~NoLock(Op(c).key)
  <2>1. r = Ok(v)
    BY <1>3, <1>4
  <2>2. TrueError(c, r) /\ TrueListing(c, r)
    BY <1>1, <2>1, OkTells
  <2> QED BY <1>2, <1>3, <2>2, AnswerTells
<1>5. CASE NoLock(Op(c).key)
  <2>1. r = NotFound
    BY <1>3, <1>5
  <2>2. TrueError(c, r) /\ TrueListing(c, r)
    BY <1>1, <1>5, <2>1, ErrorsApart, ErrorListsNothing
  <2> QED BY <1>2, <1>3, <2>2, AnswerTells
<1> QED BY <1>4, <1>5

\* list of both backends reports what it counts on.
LEMMA ListsTell ==
  ASSUME ObjectsIndInv, ListInv, NEW c \in Clients, MemoryList(c) \/ ListEnd(c)
  PROVE  Truthful
<1>1. Op(c).type = "list" /\ Phase(c) = "sent"
  BY DEF MemoryList, ListEnd, Memory, S3, Sent
<1>2. Covered(call[c])
  BY <1>1, CallIs DEF ListInv
<1>3. \E v : Answer(c, Listed(v)) /\ call[c].stable \subseteq v
  <2>1. CASE MemoryList(c)
    <3>1. PICK v : v = {k \in Matching(Op(c).prefix) : Occupied(k)}
      OBVIOUS
    <3>2. Answer(c, Listed(v))
      BY <2>1, <3>1 DEF MemoryList, Reply
    <3>3. call[c].stable \subseteq v
      BY <1>1, <1>2, <3>1 DEF Covered, Op
    <3> QED BY <3>2, <3>3
  <2>2. CASE ListEnd(c)
    <3>1. Answer(c, Listed(call[c].found)) /\ call[c].rest = {}
      BY <2>2 DEF ListEnd, Reply, Drained
    <3>2. call[c].stable \subseteq call[c].found
      BY <1>1, <1>2, <3>1 DEF Covered, Op
    <3> QED BY <3>1, <3>2
  <2> QED BY <2>1, <2>2
<1>4. PICK v : Answer(c, Listed(v)) /\ call[c].stable \subseteq v
  BY <1>3
<1>5. PICK r : r = Listed(v)
  OBVIOUS
<1>6. TrueError(c, r)
  BY <1>5, OkTells
<1>7. TrueListing(c, r)
  BY <1>4, <1>5 DEF TrueListing, Listed
<1> QED BY <1>4, <1>5, <1>6, <1>7, AnswerTells

\* A step of the call of c alone that leaves the versions and the listing alone.
LEMMA OwnStepTells ==
  ASSUME ObjectsIndInv, ListInv, NEW c \in Clients, call[c] # Idle, versions' = versions,
         NEW x, call' = [call EXCEPT ![c] = x],
         \/ x = Idle
         \/ /\ x.op = call[c].op /\ x.rest = call[c].rest /\ x.found = call[c].found
            /\ x.stable = call[c].stable /\ x.phase # "idle"
  PROVE  /\ ListInv'
         /\ \A d \in Clients : Phase(d) # "idle" /\ Phase(d)' = "idle" => d = c
         /\ x # Idle => Truthful
<1>1. call = [d \in Clients |-> call[d]]
  BY DEF ObjectsIndInv, CallsInv
<1>2. \A d \in Clients : call'[d] = IF d = c THEN x ELSE call[d]
  BY <1>1
<1>3. ASSUME NEW d \in Clients, call[d] # Idle PROVE SameListing(call[d], call[d])
  <2>1. Covered(call[d])
    BY <1>3 DEF ListInv
  <2> QED BY <1>3, <2>1 DEF Covered, SameListing, Occupied
<1>4. ASSUME NEW d \in Clients PROVE SameListing(call'[d], call[d])
  <2>1. CASE d # c
    <3>1. call'[d] = call[d]
      BY <1>2, <2>1
    <3>2. call[d] = Idle => SameListing(call[d], call[d])
      BY DEF SameListing
    <3> QED BY <1>3, <3>1, <3>2
  <2>2. CASE d = c /\ x = Idle
    BY <1>2, <2>2 DEF SameListing
  <2>3. CASE d = c /\ x # Idle
    <3>1. SameListing(call[c], call[c])
      BY <1>3
    <3>2. SameListing(x, call[c])
      BY <2>3, <3>1 DEF SameListing
    <3> QED BY <1>2, <2>3, <3>2
  <2> QED BY <2>1, <2>2, <2>3
<1>5. ListInv'
  BY <1>4, ListingsGoOn
<1>6. \A d \in Clients : Phase(d) # "idle" /\ Phase(d)' = "idle" => d = c
  BY <1>2 DEF Phase
<1>7. ASSUME x # Idle PROVE Truthful
  <2>1. Phase(c)' # "idle"
    BY <1>2, <1>7 DEF Phase
  <2> QED BY <1>5, <1>6, <2>1 DEF Truthful, ToldTruth
<1> QED BY <1>5, <1>6, <1>7

\* A new call: the keys it counts on are yet to be read.
LEMMA InvokeTells ==
  ASSUME ObjectsIndInv, ListInv, NEW c \in Clients, NEW op \in Calls, Invoke(c, op)
  PROVE  Truthful
<1>1. call = [d \in Clients |-> call[d]]
  BY DEF ObjectsIndInv, CallsInv
<1>2. PICK x : x =
        [phase |-> "sent", op |-> Made(op), resends |-> 0, took |-> FALSE, seen |-> 0, mark |-> 0,
         rest |-> IF op.type = "list" THEN Matching(op.prefix) ELSE {}, found |-> {},
         stable |-> IF op.type = "list" THEN {k \in Matching(op.prefix) : Occupied(k)} ELSE {}]
  OBVIOUS
<1>3. call' = [call EXCEPT ![c] = x] /\ versions' = versions /\ Phase(c) = "idle"
  BY <1>2 DEF Invoke
<1>4. \A d \in Clients : call'[d] = IF d = c THEN x ELSE call[d]
  BY <1>1, <1>3
<1>5. x.phase = "sent" /\ x.op = Made(op)
  BY <1>2
<1>6. Made(op).type = op.type /\ Made(op).prefix = op.prefix
  <2>1. op \in [type : {"get", "head", "list", "put", "put_with_retention", "delete",
                        "extend_retention", "get_retention"},
                key : Keys, class : ObjectClass \cup {"none"},
                mode : {"IfNotExists", "Overwrite", "none"}, until : Nat,
                prefix : {op.prefix}, data : Nat, asked : Nat]
    BY ObjectsAssumption
  <2>2. PICK until : until = IF op.class \in ObjectClass THEN retain_until(policy.value, op.class, now).value
                             ELSE IF op.type = "extend_retention" THEN now + op.until ELSE Unlocked
    OBVIOUS
  <2>3. Made(op) = [op EXCEPT !.data = issued + 1, !.asked = now, !.until = until]
    BY <2>2 DEF Made
  <2> QED BY <2>1, <2>3
<1>7. Covered(x)
  <2>1. CASE op.type = "list"
    <3>1. x.rest = Matching(op.prefix) /\ x.stable = {k \in Matching(op.prefix) : Occupied(k)}
      BY <1>2, <2>1
    <3> QED BY <1>5, <1>6, <3>1 DEF Covered
  <2>2. CASE op.type # "list"
    BY <1>5, <1>6, <2>2 DEF Covered
  <2> QED BY <2>1, <2>2
<1>8. ListInv'
  <2> SUFFICES ASSUME NEW d \in Clients, call'[d] # Idle PROVE Covered(call[d])'
    BY DEF ListInv, Idle
  <2>1. PICK y : y = call'[d]
    OBVIOUS
  <2>2. Covered(y)
    BY <1>4, <1>7, <2>1 DEF ListInv
  <2> QED BY <1>3, <2>1, <2>2 DEF Covered, Occupied, Matching
<1>9. \A d \in Clients : ~(Phase(d) # "idle" /\ Phase(d)' = "idle")
  BY <1>3, <1>4, <1>5 DEF Phase
<1> QED BY <1>8, <1>9 DEF Truthful, ToldTruth

\* A page of a listing on S3: the key read is found, or nobody counts on it.
LEMMA ListPageTells ==
  ASSUME ObjectsIndInv, ListInv, NEW c \in Clients, NEW k \in Keys, ListPage(c, k)
  PROVE  Truthful
<1>0. Phase(c) = "sent" /\ versions' = versions
  BY DEF ListPage, S3, Sent
<1>1. call[c] # Idle /\ CallShape(call[c]) /\ call = [d \in Clients |-> call[d]]
  BY <1>0, CallIs DEF CallsInv
<1>2. PICK f : f = call[c].found \cup (IF Occupied(k) THEN {k} ELSE {})
  OBVIOUS
<1>3. PICK x : x = [call[c] EXCEPT !.rest = @ \ {k}, !.found = f]
  OBVIOUS
<1>4. call' = [call EXCEPT ![c] = x]
  BY <1>1, <1>2, <1>3 DEF ListPage
<1>5. \A d \in Clients : call'[d] = IF d = c THEN x ELSE call[d]
  BY <1>1, <1>4
<1>6. /\ x.phase = call[c].phase /\ x.op = call[c].op /\ x.stable = call[c].stable
      /\ x.rest = call[c].rest \ {k} /\ x.found = f
  BY <1>1, <1>3 DEF CallShape
<1>7. Covered(x)
  <2>1. Covered(call[c])
    BY <1>1 DEF ListInv
  <2>2. ASSUME NEW q \in x.stable, x.op.type = "list"
        PROVE  q \in Matching(x.op.prefix) /\ Occupied(q) /\ (q \in x.rest \/ q \in x.found)
    <3>1. q \in Matching(x.op.prefix) /\ Occupied(q) /\ (q \in call[c].rest \/ q \in call[c].found)
      BY <1>6, <2>1, <2>2 DEF Covered
    <3>2. CASE q = k
      BY <1>2, <1>6, <3>1, <3>2
    <3>3. CASE q # k
      BY <1>2, <1>6, <3>1, <3>3
    <3> QED BY <3>1, <3>2, <3>3
  <2> QED BY <2>2 DEF Covered
<1>8. ListInv'
  <2> SUFFICES ASSUME NEW d \in Clients, call'[d] # Idle PROVE Covered(call[d])'
    BY DEF ListInv, Idle
  <2>1. PICK y : y = call'[d]
    OBVIOUS
  <2>2. Covered(y)
    BY <1>5, <1>7, <2>1 DEF ListInv
  <2> QED BY <1>0, <2>1, <2>2 DEF Covered, Occupied, Matching
<1>9. \A d \in Clients : ~(Phase(d) # "idle" /\ Phase(d)' = "idle")
  BY <1>0, <1>5, <1>6 DEF Phase
<1> QED BY <1>8, <1>9 DEF Truthful, ToldTruth

\* The first of two requests has succeeded.
LEMMA ProceedTells ==
  ASSUME ObjectsIndInv, ListInv, NEW c \in Clients, Phase(c) = "sent", NEW seen, Proceed(c, seen)
  PROVE  Truthful
<1>1. call[c] # Idle /\ CallShape(call[c]) /\ call = [d \in Clients |-> call[d]]
  BY CallIs DEF CallsInv
<1>2. PICK x : x = [call[c] EXCEPT !.phase = "checked", !.seen = seen, !.mark = ids]
  OBVIOUS
<1>3. call' = [call EXCEPT ![c] = x] /\ versions' = versions
  BY <1>1, <1>2 DEF Proceed
<1>4. /\ x.op = call[c].op /\ x.rest = call[c].rest /\ x.found = call[c].found
      /\ x.stable = call[c].stable /\ x.phase = "checked"
  BY <1>1, <1>2 DEF CallShape
<1> QED BY <1>1, <1>3, <1>4, OwnStepTells DEF Idle

\* The checks of put, delete and extend_retention on S3.
LEMMA ChecksTell ==
  ASSUME ObjectsIndInv, ListInv, NEW c \in Clients,
         CheckOverwrite(c) \/ ResolveVersion(c) \/ CheckExtension(c)
  PROVE  Truthful
<1>0. Phase(c) = "sent"
  BY DEF CheckOverwrite, ResolveVersion, CheckExtension, S3, Sent
<1>1. VersionsInv /\ Op(c).key \in Keys
  BY <1>0, CallIs
<1>2. CASE \E seen : Proceed(c, seen)
  BY <1>0, <1>2, ProceedTells
<1>3. CASE ~NoLock(Op(c).key) /\ Answer(c, RetentionViolation)
  <2>1. PICK r : r = RetentionViolation
    OBVIOUS
  <2>2. TrueError(c, r) /\ TrueListing(c, r) /\ Answer(c, r)
    BY <1>1, <1>3, <2>1, LockIsReason, ErrorsApart, ErrorListsNothing
  <2> QED BY <2>2, AnswerTells
<1>4. CASE /\ IF Op(c).type \in {"extend_retention", "get_retention"}
              THEN NoLock(Op(c).key) ELSE ~Occupied(Op(c).key)
           /\ Answer(c, NotFound)
  <2>1. PICK r : r = NotFound
    OBVIOUS
  <2>2. TrueError(c, r) /\ TrueListing(c, r) /\ Answer(c, r)
    BY <1>4, <2>1, ErrorsApart, ErrorListsNothing
  <2> QED BY <2>2, AnswerTells
<1>5. current_retention(Op(c).key) = Unlocked <=> NoLock(Op(c).key)
  BY DEF current_retention, NoLock
<1>6. CASE CheckOverwrite(c)
  BY <1>2, <1>3, <1>5, <1>6 DEF CheckOverwrite, Reply
<1>7. CASE ResolveVersion(c)
  <2>1. Op(c).type = "delete"
    BY <1>7 DEF ResolveVersion, S3, Sent
  <2> QED BY <1>2, <1>4, <1>7, <2>1 DEF ResolveVersion, Reply
<1>8. CASE CheckExtension(c)
  <2>1. Op(c).type = "extend_retention"
    BY <1>8 DEF CheckExtension, S3, Sent
  <2> QED BY <1>2, <1>3, <1>4, <1>5, <1>8, <2>1 DEF CheckExtension, Reply
<1> QED BY <1>6, <1>7, <1>8

\* What the errors of a write mean to each operation (classify).
LEMMA S3ErrorsMean ==
  /\ map_error("CreateOnlyWrite", ServiceError("PreconditionFailed", 400)) = AlreadyExists
  /\ map_error("CreateOnlyWrite", ServiceError("InvalidArgument", 400)) = Transport(FALSE)
  /\ map_error("RetentionGuardedWrite", ServiceError("AccessDenied", 400)) = RetentionViolation
  /\ map_error("RetentionExtend", ServiceError("NoSuchKey", 400)) = NotFound
  /\ map_error("RetentionExtend", ServiceError("InvalidArgument", 400)) = RetentionViolation
  /\ map_error("RetentionExtend", ServiceError("AccessDenied", 400)) = RetentionViolation
<1>1. map_error("CreateOnlyWrite", ServiceError("PreconditionFailed", 400)) = AlreadyExists
  BY DEF map_error, classify, ServiceError
<1>2. map_error("CreateOnlyWrite", ServiceError("InvalidArgument", 400)) = Transport(FALSE)
  BY DEF map_error, classify, ServiceError, generic_transport, StatusRetryable
<1>3. map_error("RetentionGuardedWrite", ServiceError("AccessDenied", 400)) = RetentionViolation
  BY DEF map_error, classify, ServiceError
<1>4. map_error("RetentionExtend", ServiceError("NoSuchKey", 400)) = NotFound
  BY DEF map_error, classify, ServiceError
<1>5. map_error("RetentionExtend", ServiceError("InvalidArgument", 400)) = RetentionViolation
  BY DEF map_error, classify, ServiceError
<1>6. map_error("RetentionExtend", ServiceError("AccessDenied", 400)) = RetentionViolation
  BY DEF map_error, classify, ServiceError
<1> QED BY <1>1, <1>2, <1>3, <1>4, <1>5, <1>6

\* What a refusal for the service's own reasons is read as (classify): a lock by
\* the second request of a guarded write, a taken key by a create-only write that
\* conflicts, and a terminal error by all others.
LEMMA OwnRefusalsMean ==
  ASSUME NEW class \in {"Read", "CreateOnlyWrite", "RetentionGuardedWrite", "RetentionExtend"}
  PROVE  /\ map_error(class, ServiceError("ExpiredToken", 400)) = Transport(FALSE)
         /\ map_error(class, AccessDenied) =
              IF class \in {"RetentionGuardedWrite", "RetentionExtend"}
              THEN RetentionViolation ELSE Transport(FALSE)
         /\ class = "CreateOnlyWrite" => map_error(class, RequestConflict) = AlreadyExists
<1>1. map_error(class, ServiceError("ExpiredToken", 400)) = Transport(FALSE)
  BY DEF map_error, classify, ServiceError, generic_transport, StatusRetryable
<1>2. CASE class \in {"RetentionGuardedWrite", "RetentionExtend"}
  <2>1. map_error(class, AccessDenied) = RetentionViolation
    BY <1>2 DEF map_error, classify, AccessDenied, ServiceError
  <2> QED BY <1>1, <1>2, <2>1
<1>3. CASE class \in {"Read", "CreateOnlyWrite"}
  <2>1. map_error(class, AccessDenied) = Transport(FALSE)
    <3>1. map_error(class, AccessDenied) = generic_transport(AccessDenied)
      <4> HIDE DEF generic_transport
      <4> QED BY <1>3 DEF map_error, classify, AccessDenied, ServiceError
    <3>2. generic_transport(AccessDenied) = Transport(FALSE)
      BY DEF AccessDenied, ServiceError, generic_transport, StatusRetryable
    <3> QED BY <3>1, <3>2
  <2>2. class = "CreateOnlyWrite" => map_error(class, RequestConflict) = AlreadyExists
    BY DEF map_error, classify, RequestConflict, ServiceError
  <2> QED BY <1>1, <1>3, <2>1, <2>2
<1> QED BY <1>2, <1>3

\* A request without an answer is reported as retryable.
LEMMA UnknownIsRetryable ==
  ASSUME NEW class, NEW err \in Unknowns
  PROVE  map_error(class, err) = Transport(TRUE)
<1>1. CASE err = SdkFailure("TimeoutError")
  BY <1>1 DEF map_error, SdkFailure, transport_error
<1>2. CASE err = ServiceError("InternalError", 500)
  BY <1>2 DEF map_error, classify, ServiceError, generic_transport, StatusRetryable
<1> QED BY <1>1, <1>2 DEF Unknowns

\* Times are not negative.
LEMMA Comparisons ==
  /\ \A a, b \in Int : a <= b => ~(a > b)
  /\ \A a \in Int, b \in Nat : ~(a <= b) => ~(a < 0)
  /\ \A a \in Nat : ~(a < 0) /\ a \in Int
OBVIOUS

\* A refused write and what its caller is told.
Reason(c, r) ==
  \/ r = AlreadyExists /\ CreateOnly(Op(c)) /\ Occupied(Op(c).key)
  \/ r = Transport(FALSE) /\ Op(c).type = "put_with_retention" /\ Op(c).until <= now
  \/ r = NotFound /\ Op(c).type = "extend_retention" /\ NoLock(Op(c).key)
  \/ r = RetentionViolation /\ Op(c).type = "extend_retention" /\ Op(c).until <= now
  \/ /\ r = RetentionViolation
     /\ \E v \in Seqs!ToSet(versions[Op(c).key]) : v.retain_until # Unlocked

\* Why a write is refused, and how the caller is told.
LEMMA RefusalMeans ==
  ASSUME ObjectsIndInv, NEW c \in Clients, Writing(c), Refuses(Request(c)) # "",
         NEW r, r = map_error(OpClass(c), ServiceError(Refuses(Request(c)), 400))
  PROVE  Reason(c, r)
<1>0. /\ VersionsInv /\ CallsInv /\ Op(c).key \in Keys /\ now \in Nat /\ CallShape(call[c])
  <2>1. Phase(c) # "idle"
    BY DEF Writing
  <2> QED BY <2>1, CallIs
<1>1. PICK q : q = Request(c)
  OBVIOUS
<1>2. q.op = Op(c) /\ IsWrite(q.op) /\ Refuses(q) # ""
  BY <1>0, <1>1, RequestType DEF Request
<1>3. Op(c).until \in Int
  BY <1>0, Dates DEF CallShape, MadeOp, Op
<1> DEFINE lockedSeen == \E v \in Seqs!ToSet(versions[q.op.key]) : v.id = q.seen /\ IsLocked(v)
<1>4. CASE CreateOnly(Op(c))
  <2>1. OpClass(c) = "CreateOnlyWrite" /\ q.op.type \in {"put", "put_with_retention"}
    BY <1>2, <1>4 DEF OpClass, CreateOnly
  <2> HIDE DEF lockedSeen
  <2>2. CASE Occupied(Op(c).key)
    <3>1. Refuses(q) = "PreconditionFailed"
      BY <1>2, <1>4, <2>1, <2>2 DEF Refuses, PreconditionFails, lockedSeen
    <3>2. r = AlreadyExists
      BY <1>1, <2>1, <3>1, S3ErrorsMean
    <3> QED BY <1>4, <2>2, <3>2 DEF Reason
  <2>3. CASE ~Occupied(Op(c).key)
    <3>1. q.op.type = "put_with_retention" /\ q.op.until <= now /\ Refuses(q) = "InvalidArgument"
      BY <1>2, <1>4, <2>1, <2>3 DEF Refuses, PreconditionFails, lockedSeen
    <3>2. r = Transport(FALSE)
      BY <1>1, <2>1, <3>1, S3ErrorsMean
    <3> QED BY <1>2, <3>1, <3>2 DEF Reason
  <2> QED BY <2>2, <2>3
<1>5. CASE Op(c).type = "delete"
  <2>1. ~CreateOnly(Op(c))
    BY <1>5 DEF CreateOnly
  <2>2. OpClass(c) = "RetentionGuardedWrite"
    BY <1>5, <2>1 DEF OpClass, Writing
  <2>3. lockedSeen /\ Refuses(q) = "AccessDenied"
    <3> HIDE DEF lockedSeen
    <3> QED BY <1>2, <1>5, <2>1 DEF Refuses, PreconditionFails, lockedSeen
  <2>4. r = RetentionViolation
    BY <1>1, <2>2, <2>3, S3ErrorsMean
  <2>5. PICK v \in Seqs!ToSet(versions[Op(c).key]) : IsLocked(v)
    BY <1>2, <2>3
  <2>6. v.retain_until # Unlocked
    <3>1. now < v.retain_until
      BY <2>5 DEF IsLocked
    <3>2. ASSUME v.retain_until = 0 PROVE FALSE
      BY <1>0, Comparisons, <3>1, <3>2
    <3> QED BY <3>2 DEF Unlocked
  <2> QED BY <2>4, <2>5, <2>6 DEF Reason
<1>6. CASE Op(c).type = "extend_retention"
  <2>1. ~CreateOnly(Op(c))
    BY <1>6 DEF CreateOnly
  <2>2. OpClass(c) = "RetentionExtend"
    BY <1>6, <2>1 DEF OpClass, Writing
  <2> HIDE DEF lockedSeen
  <2>3. CASE ~Occupied(Op(c).key)
    <3>1. Refuses(q) = "NoSuchKey"
      BY <1>2, <1>6, <2>1, <2>3 DEF Refuses, PreconditionFails, lockedSeen
    <3>2. r = NotFound
      BY <1>1, <2>2, <3>1, S3ErrorsMean
    <3> QED BY <1>6, <2>3, <3>2 DEF NoLock, Reason
  <2>4. CASE Occupied(Op(c).key) /\ Op(c).until <= now
    <3>1. Refuses(q) = "InvalidArgument"
      <4>1. ~(q.op.until > now)
        BY <1>0, <1>2, <1>3, Comparisons, <2>4
      <4> QED BY <1>2, <1>6, <2>1, <2>4, <4>1 DEF Refuses, PreconditionFails, lockedSeen
    <3>2. r = RetentionViolation
      BY <1>1, <2>2, <3>1, S3ErrorsMean
    <3> QED BY <1>6, <2>4, <3>2 DEF Reason
  <2>5. CASE Occupied(Op(c).key) /\ ~(Op(c).until <= now)
    <3>1. Refuses(q) = "AccessDenied" /\ Op(c).until < Current(Op(c).key).retain_until
      BY <1>2, <1>6, <2>1, <2>5 DEF Refuses, PreconditionFails, lockedSeen
    <3>2. r = RetentionViolation
      BY <1>1, <2>2, <3>1, S3ErrorsMean
    <3>3. Current(Op(c).key).retain_until # Unlocked
      BY <1>0, <1>3, Comparisons, <2>5, <3>1 DEF Unlocked
    <3>4. Current(Op(c).key) \in Seqs!ToSet(versions[Op(c).key])
      BY <1>0, <2>5, CurrentIsVersion
    <3> QED BY <3>2, <3>3, <3>4 DEF Reason
  <2> QED BY <2>3, <2>4, <2>5
<1>7. CASE IsOverwrite(Op(c))
  <2>1. ~CreateOnly(Op(c)) /\ q.op.type = "put"
    BY <1>2, <1>7 DEF CreateOnly, IsOverwrite
  <2> HIDE DEF lockedSeen
  <2>2. Refuses(q) = ""
    BY <1>2, <2>1 DEF Refuses, PreconditionFails, lockedSeen
  <2> QED BY <1>2, <2>2
<1> QED BY <1>2, <1>4, <1>5, <1>6, <1>7 DEF IsWrite

\* S3 refuses the write.
LEMMA RefuseWriteTells ==
  ASSUME ObjectsIndInv, ListInv, NEW c \in Clients, RefuseWrite(c)
  PROVE  Truthful
<1>1. PICK r : r = map_error(OpClass(c), ServiceError(Refuses(Request(c)), 400))
  OBVIOUS
<1>2. Writing(c) /\ Refuses(Request(c)) # "" /\ Answer(c, r)
  BY <1>1 DEF RefuseWrite, Reply
<1>3. TrueError(c, r) /\ TrueListing(c, r)
  <2>1. CASE r = AlreadyExists /\ CreateOnly(Op(c)) /\ Occupied(Op(c).key)
    BY <2>1, ErrorsApart, ErrorListsNothing
  <2>2. CASE r = Transport(FALSE) /\ Op(c).type = "put_with_retention" /\ Op(c).until <= now
    BY <2>2, ErrorsApart, ErrorListsNothing
  <2>3. CASE r = NotFound /\ Op(c).type = "extend_retention" /\ NoLock(Op(c).key)
    BY <2>3, ErrorsApart, ErrorListsNothing
  <2>4. CASE r = RetentionViolation /\ Op(c).type = "extend_retention" /\ Op(c).until <= now
    BY <2>4, ErrorsApart, ErrorListsNothing
  <2>5. CASE /\ r = RetentionViolation
             /\ \E v \in Seqs!ToSet(versions[Op(c).key]) : v.retain_until # Unlocked
    BY <2>5, ErrorsApart, ErrorListsNothing
  <2>6. Reason(c, r)
    BY <1>1, <1>2, RefusalMeans
  <2> QED BY <2>1, <2>2, <2>3, <2>4, <2>5, <2>6, Zenon DEF Reason
<1> QED BY <1>2, <1>3, AnswerTells

\* S3 refuses a request for reasons of its own.
LEMMA ServiceRefusesTells ==
  ASSUME ObjectsIndInv, ListInv, NEW c \in Clients, NEW err \in Refusals(c), ServiceRefuses(c, err)
  PROVE  Truthful
<1>1. PICK r : r = map_error(OpClass(c), err)
  OBVIOUS
<1>2. Answer(c, r) /\ refused' /\ Phase(c) \in {"sent", "checked"}
  BY <1>1 DEF ServiceRefuses, Reply
<1>3. PICK class : class = OpClass(c)
  OBVIOUS
<1>4. /\ class \in {"Read", "CreateOnlyWrite", "RetentionGuardedWrite", "RetentionExtend"}
      /\ class \in {"RetentionGuardedWrite", "RetentionExtend"} => Phase(c) = "checked"
      /\ CreateOnly(Op(c)) => class = "CreateOnlyWrite"
  BY <1>2, <1>3 DEF OpClass
<1>5. \/ r = Transport(FALSE)
      \/ r = RetentionViolation /\ Phase(c) = "checked"
      \/ r = AlreadyExists /\ CreateOnly(Op(c)) /\ Contended(c)
  <2>0. r = map_error(class, err)
    BY <1>1, <1>3
  <2>4. /\ map_error(class, ServiceError("ExpiredToken", 400)) = Transport(FALSE)
        /\ map_error(class, AccessDenied) =
             IF class \in {"RetentionGuardedWrite", "RetentionExtend"}
             THEN RetentionViolation ELSE Transport(FALSE)
        /\ class = "CreateOnlyWrite" => map_error(class, RequestConflict) = AlreadyExists
    BY <1>4, OwnRefusalsMean, Zenon
  <2>1. CASE err = ServiceError("ExpiredToken", 400)
    BY <2>0, <2>1, <2>4, Zenon
  <2>2. CASE err = AccessDenied
    BY <1>4, <2>0, <2>2, <2>4, Zenon
  <2>3. CASE CreateOnly(Op(c)) /\ Contended(c) /\ err = RequestConflict
    BY <1>4, <2>0, <2>3, <2>4, Zenon
  <2> QED BY <2>1, <2>2, <2>3 DEF Refusals
<1>6. TrueError(c, r)
  BY <1>2, <1>5, ErrorsApart
<1>7. TrueListing(c, r)
  BY <1>5, ErrorListsNothing
<1> QED BY <1>2, <1>6, <1>7, AnswerTells

\* S3 executes the write.
LEMMA ExecuteWriteTells ==
  ASSUME ObjectsIndInv, ListInv, NEW c \in Clients, ExecuteWrite(c)
  PROVE  Truthful
<1>1. CallsInv
  BY DEF ObjectsIndInv
<1>2. IsWrite(Request(c).op) /\ Request(c).op = Op(c)
  BY <1>1, RequestType DEF ExecuteWrite, Request
<1>3. Op(c).type # "list"
  BY <1>2 DEF IsWrite, CreateOnly, IsOverwrite
<1>4. PICK r : r = Done
  OBVIOUS
<1>5. TrueError(c, r) /\ TrueListing(c, r) /\ Answer(c, r)
  BY <1>3, <1>4, OkTells DEF ExecuteWrite
<1> QED BY <1>5, AnswerTells

\* The reply of a write is lost.
LEMMA LoseReplyTells ==
  ASSUME ObjectsIndInv, ListInv, NEW c \in Clients, LoseReply(c)
  PROVE  Truthful
<1>0. CallsInv /\ call = [d \in Clients |-> call[d]]
      /\ \A d \in Clients : call[d] = Idle \/ CallShape(call[d])
  BY DEF ObjectsIndInv, CallsInv
<1>1. call[c] # Idle /\ CallShape(call[c]) /\ IsWrite(call[c].op)
  BY <1>0, RequestType DEF LoseReply, Request, Op
<1>2. PICK x : x = [call[c] EXCEPT !.phase = "lost", !.took = TRUE]
  OBVIOUS
<1>3. /\ x.op = call[c].op /\ x.rest = call[c].rest /\ x.found = call[c].found
      /\ x.stable = call[c].stable /\ x.phase = "lost" /\ CallShape(x)
  BY <1>1, <1>2 DEF CallShape
<1>4. PICK X : X = [call EXCEPT ![c] = x]
  OBVIOUS
<1>5. call' = Seeing(X, versions')
  <2>1. [call EXCEPT ![c].phase = "lost", ![c].took = TRUE] = X
    BY <1>0, <1>2, <1>4
  <2> QED BY <2>1 DEF LoseReply
<1>6. X = [d \in Clients |-> X[d]] /\ \A d \in Clients : X[d] = IF d = c THEN x ELSE call[d]
  BY <1>0, <1>4
<1>7. \A d \in Clients : \/ X[d] = Idle
                         \/ /\ call[d] # Idle /\ CallShape(X[d]) /\ X[d].op = call[d].op
                            /\ X[d].rest = call[d].rest /\ X[d].found = call[d].found
                            /\ X[d].stable = call[d].stable
  BY <1>0, <1>1, <1>3, <1>6
<1>8. \A d \in Clients : SameListing(call'[d], call[d]) /\ call'[d].phase = X[d].phase
  BY <1>0, <1>5, <1>6, <1>7, SeeingSame
<1>9. \A d \in Clients : Phase(d) # "idle" => Phase(d)' # "idle"
  BY <1>3, <1>6, <1>8 DEF Phase
<1> QED BY <1>8, <1>9, SilentTells

\* The SDK sends the request again.
LEMMA ResendTells ==
  ASSUME ObjectsIndInv, ListInv, NEW c \in Clients, Resend(c)
  PROVE  Truthful
<1>1. call[c] # Idle /\ CallShape(call[c]) /\ call = [d \in Clients |-> call[d]]
  BY CallIs DEF CallsInv, Resend
<1>2. PICK p : p = IF CreateOnly(Op(c)) THEN "sent" ELSE "checked"
  OBVIOUS
<1>3. PICK n : n = call[c].resends + 1
  OBVIOUS
<1>4. PICK x : x = [call[c] EXCEPT !.phase = p, !.resends = n]
  OBVIOUS
<1>5. call' = [call EXCEPT ![c] = x] /\ versions' = versions
  BY <1>1, <1>2, <1>3, <1>4 DEF Resend, CallShape
<1>6. /\ x.op = call[c].op /\ x.rest = call[c].rest /\ x.found = call[c].found
      /\ x.stable = call[c].stable /\ x.phase = p /\ p # "idle"
  BY <1>1, <1>2, <1>4 DEF CallShape
<1> QED BY <1>1, <1>5, <1>6, OwnStepTells DEF Idle

\* A caller without an answer is told that it may try again.
LEMMA GiveUpTells ==
  ASSUME ObjectsIndInv, ListInv, NEW c \in Clients, NEW err \in Unknowns, GiveUp(c, err)
  PROVE  Truthful
<1>1. PICK r : r = map_error(OpClass(c), err)
  OBVIOUS
<1>2. r = Transport(TRUE)
  BY <1>1, UnknownIsRetryable
<1>3. TrueError(c, r) /\ TrueListing(c, r)
  BY <1>2, ErrorsApart, ErrorListsNothing
<1>4. call[c] # Idle
  BY CallIs DEF GiveUp
<1>5. call' = [call EXCEPT ![c] = Idle] /\ versions' = versions /\ answer' = r
  BY <1>1 DEF GiveUp
<1>6. ListInv' /\ \A d \in Clients : Phase(d) # "idle" /\ Phase(d)' = "idle" => d = c
  BY <1>4, <1>5, OwnStepTells
<1> QED BY <1>3, <1>5, <1>6 DEF Truthful, ToldTruth

\* A request whose caller is gone arrives.
LEMMA LateWriteTells ==
  ASSUME ObjectsIndInv, ListInv, NEW r \in late, LateWrite(r)
  PROVE  Truthful
<1>0. CallsInv /\ call = [d \in Clients |-> call[d]]
      /\ \A d \in Clients : call[d] = Idle \/ CallShape(call[d])
  BY DEF ObjectsIndInv, CallsInv
<1>1. PICK X : X = call
  OBVIOUS
<1>2. call' = Seeing(X, versions')
  BY <1>1 DEF LateWrite
<1>3. \A d \in Clients : SameListing(call'[d], call[d]) /\ call'[d].phase = X[d].phase
  BY <1>0, <1>1, <1>2, SeeingSame
<1>4. \A d \in Clients : Phase(d) # "idle" => Phase(d)' # "idle"
  BY <1>1, <1>3 DEF Phase
<1> QED BY <1>3, <1>4, SilentTells

\* The clock moves on, or nothing happens.
LEMMA TickTells ==
  ASSUME ListInv, UNCHANGED <<versions, call>>
  PROVE  Truthful
BY DEF ListInv, Covered, Occupied, Matching, Phase, Truthful, ToldTruth

\* One lemma per action of Next.
LEMMA NextTells ==
  ASSUME ObjectsIndInv, ListInv, Next
  PROVE  Truthful
<1>1. CASE Tick
  BY <1>1, TickTells DEF Tick
<1>2. CASE \E r \in late : LateWrite(r)
  BY <1>2, LateWriteTells
<1>3. ASSUME NEW c \in Clients, \E op \in Calls : Invoke(c, op) PROVE Truthful
  BY <1>3, InvokeTells
<1>4. ASSUME NEW c \in Clients,
             \/ MemoryPut(c) \/ MemoryDelete(c) \/ MemoryExtendRetention(c) \/ ExecuteWrite(c)
             \/ RefuseWrite(c) \/ LoseReply(c) \/ Resend(c)
      PROVE  Truthful
  BY <1>4, MemoryPutTells, MemoryDeleteTells, MemoryExtendTells, ExecuteWriteTells,
     RefuseWriteTells, LoseReplyTells, ResendTells
<1>5. ASSUME NEW c \in Clients,
             \/ MemoryGet(c) \/ MemoryHead(c) \/ MemoryList(c) \/ MemoryGetRetention(c)
             \/ GetObject(c) \/ HeadObject(c) \/ GetObjectRetention(c) \/ ListEnd(c)
      PROVE  Truthful
  BY <1>5, ReadsTell, GetRetentionTells, ListsTell
<1>6. ASSUME NEW c \in Clients, \E k \in Keys : ListPage(c, k) PROVE Truthful
  BY <1>6, ListPageTells
<1>7. ASSUME NEW c \in Clients, CheckOverwrite(c) \/ ResolveVersion(c) \/ CheckExtension(c)
      PROVE  Truthful
  BY <1>7, ChecksTell
<1>8. ASSUME NEW c \in Clients, \E err \in Unknowns : GiveUp(c, err) PROVE Truthful
  BY <1>8, GiveUpTells
<1>9. ASSUME NEW c \in Clients, \E err \in Refusals(c) : ServiceRefuses(c, err) PROVE Truthful
  BY <1>9, ServiceRefusesTells
<1>10. ASSUME Step PROVE Truthful
  BY <1>1, <1>2, <1>3, <1>4, <1>5, <1>6, <1>7, <1>8, <1>10 DEF Step
<1> QED BY <1>9, <1>10 DEF Next

\* Every listing under way has found, or has yet to read, each key under its
\* prefix that has held an object since the call (list, page by page on S3).
THEOREM ListingsCovered == Spec => []ListInv
<1>1. Init => ListInv
  BY DEF Init, ListInv
<1>2. ObjectsIndInv /\ ListInv /\ [Next]_vars => ListInv'
  BY NextTells, TickTells DEF Truthful, vars
<1> QED BY <1>1, <1>2, ObjectsInvariant, PTL DEF Spec

\* Callers are told the truth: each error is given for what it says, but for the
\* two refusals of the service that are read as AlreadyExists and RetentionViolation,
\* and a listing misses no key that was there throughout (classify and map_error per
\* operation, the two requests of put, delete and extend_retention, lost replies,
\* repeated requests and refusals of IAM included).
THEOREM AnswersTrue == Spec => AnswersAreTrue
<1> DEFINE Errors == \A c \in Clients : Ends(c) =>
             LET op == Op(c) error == answer'
             IN  /\ error = AlreadyExists =>
                      /\ CreateOnly(op)
                      /\ Occupied(op.key) \/ (refused' /\ Contended(c))
                 /\ error = NotFound => IF op.type \in {"extend_retention", "get_retention"}
                                        THEN NoLock(op.key) ELSE ~Occupied(op.key)
                 /\ error = RetentionViolation =>
                      \/ HasLock(op.key)
                      \/ op.type = "extend_retention" /\ Over(op)
                      \/ refused' /\ Phase(c) = "checked"
                 /\ error = Transport(FALSE) =>
                      refused' \/ (op.type = "put_with_retention" /\ Over(op))
           Listings == \A c \in Clients :
             Phase(c) = "sent" /\ Op(c).type = "list" /\ Phase(c)' = "idle" /\ answer'.type = "Ok"
               => call[c].stable \subseteq answer'.list
<1>1. ASSUME ObjectsIndInv, ListInv, Next PROVE Errors /\ Listings
  <2>1. ToldTruth
    BY <1>1, NextTells DEF Truthful
  <2>2. Errors
    BY <2>1, Zenon DEF ToldTruth, TrueError, Ends, Over, HasLock
  <2>3. Listings
    BY <2>1 DEF ToldTruth, TrueListing
  <2> QED BY <2>2, <2>3
<1>2. ObjectsIndInv /\ ListInv /\ [Next]_vars => [Errors]_vars /\ [Listings]_vars
  BY <1>1
<1>3. Spec => [][Errors]_vars /\ [][Listings]_vars
  BY <1>2, ObjectsInvariant, ListingsCovered, PTL DEF Spec
<1> QED BY <1>3 DEF AnswersAreTrue, ErrorsSayWhatHappened, ListMissesNothing
=============================================================================
