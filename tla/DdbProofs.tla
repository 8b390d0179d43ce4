----------------------------- MODULE DdbProofs -----------------------------
(***************************************************************************)
(* Proofs about DdbLink and the LagScheduler under it, for any regions,    *)
(* links, keys, contents and deployments.                                  *)
(***************************************************************************)
EXTENDS DdbLink, TLAPS, FiniteSetTheorems, SequenceTheorems, WellFoundedInduction

\* What a queue holds: Pending<K, E> of lag.rs.
DedupKey == Key \X ((Content \cup {Absent}) \X Nat)
Delivery == [key : DedupKey, event : Change, at : Nat]
Scheduler == [policy : Nat \cup {Stalled}, pending : Seq(Delivery), applied : SUBSET DedupKey]

Distinct(q) == \A i, j \in 1..Len(q) : q[i].key = q[j].key => i = j
AllKnown(s, q) == \A i \in 1..Len(q) : is_known(s, q[i].key)

\* The scheduler s, after it gave away the changes in given: what it knows is
\* what it was ever told, once each.
Accounts(s, given) ==
  /\ s \in Scheduler /\ given \in Seq(Delivery)
  /\ Distinct(given \o s.pending)
  /\ AllKnown(s, given \o s.pending)

---------------------------------------------------------------------------
(* Induction over the natural numbers, for sets. *)

\* The order on Nat is well founded (the recursion over a batch of deletions,
\* and the longest due prefix of a queue, rest on it).
LEMMA NatWellFounded ==
  IsWellFoundedOn({ss \in Nat \X Nat : ss[1] < ss[2]}, Nat)
  BY NatLessThanWellFounded DEF OpToRel

\* A set of natural numbers has a least member: where drain_due's prefix ends.
LEMMA LeastNat ==
  ASSUME NEW S \in SUBSET Nat, S # {}
  PROVE  \E x \in S : \A y \in S : x <= y
<1>1. PICK x \in S : \A y \in S : ~ (<<y, x>> \in {ss \in Nat \X Nat : ss[1] < ss[2]})
  BY NatWellFounded, WFMin
<1>2. ASSUME NEW y \in S PROVE x <= y
  <2>1. ~ (<<y, x>> \in {ss \in Nat \X Nat : ss[1] < ss[2]})
    BY <1>1
  <2>2. <<y, x>> \in Nat \X Nat /\ <<y, x>>[1] = y /\ <<y, x>>[2] = x
    OBVIOUS
  <2> QED BY <2>1, <2>2
<1> QED BY <1>2

\* Induction with the hypothesis as a set: the loop over deleted keys in
\* scan_and_discover.
LEMMA SetInduction ==
  ASSUME NEW S, 0 \in S, \A n \in Nat : n \in S => n + 1 \in S
  PROVE  Nat \subseteq S
<1> SUFFICES ASSUME NEW m \in Nat, m \notin S PROVE FALSE
  OBVIOUS
<1>1. PICK x \in Nat \ S : \A y \in Nat \ S : x <= y
  BY LeastNat
<1>2. x # 0 /\ x - 1 \in Nat /\ (x - 1) + 1 = x
  OBVIOUS
<1>3. x - 1 \in S
  BY <1>1, <1>2
<1> QED BY <1>2, <1>3

---------------------------------------------------------------------------
(* The LagScheduler. *)

\* drain_due's prefix exists: it is part of the queue, everything in it is due,
\* and it is empty when the link is stalled.
LEMMA DuePrefix ==
  ASSUME NEW s \in Scheduler, NEW t \in Nat
  PROVE  /\ DueLen(s, t) \in 0..Len(s.pending)
         /\ \A i \in 1..DueLen(s, t) : is_due(s, i, t)
         /\ s.policy = Stalled => DueLen(s, t) = 0
<1> DEFINE L == Len(s.pending)
<1>1. L \in Nat
  BY DEF Scheduler
<1>2. CASE s.policy = Stalled
  BY <1>1, <1>2 DEF DueLen
<1>3. CASE s.policy # Stalled
  <2> DEFINE S == {n \in 0..L : n < L => ~is_due(s, n + 1, t)}
  <2>1. S \in SUBSET Nat /\ L \in S
    BY <1>1
  <2>2. PICK n \in S : \A m \in S : n <= m
    BY <2>1, LeastNat
  <2>3. ASSUME NEW i \in 1..n PROVE is_due(s, i, t)
    <3>1. n \in 0..L
      OBVIOUS
    <3>2. i - 1 \in 0..L /\ i - 1 < n /\ (i - 1) + 1 = i
      BY <1>1, <3>1
    <3>3. ~ (n <= i - 1)
      BY <1>1, <3>1, <3>2
    <3>4. i - 1 \notin S
      BY <2>2, <3>3
    <3> QED BY <3>2, <3>4
  <2>4. \E m \in 0..L : /\ \A i \in 1..m : is_due(s, i, t)
                        /\ m < L => ~is_due(s, m + 1, t)
    BY <2>2, <2>3
  <2> QED BY <1>3, <2>4 DEF DueLen
<1> QED BY <1>2, <1>3

\* discover only adds at the end of the queue, and only a key it does not know.
LEMMA DiscoverAccounts ==
  ASSUME NEW s, NEW given, Accounts(s, given),
         NEW key \in DedupKey, NEW event \in Change, NEW at \in Nat
  PROVE  LET t == discover(s, key, event, at)
         IN  /\ Accounts(t, given) /\ t.policy = s.policy
             /\ t.pending = s.pending \/ t.pending = Append(s.pending, [key |-> key, event |-> event, at |-> at])
<1> DEFINE d == [key |-> key, event |-> event, at |-> at]
           t == [s EXCEPT !.pending = Append(s.pending, d)]
           q == given \o s.pending
           r == given \o t.pending
<1>1. CASE is_known(s, key)
  BY <1>1 DEF discover
<1>2. CASE ~is_known(s, key)
  <2>1. discover(s, key, event, at) = t
    BY <1>2 DEF discover
  <2>2. d \in Delivery /\ d.key = key
    BY DEF Delivery
  <2>3. s \in Scheduler /\ s.pending \in Seq(Delivery) /\ given \in Seq(Delivery)
    BY DEF Accounts, Scheduler
  <2>4. /\ t.pending = Append(s.pending, d) /\ t.policy = s.policy /\ t.applied = s.applied
        /\ t \in Scheduler
    <3> HIDE DEF d
    <3>1. Append(s.pending, d) \in Seq(Delivery)
      BY <2>2, <2>3, AppendProperties
    <3> QED BY <2>3, <3>1 DEF Scheduler
  <2>5. /\ t.pending \in Seq(Delivery) /\ Len(t.pending) = Len(s.pending) + 1
        /\ \A i \in 1..Len(s.pending) : t.pending[i] = s.pending[i]
        /\ t.pending[Len(s.pending) + 1] = d
    BY <2>2, <2>3, <2>4, AppendProperties
  <2>6. /\ Len(s.pending) \in Nat /\ Len(given) \in Nat
        /\ Len(q) = Len(given) + Len(s.pending) /\ Len(r) = Len(q) + 1
        /\ \A i \in 1..Len(q) : q[i] = IF i <= Len(given) THEN given[i] ELSE s.pending[i - Len(given)]
        /\ \A i \in 1..Len(r) : r[i] = IF i <= Len(given) THEN given[i] ELSE t.pending[i - Len(given)]
    <3>1. Len(s.pending) \in Nat /\ Len(given) \in Nat
      BY <2>3
    <3> QED BY SMTT(30), <3>1, <2>3, <2>5, ConcatProperties
  <2>7. (\A i \in 1..Len(q) : r[i] = q[i]) /\ r[Len(q) + 1] = d
    BY <2>5, <2>6
  <2>8. \A i \in 1..Len(q) : q[i].key # key
    BY <1>2 DEF Accounts, AllKnown
  <2>9. Distinct(r)
    <3> SUFFICES ASSUME NEW i \in 1..Len(r), NEW j \in 1..Len(r), r[i].key = r[j].key
                 PROVE  i = j
      BY DEF Distinct
    <3>1. \A x, y \in 1..Len(q) : q[x].key = q[y].key => x = y
      BY DEF Accounts, Distinct
    <3>2. r[Len(q) + 1].key = key /\ Len(q) \in Nat
      BY <2>2, <2>6, <2>7
    <3> HIDE DEF q, r
    <3>3. (i \in 1..Len(q) \/ i = Len(q) + 1) /\ (j \in 1..Len(q) \/ j = Len(q) + 1)
      BY <2>6, <3>2
    <3> QED BY <2>7, <2>8, <3>1, <3>2, <3>3
  <2>10. AllKnown(t, r)
    <3> SUFFICES ASSUME NEW i \in 1..Len(r) PROVE is_known(t, r[i].key)
      BY DEF AllKnown
    <3>1. PendingKeys(s) \subseteq PendingKeys(t) /\ key \in PendingKeys(t)
      BY <2>2, <2>5, <2>6 DEF PendingKeys
    <3>2. \A x \in 1..Len(q) : is_known(s, q[x].key)
      BY DEF Accounts, AllKnown
    <3>3. r[Len(q) + 1].key = key /\ Len(q) \in Nat
      BY <2>2, <2>6, <2>7
    <3> HIDE DEF q, r, t
    <3>4. i \in 1..Len(q) \/ i = Len(q) + 1
      BY <2>6, <3>3
    <3> QED BY <2>4, <2>7, <3>1, <3>2, <3>3, <3>4 DEF is_known
  <2> QED BY <2>1, <2>3, <2>4, <2>9, <2>10 DEF Accounts
<1> QED BY <1>1, <1>2

\* A later state of a scheduler whose queue only grew, by changes found at the
\* time at.
Grew(s, t, at) ==
  /\ t.policy = s.policy
  /\ Len(s.pending) <= Len(t.pending)
  /\ \A i \in 1..Len(s.pending) : t.pending[i] = s.pending[i]
  /\ \A i \in (Len(s.pending) + 1)..Len(t.pending) : t.pending[i].at = at

\* The record of what was discovered grows by exactly what discover queued.
LEMMA QueuedSuffix ==
  ASSUME NEW s \in Scheduler, NEW t \in Scheduler, NEW given \in Seq(Delivery), NEW at,
         Grew(s, t, at)
  PROVE  given \o t.pending = (given \o s.pending) \o NewlyQueued(s, t)
<1>1. PICK p : p = s.pending
  OBVIOUS
<1>2. PICK q : q = t.pending
  OBVIOUS
<1>3. PICK n : n = NewlyQueued(s, t)
  OBVIOUS
<1>4. p \in Seq(Delivery) /\ q \in Seq(Delivery) /\ Len(p) \in Nat /\ Len(q) \in Nat
      /\ Len(given) \in Nat
  BY <1>1, <1>2 DEF Scheduler
<1>5. Len(p) <= Len(q) /\ \A i \in 1..Len(p) : q[i] = p[i]
  BY <1>1, <1>2 DEF Grew
<1>6. /\ n \in Seq(Delivery) /\ Len(n) = Len(q) - Len(p)
      /\ \A i \in 1..Len(n) : n[i] = q[Len(p) + i]
  <2>1. \A i \in (Len(p) + 1)..Len(q) : q[i] \in Delivery
    BY <1>4
  <2>2. n = SubSeq(q, Len(p) + 1, Len(q))
    BY <1>1, <1>2, <1>3 DEF NewlyQueued
  <2>3. /\ n \in Seq(Delivery)
        /\ Len(n) = IF Len(p) + 1 <= Len(q) THEN Len(q) - (Len(p) + 1) + 1 ELSE 0
        /\ \A i \in 1..(Len(q) - (Len(p) + 1) + 1) : n[i] = q[(Len(p) + 1) + i - 1]
    BY <1>4, <2>1, <2>2, SubSeqProperties
  <2>4. Len(n) = Len(q) - Len(p) /\ Len(q) - (Len(p) + 1) + 1 = Len(q) - Len(p)
    BY <1>4, <1>5, <2>3
  <2>5. \A i \in 1..Len(n) : (Len(p) + 1) + i - 1 = Len(p) + i
    BY <1>4, <2>4
  <2> QED BY <2>3, <2>4, <2>5
<1>7. p \o n = q
  <2>1. p \o n \in Seq(Delivery) /\ Len(p \o n) = Len(p) + Len(n)
        /\ \A i \in 1..(Len(p) + Len(n)) : (p \o n)[i] = IF i <= Len(p) THEN p[i] ELSE n[i - Len(p)]
    BY <1>4, <1>6, ConcatProperties
  <2>2. Len(p \o n) = Len(q)
    BY <1>4, <1>6, <2>1
  <2>3. ASSUME NEW i \in 1..Len(q) PROVE (p \o n)[i] = q[i]
    <3>1. CASE i <= Len(p)
      BY <1>4, <1>5, <2>1, <2>2, <3>1
    <3>2. CASE ~(i <= Len(p))
      <4>1. i - Len(p) \in 1..Len(n) /\ Len(p) + (i - Len(p)) = i
        BY <1>4, <1>6, <3>2
      <4>2. (p \o n)[i] = n[i - Len(p)]
        BY <2>1, <2>2, <3>2
      <4> QED BY <1>6, <4>1, <4>2
    <3> QED BY <3>1, <3>2
  <2> QED BY <1>4, <2>1, <2>2, <2>3, SeqEqual
<1>8. (given \o p) \o n = given \o (p \o n)
  BY <1>4, <1>6, ConcatAssociative
<1> QED BY <1>1, <1>2, <1>3, <1>7, <1>8

\* drain_due takes the due prefix off the queue: nothing is lost, reordered or
\* forgotten, nothing is given away early, and nothing at all during a stall.
LEMMA DrainAccounts ==
  ASSUME NEW s, NEW given, Accounts(s, given), NEW t \in Nat,
         \A i \in 1..Len(s.pending) : s.pending[i].at <= t
  PROVE  LET e == drain_due(s, t)
             d == drained(s, t)
         IN  /\ Accounts(e, given \o d) /\ e.policy = s.policy
             /\ (given \o d) \o e.pending = given \o s.pending
             /\ d \in Seq(Delivery)
             /\ \A i \in 1..Len(e.pending) : \E j \in 1..Len(s.pending) : e.pending[i] = s.pending[j]
             /\ \A i \in 1..Len(d) : t - d[i].at >= s.policy
             /\ d # <<>> => s.policy # Stalled
<1>1. PICK n : n = DueLen(s, t)
  OBVIOUS
<1>2. PICK p : p = s.pending
  OBVIOUS
<1>3. PICK d : d = drained(s, t)
  OBVIOUS
<1>4. PICK q : q = rest_after(s, n)
  OBVIOUS
<1>5. PICK a : a = {d[i].key : i \in 1..n}
  OBVIOUS
<1>6. PICK e : e = drain_due(s, t)
  OBVIOUS
<1>7. /\ s \in Scheduler /\ given \in Seq(Delivery) /\ p \in Seq(Delivery) /\ Len(p) \in Nat
      /\ s.policy \in Nat \cup {Stalled} /\ s.applied \in SUBSET DedupKey
  BY <1>2 DEF Accounts, Scheduler
<1>8. n \in 0..Len(p) /\ (\A i \in 1..n : is_due(s, i, t)) /\ (s.policy = Stalled => n = 0)
  BY <1>1, <1>2, <1>7, DuePrefix
<1>9. d = SubSeq(p, 1, n) /\ q = SubSeq(p, n + 1, Len(p))
  BY <1>1, <1>2, <1>3, <1>4 DEF drained, rest_after
<1>10. /\ d \in Seq(Delivery) /\ Len(d) = n /\ \A i \in 1..n : d[i] = p[i]
  <2>1. \A i \in 1..n : p[i] \in Delivery
    BY <1>7, <1>8
  <2>2. /\ d \in Seq(Delivery) /\ Len(d) = IF 1 <= n THEN n - 1 + 1 ELSE 0
        /\ \A i \in 1..(n - 1 + 1) : d[i] = p[1 + i - 1]
    BY <1>8, <1>9, <2>1, SubSeqProperties
  <2> QED BY <1>8, <2>2
<1>11. /\ q \in Seq(Delivery) /\ Len(q) = Len(p) - n /\ \A i \in 1..Len(q) : q[i] = p[n + i]
  <2>1. \A i \in (n + 1)..Len(p) : p[i] \in Delivery
    BY <1>7, <1>8
  <2>2. /\ q \in Seq(Delivery) /\ Len(q) = IF n + 1 <= Len(p) THEN Len(p) - (n + 1) + 1 ELSE 0
        /\ \A i \in 1..(Len(p) - (n + 1) + 1) : q[i] = p[(n + 1) + i - 1]
    BY <1>7, <1>8, <1>9, <2>1, SubSeqProperties
  <2>3. Len(q) = Len(p) - n /\ Len(p) - (n + 1) + 1 = Len(p) - n
    BY <1>7, <1>8, <2>2
  <2>4. \A i \in 1..Len(q) : (n + 1) + i - 1 = n + i
    BY <1>7, <1>8, <2>3
  <2> QED BY <2>2, <2>3, <2>4
<1>12. d \o q = p
  <2>1. n \in (1 - 1)..Len(p) /\ Len(p) \in n..Len(p) /\ 1 \in 1..(Len(p) + 1)
    BY <1>7, <1>8
  <2>2. d \o q = SubSeq(p, 1, Len(p))
    BY <1>7, <1>9, <2>1, ConcatAdjacentSubSeq
  <2> QED BY <1>7, <2>2, SubSeqFull
<1>13. /\ e.policy = s.policy /\ e.pending = q /\ e.applied = s.applied \cup a
       /\ e \in Scheduler
  <2>1. e = [s EXCEPT !.pending = q, !.applied = s.applied \cup a]
    BY <1>1, <1>3, <1>4, <1>5, <1>6 DEF drain_due
  <2>2. a \subseteq DedupKey
    <3>1. \A i \in 1..n : d[i] \in Delivery
      BY <1>7, <1>8, <1>10
    <3> QED BY <1>5, <3>1 DEF Delivery
  <2> QED BY <1>7, <1>11, <2>1, <2>2 DEF Scheduler
<1>14. (given \o d) \o q = given \o p
  <2>1. given \in Seq(Delivery) /\ d \in Seq(Delivery) /\ q \in Seq(Delivery)
    BY <1>7, <1>10, <1>11
  <2>2. (given \o d) \o q = given \o (d \o q)
    BY SMTT(30), <2>1, ConcatAssociative
  <2> QED BY <1>12, <2>2
<1>15. given \o d \in Seq(Delivery)
  BY <1>7, <1>10, ConcatProperties
<1>16. Distinct(given \o p)
  BY <1>2 DEF Accounts
<1>17. AllKnown(e, given \o p)
  <2> SUFFICES ASSUME NEW i \in 1..Len(given \o p) PROVE is_known(e, (given \o p)[i].key)
    BY DEF AllKnown
  <2>1. PICK k : k = (given \o p)[i].key
    OBVIOUS
  <2>2. k \in s.applied \/ \E j \in 1..Len(p) : k = p[j].key
    <3>1. is_known(s, k)
      BY <1>2, <2>1 DEF Accounts, AllKnown
    <3> QED BY <1>2, <3>1 DEF is_known, PendingKeys
  <2>3. ASSUME NEW j \in 1..Len(p), k = p[j].key PROVE is_known(e, k)
    <3>1. CASE j <= n
      <4>1. j \in 1..n /\ k = d[j].key
        BY <1>7, <1>8, <1>10, <2>3, <3>1
      <4> QED BY <1>5, <1>13, <4>1 DEF is_known
    <3>2. CASE j > n
      <4>1. j - n \in 1..Len(q) /\ n + (j - n) = j
        BY <1>7, <1>8, <1>11, <3>2
      <4>2. k = q[j - n].key
        BY <1>11, <2>3, <4>1
      <4> QED BY <1>13, <4>1, <4>2 DEF is_known, PendingKeys
    <3> QED BY <1>7, <1>8, <3>1, <3>2
  <2>4. k \in s.applied => is_known(e, k)
    BY <1>13 DEF is_known
  <2> QED BY <2>1, <2>2, <2>3, <2>4
<1>18. Accounts(e, given \o d)
  BY <1>13, <1>14, <1>15, <1>16, <1>17 DEF Accounts
<1>19. \A i \in 1..Len(q) : \E j \in 1..Len(p) : q[i] = p[j]
  <2> SUFFICES ASSUME NEW i \in 1..Len(q) PROVE n + i \in 1..Len(p) /\ q[i] = p[n + i]
    OBVIOUS
  <2> QED BY <1>7, <1>8, <1>11
<1>20. ASSUME NEW i \in 1..Len(d) PROVE t - d[i].at >= s.policy
  <2>1. i \in 1..n /\ i \in 1..Len(p) /\ d[i] = p[i]
    BY <1>7, <1>8, <1>10
  <2>2. Age(p[i], t) >= s.policy
    BY <1>2, <1>8, <2>1 DEF is_due
  <2>3. p[i].at <= t
    BY <1>2, <2>1
  <2>4. p[i].at \in Nat
    <3>1. p[i] \in Delivery
      BY <1>7, <2>1
    <3> QED BY <3>1 DEF Delivery
  <2>5. Age(p[i], t) = t - p[i].at
    BY <2>3, <2>4 DEF Age
  <2> QED BY <2>1, <2>2, <2>5
<1>21. d # <<>> => s.policy # Stalled
  BY <1>8, <1>10
<1> QED BY <1>2, <1>3, <1>6, <1>10, <1>13, <1>14, <1>18, <1>19, <1>20, <1>21

\* The deletions of one scan are discovered one vanished key at a time, in the
\* order the set yields them: after[n] is the scheduler after n of them.
LEMMA DeletedUnrolls ==
  ASSUME NEW l, NEW ks \in Seq(Key)
  PROVE  \E after :
           /\ after[0] = sched[l]
           /\ \A n \in 1..Len(ks) :
                after[n] = discover(after[n - 1], DdbKey(ks[n], scan[l].seen[ks[n]]),
                                    Event(ks[n], scan[l].seen[ks[n]]), scan[l].at)
           /\ DiscoverDeleted(l, ks) = after[Len(ks)]
<1> DEFINE step(s, n) == discover(s, DdbKey(ks[n], scan[l].seen[ks[n]]),
                                  Event(ks[n], scan[l].seen[ks[n]]), scan[l].at)
           N == Len(ks)
           s0 == sched[l]
           rec(f, m) == [n \in 0..m |-> IF n = 0 THEN s0 ELSE step(f[n - 1], n)]
<1>1. N \in Nat
  OBVIOUS
<1> HIDE DEF step, N, s0
<1> DEFINE S == {m \in Nat : m <= N => \E f : f = rec(f, m)}
<1>2. 0 \in S
  <2>1. PICK f : f = [n \in 0..0 |-> s0]
    OBVIOUS
  <2>2. f = rec(f, 0)
    BY <2>1
  <2> QED BY <2>2
<1>3. ASSUME NEW m \in Nat, m \in S PROVE m + 1 \in S
  <2> SUFFICES ASSUME m + 1 <= N
               PROVE  \E f : f = rec(f, m + 1)
    OBVIOUS
  <2>1. PICK f : f = rec(f, m)
    BY <1>1, <1>3
  <2>2. PICK g : g = [n \in 0..(m + 1) |-> IF n <= m THEN f[n] ELSE step(f[m], m + 1)]
    OBVIOUS
  <2>3. (\A n \in 0..m : g[n] = f[n]) /\ g[m + 1] = step(f[m], m + 1)
    BY <2>2
  <2>4. \A n \in 0..m : f[n] = IF n = 0 THEN s0 ELSE step(f[n - 1], n)
    BY <2>1
  <2>5. ASSUME NEW n \in 0..(m + 1) PROVE g[n] = IF n = 0 THEN s0 ELSE step(g[n - 1], n)
    <3>1. CASE n = 0
      <4>1. 0 \in 0..m
        OBVIOUS
      <4>2. g[0] = f[0] /\ f[0] = s0
        BY <2>3, <2>4, <4>1
      <4> QED BY <3>1, <4>2
    <3>2. CASE n \in 1..m
      <4>1. n \in 0..m /\ n - 1 \in 0..m /\ n # 0
        BY <3>2
      <4> QED BY <2>3, <2>4, <4>1
    <3>3. CASE n = m + 1
      <4>1. n # 0 /\ n - 1 = m /\ m \in 0..m
        BY <3>3
      <4> QED BY <2>3, <3>3, <4>1
    <3> QED BY <3>1, <3>2, <3>3
  <2>6. g = rec(g, m + 1)
    BY <2>2, <2>5
  <2> QED BY <2>6
<1>4. N \in S
  BY <1>1, <1>2, <1>3, SetInduction
<1>5. \E f : f = rec(f, N)
  BY <1>1, <1>4
<1>6. PICK f : f = (CHOOSE f_1 : f_1 = rec(f_1, N))
  OBVIOUS
<1>7. f = rec(f, N)
  BY <1>5, <1>6
<1>8. DiscoverDeleted(l, ks) = f[N]
  BY <1>6 DEF DiscoverDeleted, step, s0, N
<1>9. \A n \in 0..N : f[n] = IF n = 0 THEN s0 ELSE step(f[n - 1], n)
  BY <1>7
<1>10. f[0] = s0 /\ \A n \in 1..N : f[n] = step(f[n - 1], n)
  <2>1. 0 \in 0..N /\ \A n \in 1..N : n \in 0..N /\ n # 0
    BY <1>1
  <2> QED BY <1>9, <2>1
<1> QED BY <1>8, <1>10 DEF step, s0, N

\* The deletions of one scan: DiscoverDeleted is discover, one vanished key at
\* a time, whatever the order in which the set yields them.
LEMMA DeletedAccounts ==
  ASSUME NEW l, NEW given, NEW ks, NEW at \in Nat,
         Accounts(sched[l], given),
         ks \in Seq(Key),
         scan[l].seen \in [Key -> [content : Content \cup {Absent}, ts : Nat]],
         scan[l].at = at
  PROVE  /\ Accounts(DiscoverDeleted(l, ks), given)
         /\ Grew(sched[l], DiscoverDeleted(l, ks), at)
<1> DEFINE step(s, n) == discover(s, DdbKey(ks[n], scan[l].seen[ks[n]]),
                                  Event(ks[n], scan[l].seen[ks[n]]), scan[l].at)
           N == Len(ks)
           s0 == sched[l]
           G(s) == Accounts(s, given) /\ Grew(s0, s, at)
<1>1. N \in Nat
  OBVIOUS
<1>2. G(s0)
  BY DEF Accounts, Grew, Scheduler
<1>3. ASSUME NEW s, G(s), NEW n \in 1..N PROVE G(step(s, n))
  <2>1. PICK k : k = ks[n]
    OBVIOUS
  <2>2. PICK item : item = scan[l].seen[k]
    OBVIOUS
  <2>3. k \in Key /\ item \in [content : Content \cup {Absent}, ts : Nat]
    BY <1>1, <2>1, <2>2
  <2>4. DdbKey(k, item) \in DedupKey /\ Event(k, item) \in Change
    BY <2>3 DEF DdbKey, fingerprint_of, DedupKey, Event, Change
  <2>5. PICK t : t = discover(s, DdbKey(k, item), Event(k, item), at)
    OBVIOUS
  <2>6. t = step(s, n)
    BY <2>1, <2>2, <2>5
  <2>7. PICK d : d = [key |-> DdbKey(k, item), event |-> Event(k, item), at |-> at]
    OBVIOUS
  <2>8. /\ Accounts(t, given) /\ t.policy = s.policy
        /\ t.pending = s.pending \/ t.pending = Append(s.pending, d)
    BY <1>3, <2>4, <2>5, <2>7, DiscoverAccounts
  <2>9. d.at = at /\ d \in Delivery
    BY <2>4, <2>7 DEF Delivery
  <2>10. Grew(s0, t, at)
    <3>1. s.pending \in Seq(Delivery) /\ s0.pending \in Seq(Delivery)
      BY <1>2, <1>3 DEF Accounts, Scheduler
    <3>2. PICK p : p = s.pending
      OBVIOUS
    <3>3. PICK p0 : p0 = s0.pending
      OBVIOUS
    <3>4. PICK q : q = t.pending
      OBVIOUS
    <3>5. p \in Seq(Delivery) /\ Len(p) \in Nat /\ Len(p0) \in Nat
      BY <3>1, <3>2, <3>3
    <3>6. /\ Len(p0) <= Len(p) /\ \A i \in 1..Len(p0) : p[i] = p0[i]
          /\ \A i \in (Len(p0) + 1)..Len(p) : p[i].at = at
      BY <1>3, <3>2, <3>3 DEF Grew
    <3>7. CASE q = p
      BY <1>3, <2>8, <3>2, <3>4, <3>7 DEF Grew
    <3>8. CASE q = Append(p, d)
      <4>1. Len(q) = Len(p) + 1 /\ (\A i \in 1..Len(p) : q[i] = p[i]) /\ q[Len(p) + 1] = d
        BY <2>9, <3>5, <3>8, AppendProperties
      <4>2. Len(p0) <= Len(q) /\ \A i \in 1..Len(p0) : q[i] = p0[i]
        <5>1. Len(p0) <= Len(q) /\ \A i \in 1..Len(p0) : i \in 1..Len(p)
          BY <3>5, <3>6, <4>1
        <5> QED BY <3>6, <4>1, <5>1
      <4>3. ASSUME NEW i \in (Len(p0) + 1)..Len(q) PROVE q[i].at = at
        <5>1. i \in (Len(p0) + 1)..Len(p) \/ i = Len(p) + 1
          BY <3>5, <4>1
        <5>2. i \in (Len(p0) + 1)..Len(p) => i \in 1..Len(p)
          BY <3>5
        <5> QED BY <2>9, <3>6, <4>1, <5>1, <5>2
      <4>4. t.policy = s0.policy
        BY <1>3, <2>8 DEF Grew
      <4> QED BY <3>3, <3>4, <4>2, <4>3, <4>4 DEF Grew
    <3> QED BY <2>8, <3>2, <3>4, <3>7, <3>8
  <2> QED BY <2>6, <2>8, <2>10
<1> HIDE DEF step, G, N, s0
<1>4. PICK f : /\ f[0] = s0 /\ \A n \in 1..N : f[n] = step(f[n - 1], n)
               /\ DiscoverDeleted(l, ks) = f[N]
  BY DeletedUnrolls DEF step, s0, N
<1> DEFINE T == {m \in Nat : m <= N => G(f[m])}
<1>5. 0 \in T
  BY <1>1, <1>2, <1>4
<1>6. ASSUME NEW m \in Nat, m \in T PROVE m + 1 \in T
  <2> SUFFICES ASSUME m + 1 <= N PROVE G(f[m + 1])
    OBVIOUS
  <2>1. G(f[m]) /\ m + 1 \in 1..N /\ (m + 1) - 1 = m
    BY <1>1, <1>6
  <2>2. f[m + 1] = step(f[m], m + 1)
    BY <1>4, <2>1
  <2> QED BY <1>3, <2>1, <2>2
<1>7. N \in T
  BY <1>1, <1>5, <1>6, SetInduction
<1>8. G(f[N])
  BY <1>1, <1>7
<1> QED BY <1>4, <1>8 DEF G, s0

---------------------------------------------------------------------------
(* The inductive invariant. *)

Scan == [at : 0..setup.max_time, todo : SUBSET Key, seen : [Key -> Item]]

StateInv ==
  /\ setup \in Setups
  /\ table \in [Region -> [Key -> Item]]
  /\ \A r \in Region, k \in Key : table[r][k].content = Absent => table[r][k].ts = NoTs
  /\ now \in 1..setup.max_time
  /\ control \in [Links -> [lag : setup.policies, paused : BOOLEAN]]
  /\ known_live_keys \in [Links -> SUBSET Key]
  /\ pc \in [Links -> {"idle", "scan", "apply"}]
  /\ scan \in [Links -> Scan]
  /\ applied_at \in [Links -> 0..setup.max_time] /\ ended \in [Links -> 0..setup.max_time]
  /\ writes \in 0..setup.max_writes /\ failures \in 0..setup.max_failures
  /\ sched \in [Links -> Scheduler] /\ due \in [Links -> Seq(Delivery)]
  /\ sent \in [Links -> Seq(Delivery)] /\ discovered \in [Links -> Seq(Delivery)]

\* The queue of a link and what it gave away account for everything
\* discovered, nothing in it is from the future, and a batch is under way
\* exactly while there is a change of it left to apply.
LinkInv(l) ==
  /\ Accounts(sched[l], sent[l] \o due[l])
  /\ discovered[l] = (sent[l] \o due[l]) \o sched[l].pending
  /\ sched[l].policy \in setup.policies
  /\ \A i \in 1..Len(sched[l].pending) : sched[l].pending[i].at \in 1..now
  /\ pc[l] = "scan" => scan[l].at \in 1..now
  /\ pc[l] = "apply" <=> due[l] # <<>>
  /\ pc[l] = "apply" => /\ sched[l].policy # Stalled
                        /\ \A i \in 1..Len(due[l]) : applied_at[l] - due[l][i].at >= sched[l].policy

DdbIndInv == StateInv /\ \A l \in Links : LinkInv(l)

\* What a deployment is: its parts are parts of the configuration (config.rs).
LEMMA SetupParts ==
  ASSUME setup \in Setups
  PROVE  /\ setup.max_time \in Nat \ {0} /\ setup.max_writes \in Nat /\ setup.max_failures \in Nat
         /\ setup.policies \subseteq Nat \cup {Stalled} /\ setup.initial_lag \in setup.policies
         /\ setup.keys \subseteq Key /\ setup.contents \subseteq Content
         /\ setup.links \subseteq Links /\ setup.writers \subseteq Region
  BY DdbLinkAssumption DEF Setup

\* A link that a step does not touch keeps its account, also while time passes.
LEMMA LinkKept ==
  ASSUME NEW l, LinkInv(l), now \in Int, now' \in Int, now <= now', setup' = setup,
         sched'[l] = sched[l], sent'[l] = sent[l], due'[l] = due[l], pc'[l] = pc[l],
         discovered'[l] = discovered[l], scan'[l] = scan[l], applied_at'[l] = applied_at[l]
  PROVE  LinkInv(l)'
<1>1. \A x : x \in 1..now => x \in 1..now'
  OBVIOUS
<1> QED BY <1>1 DEF LinkInv, Accounts, AllKnown, is_known, PendingKeys

\* The scheduler of a link that just started: LagScheduler::new.
LEMMA NewAccounts ==
  ASSUME NEW policy \in Nat \cup {Stalled}
  PROVE  /\ new(policy) \in Scheduler /\ new(policy).policy = policy /\ new(policy).pending = <<>>
         /\ <<>> \o <<>> = <<>> /\ Accounts(new(policy), <<>>)
<1>1. new(policy) \in Scheduler /\ new(policy).policy = policy /\ new(policy).pending = <<>>
  BY DEF new, Scheduler
<1>2. <<>> \in Seq(Delivery) /\ <<>> \o <<>> = <<>> /\ Len(<<>>) = 0
  BY ConcatEmptySeq
<1> QED BY <1>1, <1>2 DEF Accounts, Distinct, AllKnown

\* A fresh deployment satisfies the invariant (main.rs starts the pollers).
LEMMA DdbInit == Init => DdbIndInv
<1> SUFFICES ASSUME Init PROVE DdbIndInv
  OBVIOUS
<1>1. setup \in Setups
  BY DEF Init
<1>2. PICK lag : lag = setup.initial_lag
  OBVIOUS
<1>3. lag \in setup.policies /\ lag \in Nat \cup {Stalled}
  BY <1>1, <1>2, SetupParts
<1>4. <<>> \in Seq(Delivery)
  OBVIOUS
<1>5. NoItem \in Item /\ NoItem.ts = NoTs
  BY <1>1, SetupParts DEF NoItem, Item, NoTs
<1>6. NoScan \in Scan
  BY <1>1, <1>5, SetupParts DEF NoScan, Scan
<1>7. StateInv
  <2>1. sched \in [Links -> Scheduler]
    BY <1>2, <1>3, NewAccounts DEF Init
  <2>2. scan \in [Links -> Scan]
    BY <1>6 DEF Init
  <2>3. table \in [Region -> [Key -> Item]]
    BY <1>5 DEF Init
  <2>4. control \in [Links -> [lag : setup.policies, paused : BOOLEAN]]
    BY <1>2, <1>3 DEF Init
  <2>5. \A r \in Region, k \in Key : table[r][k].ts = NoTs
    BY <1>5 DEF Init
  <2> QED BY <1>1, <1>4, <2>1, <2>2, <2>3, <2>4, <2>5, SetupParts DEF Init, StateInv
<1>8. ASSUME NEW l \in Links PROVE LinkInv(l)
  <2>1. /\ sched[l] = new(lag) /\ sent[l] = <<>> /\ due[l] = <<>> /\ discovered[l] = <<>>
        /\ pc[l] = "idle"
    BY <1>2 DEF Init
  <2> QED BY <1>3, <2>1, NewAccounts DEF LinkInv
<1> QED BY <1>7, <1>8 DEF DdbIndInv

\* Every part of the invariant of a step that touches one link.
LEMMA OtherLinks ==
  ASSUME NEW l \in Links, DdbIndInv, StateInv', LinkInv(l)',
         setup' = setup, now' = now, now \in Int,
         \A m \in Links \ {l} :
           /\ sched'[m] = sched[m] /\ sent'[m] = sent[m] /\ due'[m] = due[m] /\ pc'[m] = pc[m]
           /\ discovered'[m] = discovered[m] /\ scan'[m] = scan[m] /\ applied_at'[m] = applied_at[m]
  PROVE  DdbIndInv'
<1>1. ASSUME NEW m \in Links, m # l PROVE LinkInv(m)'
  <2>1. LinkInv(m) /\ now <= now' /\ now' \in Int
    BY DEF DdbIndInv
  <2> QED BY <1>1, <2>1, LinkKept
<1> QED BY <1>1 DEF DdbIndInv

---------------------------------------------------------------------------
(* The application, the control endpoint and the clock. *)

\* A step that leaves the pollers alone.
Untouched ==
  /\ setup' = setup
  /\ UNCHANGED <<process, history>>
  /\ \/ now' = now
     \/ Tick

\* The application's writes, lag and pause posts and the passing of time leave
\* every link's account as it is.
LEMMA PollersKept ==
  ASSUME DdbIndInv, Untouched
  PROVE  \A l \in Links : LinkInv(l)'
<1> SUFFICES ASSUME NEW l \in Links PROVE LinkInv(l)'
  OBVIOUS
<1>1. LinkInv(l) /\ now \in 1..setup.max_time /\ setup.max_time \in Nat
  BY SetupParts DEF DdbIndInv, StateInv
<1>2. now \in Int /\ now' \in Int /\ now <= now' /\ setup' = setup
  BY <1>1 DEF Untouched, Tick
<1>3. /\ sched' = sched /\ sent' = sent /\ due' = due /\ pc' = pc /\ discovered' = discovered
      /\ scan' = scan /\ applied_at' = applied_at
  BY DEF Untouched, process, history
<1> QED BY <1>1, <1>2, <1>3, LinkKept

\* PutItem and DeleteItem of the application.
LEMMA AppWriteKeeps ==
  ASSUME DdbIndInv, setup' = setup,
         NEW r \in setup.writers, NEW k \in setup.keys, NEW c \in setup.contents \cup {Absent},
         app_write(r, k, c)
  PROVE  DdbIndInv'
<1>1. StateInv
  BY DEF DdbIndInv
<1>2. r \in Region /\ k \in Key /\ c \in Content \cup {Absent} /\ setup.max_time \in Nat
      /\ setup.max_writes \in Nat
  BY <1>1, SetupParts DEF StateInv
<1>3. PICK item : item = [content |-> c, ts |-> NoTs]
  OBVIOUS
<1>4. item \in Item /\ item.ts = NoTs
  BY <1>2, <1>3 DEF Item, NoTs
<1>5. table' = [table EXCEPT ![r][k] = item]
  BY <1>3 DEF app_write
<1>6. table \in [Region -> [Key -> Item]]
  BY <1>1 DEF StateInv
<1>7. table' \in [Region -> [Key -> Item]]
  BY <1>2, <1>4, <1>5, <1>6
<1>8. \A x \in Region, y \in Key : table'[x][y] = item \/ table'[x][y] = table[x][y]
  BY <1>5, <1>6
<1>9. \A x \in Region, y \in Key : table'[x][y].content = Absent => table'[x][y].ts = NoTs
  <2>1. \A x \in Region, y \in Key : table[x][y].content = Absent => table[x][y].ts = NoTs
    BY <1>1, Zenon DEF StateInv
  <2> QED BY <1>4, <1>8, <2>1, Zenon
<1>10. writes' \in 0..setup.max_writes
  BY <1>1, <1>2 DEF app_write, StateInv
<1>11. UNCHANGED <<process, history, now, control, failures>>
  BY DEF app_write
<1>12. StateInv'
  BY <1>1, <1>7, <1>9, <1>10, <1>11 DEF StateInv, Item, Scan, process, history
<1>13. Untouched
  BY <1>11 DEF Untouched
<1> QED BY <1>12, <1>13, PollersKept DEF DdbIndInv

\* The lag and pause endpoints of control.rs.
LEMMA PostKeeps ==
  ASSUME DdbIndInv, setup' = setup, NEW l \in Links,
         \/ \E policy \in setup.policies : post_lag(l, policy)
         \/ \E paused \in BOOLEAN : post_pause(l, paused)
  PROVE  DdbIndInv'
<1>1. StateInv
  BY DEF DdbIndInv
<1>2. control' \in [Links -> [lag : setup.policies, paused : BOOLEAN]]
  <2>1. control \in [Links -> [lag : setup.policies, paused : BOOLEAN]]
    BY <1>1 DEF StateInv
  <2>2. ASSUME NEW policy \in setup.policies, post_lag(l, policy)
        PROVE  control' \in [Links -> [lag : setup.policies, paused : BOOLEAN]]
    BY <2>1, <2>2 DEF post_lag
  <2>3. ASSUME NEW paused \in BOOLEAN, post_pause(l, paused)
        PROVE  control' \in [Links -> [lag : setup.policies, paused : BOOLEAN]]
    BY <2>1, <2>3 DEF post_pause
  <2> QED BY <2>2, <2>3
<1>3. UNCHANGED <<table, now, process, history, writes, failures>>
  BY DEF post_lag, post_pause
<1>4. StateInv'
  BY <1>1, <1>2, <1>3 DEF StateInv, Item, Scan, process, history
<1>5. Untouched
  BY <1>3 DEF Untouched
<1> QED BY <1>4, <1>5, PollersKept DEF DdbIndInv

\* The clock.
LEMMA TickKeeps ==
  ASSUME DdbIndInv, setup' = setup, Tick
  PROVE  DdbIndInv'
<1>1. StateInv
  BY DEF DdbIndInv
<1>2. now' \in 1..setup.max_time
  BY <1>1, SetupParts DEF Tick, StateInv
<1>3. UNCHANGED <<table, control, process, history, writes, failures>>
  BY DEF Tick
<1>4. StateInv'
  BY <1>1, <1>2, <1>3 DEF StateInv, Item, Scan, process, history
<1>5. Untouched
  BY <1>3 DEF Untouched
<1> QED BY <1>4, <1>5, PollersKept DEF DdbIndInv

---------------------------------------------------------------------------
(* The poll loop. *)

\* set_policy changes when changes are due, not which are known.
LEMMA PolicyAccounts ==
  ASSUME NEW s, NEW given, Accounts(s, given), NEW policy \in Nat \cup {Stalled}
  PROVE  LET t == set_policy(s, policy)
         IN  /\ Accounts(t, given) /\ t.policy = policy /\ t.pending = s.pending /\ t \in Scheduler
<1>1. PICK t : t = set_policy(s, policy)
  OBVIOUS
<1>2. s \in Scheduler
  BY DEF Accounts
<1>3. /\ t \in Scheduler /\ t.policy = policy /\ t.pending = s.pending /\ t.applied = s.applied
  BY <1>1, <1>2 DEF set_policy, Scheduler
<1>4. \A key : is_known(t, key) <=> is_known(s, key)
  BY <1>3 DEF is_known, PendingKeys
<1> QED BY <1>1, <1>3, <1>4 DEF Accounts, AllKnown

\* run_one_cycle up to the first page of the scan.
LEMMA BeginKeeps ==
  ASSUME DdbIndInv, setup' = setup, NEW l \in Links, begin_cycle(l)
  PROVE  DdbIndInv'
<1>1. StateInv /\ LinkInv(l)
  BY DEF DdbIndInv
<1>2. PICK policy : policy = control[l].lag
  OBVIOUS
<1>3. policy \in setup.policies /\ policy \in Nat \cup {Stalled}
  BY <1>1, <1>2, SetupParts DEF StateInv
<1>4. PICK s : s = set_policy(sched[l], policy)
  OBVIOUS
<1>5. PICK given : given = sent[l] \o due[l]
  OBVIOUS
<1>6. Accounts(s, given) /\ s.policy = policy /\ s.pending = sched[l].pending /\ s \in Scheduler
  BY <1>1, <1>3, <1>4, <1>5, PolicyAccounts DEF LinkInv
<1>7. sched' = [sched EXCEPT ![l] = s] /\ sched \in [Links -> Scheduler] /\ pc[l] = "idle"
  BY <1>1, <1>2, <1>4 DEF begin_cycle, StateInv
<1>8. sched' \in [Links -> Scheduler] /\ sched'[l] = s /\ \A m \in Links \ {l} : sched'[m] = sched[m]
  BY <1>6, <1>7
<1>9. UNCHANGED <<table, now, control, known_live_keys, due, applied_at, writes, failures, history>>
  BY DEF begin_cycle
<1>10. now \in 1..setup.max_time /\ setup.max_time \in Nat
  BY <1>1, SetupParts DEF StateInv
<1>11. /\ ended' \in [Links -> 0..setup.max_time] /\ pc' \in [Links -> {"idle", "scan", "apply"}]
       /\ scan' \in [Links -> Scan]
       /\ \A m \in Links \ {l} : pc'[m] = pc[m] /\ scan'[m] = scan[m]
       /\ pc'[l] = "idle" \/ (pc'[l] = "scan" /\ scan'[l].at = now)
  <2>1. /\ ended \in [Links -> 0..setup.max_time] /\ pc \in [Links -> {"idle", "scan", "apply"}]
        /\ scan \in [Links -> Scan]
    BY <1>1 DEF StateInv
  <2>2. CASE control[l].paused
    BY <1>7, <1>10, <2>1, <2>2 DEF begin_cycle
  <2>3. CASE ~control[l].paused
    <3>1. PICK sc : sc = [NoScan EXCEPT !.at = now, !.todo = setup.keys]
      OBVIOUS
    <3>2. sc \in Scan /\ sc.at = now
      <4>1. NoItem \in Item
        BY <1>10 DEF NoItem, Item, NoTs
      <4>2. setup.keys \subseteq Key
        BY <1>1, SetupParts DEF StateInv
      <4>3. sc = [at |-> now, todo |-> setup.keys, seen |-> [k \in Key |-> NoItem]]
        BY <3>1 DEF NoScan
      <4> QED BY <1>10, <4>1, <4>2, <4>3 DEF Scan
    <3>3. scan' = [scan EXCEPT ![l] = sc] /\ pc' = [pc EXCEPT ![l] = "scan"] /\ ended' = ended
      BY <2>3, <3>1 DEF begin_cycle
    <3> QED BY <2>1, <3>2, <3>3
  <2> QED BY <2>2, <2>3
<1>12. StateInv'
  BY <1>1, <1>8, <1>9, <1>11 DEF StateInv, Item, Scan, history
<1>13. LinkInv(l)'
  <2>1. /\ sched'[l] = s /\ sent'[l] = sent[l] /\ due'[l] = due[l] /\ discovered'[l] = discovered[l]
        /\ now' = now
    BY <1>8, <1>9 DEF history
  <2>2. due[l] = <<>>
    BY <1>1, <1>7 DEF LinkInv
  <2>3. (sent[l] \o due[l])' = given
    BY <1>5, <2>1
  <2>4. Accounts(sched[l], sent[l] \o due[l])'
    BY <1>6, <2>1, <2>3
  <2>5. /\ discovered[l] = given \o s.pending
        /\ \A i \in 1..Len(s.pending) : s.pending[i].at \in 1..now
    BY <1>1, <1>5, <1>6 DEF LinkInv
  <2>6. (discovered[l] = (sent[l] \o due[l]) \o sched[l].pending)'
    BY <2>1, <2>3, <2>5
  <2>7. (\A i \in 1..Len(sched[l].pending) : sched[l].pending[i].at \in 1..now)'
    BY <2>1, <2>5
  <2>8. pc'[l] # "apply" /\ due'[l] = <<>>
    BY <1>11, <2>1, <2>2
  <2>9. (pc[l] = "scan" => scan[l].at \in 1..now)'
    BY <1>10, <1>11, <2>1
  <2> QED BY <1>3, <1>6, <2>1, <2>4, <2>6, <2>7, <2>8, <2>9 DEF LinkInv
<1>14. now \in Int /\ now' = now
  BY <1>9, <1>10
<1>15. \A m \in Links \ {l} :
         /\ sched'[m] = sched[m] /\ sent'[m] = sent[m] /\ due'[m] = due[m] /\ pc'[m] = pc[m]
         /\ discovered'[m] = discovered[m] /\ scan'[m] = scan[m] /\ applied_at'[m] = applied_at[m]
  BY <1>8, <1>9, <1>11 DEF history
<1> QED BY <1>12, <1>13, <1>14, <1>15, OtherLinks

\* A queue that grew by changes of a scan under way holds nothing from the future.
LEMMA GrownTimes ==
  ASSUME NEW s \in Scheduler, NEW t \in Scheduler, NEW now_ \in Nat, NEW at \in 1..now_,
         Grew(s, t, at), \A i \in 1..Len(s.pending) : s.pending[i].at \in 1..now_
  PROVE  \A i \in 1..Len(t.pending) : t.pending[i].at \in 1..now_
<1> SUFFICES ASSUME NEW i \in 1..Len(t.pending) PROVE t.pending[i].at \in 1..now_
  OBVIOUS
<1>1. Len(s.pending) \in Nat /\ Len(t.pending) \in Nat
  BY DEF Scheduler
<1>2. CASE i <= Len(s.pending)
  <2>1. i \in 1..Len(s.pending)
    BY <1>1, <1>2
  <2>2. t.pending[i] = s.pending[i]
    BY <2>1 DEF Grew
  <2> QED BY <2>1, <2>2
<1>3. CASE ~(i <= Len(s.pending))
  <2>1. i \in (Len(s.pending) + 1)..Len(t.pending)
    BY <1>1, <1>3
  <2> QED BY <2>1 DEF Grew
<1> QED BY <1>2, <1>3

\* One page of the Scan.
LEMMA ScanPageKeeps ==
  ASSUME DdbIndInv, setup' = setup, NEW l \in Links, NEW k \in Key, scan_page(l, k)
  PROVE  DdbIndInv'
<1>1. StateInv /\ LinkInv(l)
  BY DEF DdbIndInv
<1>2. PICK item : item = table[src(l)][k]
  OBVIOUS
<1>3. src(l) \in Region
  BY DdbLinkAssumption DEF src
<1>4. now \in 1..setup.max_time /\ setup.max_time \in Nat
  BY <1>1, SetupParts DEF StateInv
<1>5. item \in Item /\ item \in [content : Content \cup {Absent}, ts : Nat]
  <2>1. item \in Item
    BY <1>1, <1>2, <1>3 DEF StateInv
  <2> QED BY <1>4, <2>1 DEF Item
<1>6. PICK at : at = scan[l].at
  OBVIOUS
<1>7. pc[l] = "scan" /\ at \in 1..now /\ at \in Nat /\ due[l] = <<>>
  <2>1. pc[l] = "scan" /\ at \in 1..now
    BY <1>1, <1>6 DEF scan_page, LinkInv
  <2>2. due[l] = <<>>
    BY <1>1, <2>1 DEF LinkInv
  <2> QED BY <1>4, <2>1, <2>2
<1>8. PICK s : s = sched[l]
  OBVIOUS
<1>9. PICK t : t = IF item.content = Absent THEN s ELSE discover(s, DdbKey(k, item), Event(k, item), at)
  OBVIOUS
<1>10. PICK given : given = sent[l] \o due[l]
  OBVIOUS
<1>11. Accounts(s, given) /\ s \in Scheduler /\ given \in Seq(Delivery) /\ s.pending \in Seq(Delivery)
  BY <1>1, <1>8, <1>10 DEF LinkInv, Accounts, Scheduler
<1>12. Accounts(t, given) /\ Grew(s, t, at) /\ t \in Scheduler
  <2>1. CASE item.content = Absent
    BY <1>9, <1>11, <2>1 DEF Grew
  <2>2. CASE item.content # Absent
    <3>1. DdbKey(k, item) \in DedupKey /\ Event(k, item) \in Change
      BY <1>5 DEF DdbKey, fingerprint_of, DedupKey, Event, Change
    <3>2. PICK d : d = [key |-> DdbKey(k, item), event |-> Event(k, item), at |-> at]
      OBVIOUS
    <3>3. t = discover(s, DdbKey(k, item), Event(k, item), at)
      BY <1>9, <2>2
    <3>4. /\ Accounts(t, given) /\ t.policy = s.policy
          /\ t.pending = s.pending \/ t.pending = Append(s.pending, d)
      BY <1>7, <1>11, <3>1, <3>2, <3>3, DiscoverAccounts
    <3>5. d.at = at /\ d \in Delivery
      BY <1>7, <3>1, <3>2 DEF Delivery
    <3>6. CASE t.pending = s.pending
      BY <1>11, <3>4, <3>6 DEF Grew, Accounts
    <3>7. CASE t.pending = Append(s.pending, d)
      <4>1. PICK p : p = s.pending
        OBVIOUS
      <4>2. PICK q : q = t.pending
        OBVIOUS
      <4>3. p \in Seq(Delivery) /\ Len(p) \in Nat /\ q = Append(p, d)
        BY <1>11, <3>7, <4>1, <4>2
      <4>4. Len(q) = Len(p) + 1 /\ (\A i \in 1..Len(p) : q[i] = p[i]) /\ q[Len(p) + 1] = d
        BY <3>5, <4>3, AppendProperties
      <4>5. \A i \in (Len(p) + 1)..Len(q) : i = Len(p) + 1
        BY <4>3, <4>4
      <4>6. Len(p) <= Len(q)
        BY <4>3, <4>4
      <4> QED BY <3>4, <3>5, <4>1, <4>2, <4>4, <4>5, <4>6 DEF Grew, Accounts
    <3> QED BY <3>4, <3>6, <3>7
  <2> QED BY <2>1, <2>2
<1>13. PICK n : n = NewlyQueued(s, t)
  OBVIOUS
<1>14. given \o t.pending = (given \o s.pending) \o n
  BY <1>11, <1>12, <1>13, QueuedSuffix
<1>15. PICK disc : disc = discovered[l]
  OBVIOUS
<1>16. given \o t.pending = disc \o n /\ disc \o n \in Seq(Delivery)
  <2>1. disc = given \o s.pending
    BY <1>1, <1>8, <1>10, <1>15 DEF LinkInv
  <2>2. t.pending \in Seq(Delivery)
    BY <1>12 DEF Scheduler
  <2>3. given \o t.pending \in Seq(Delivery)
    BY <1>11, <2>2, ConcatProperties
  <2> QED BY <1>14, <2>1, <2>3
<1>17. /\ sched' = [sched EXCEPT ![l] = t] /\ discovered' = [discovered EXCEPT ![l] = disc \o n]
       /\ scan' = [scan EXCEPT ![l].todo = @ \ {k}, ![l].seen[k] = item]
  BY <1>2, <1>6, <1>8, <1>9, <1>13, <1>15 DEF scan_page
<1>18. UNCHANGED <<table, now, control, known_live_keys, pc, due, applied_at, ended, writes, failures, sent>>
  BY DEF scan_page
<1>19. sched' \in [Links -> Scheduler] /\ sched'[l] = t /\ \A m \in Links \ {l} : sched'[m] = sched[m]
  BY <1>1, <1>12, <1>17 DEF StateInv
<1>20. /\ discovered' \in [Links -> Seq(Delivery)] /\ discovered'[l] = disc \o n
       /\ \A m \in Links \ {l} : discovered'[m] = discovered[m]
  BY <1>1, <1>16, <1>17 DEF StateInv
<1>21. /\ scan' \in [Links -> Scan] /\ scan'[l].at = at
       /\ \A m \in Links \ {l} : scan'[m] = scan[m]
  <2>1. scan \in [Links -> Scan]
    BY <1>1 DEF StateInv
  <2> QED BY ZenonT(40), <1>5, <1>6, <1>17, <2>1 DEF Scan
<1>22. StateInv'
  BY <1>1, <1>18, <1>19, <1>20, <1>21 DEF StateInv, Item, Scan
<1>23. LinkInv(l)'
  <2>1. sent'[l] = sent[l] /\ due'[l] = due[l] /\ now' = now /\ pc'[l] = "scan"
    BY <1>7, <1>18
  <2>2. (sent[l] \o due[l])' = given
    BY <1>10, <2>1
  <2>3. Accounts(sched[l], sent[l] \o due[l])'
    BY <1>12, <1>19, <2>2
  <2>4. t.policy \in setup.policies
    BY <1>1, <1>8, <1>12 DEF LinkInv, Grew
  <2>5. \A i \in 1..Len(t.pending) : t.pending[i].at \in 1..now
    <3>1. \A i \in 1..Len(s.pending) : s.pending[i].at \in 1..now
      BY <1>1, <1>8 DEF LinkInv
    <3> QED BY <1>4, <1>7, <1>11, <1>12, <3>1, GrownTimes
  <2> QED BY <1>7, <1>16, <1>19, <1>20, <1>21, <2>1, <2>2, <2>3, <2>4, <2>5 DEF LinkInv
<1>24. now \in Int /\ now' = now
  BY <1>4, <1>18
<1>25. \A m \in Links \ {l} :
         /\ sched'[m] = sched[m] /\ sent'[m] = sent[m] /\ due'[m] = due[m] /\ pc'[m] = pc[m]
         /\ discovered'[m] = discovered[m] /\ scan'[m] = scan[m] /\ applied_at'[m] = applied_at[m]
  BY <1>18, <1>19, <1>20, <1>21
<1> QED BY <1>22, <1>23, <1>24, <1>25, OtherLinks

\* apply_due's first half: the batch is exactly what the policy lets go, and the
\* account is kept, whatever the scan before it found or however it failed.
LEMMA DrainKeeps ==
  ASSUME DdbIndInv, setup' = setup, NEW l \in Links, NEW s, pc[l] = "scan",
         Accounts(s, sent[l] \o due[l]), s.policy \in setup.policies,
         \A i \in 1..Len(s.pending) : s.pending[i].at \in 1..now,
         Drain(l, s),
         discovered' \in [Links -> Seq(Delivery)],
         discovered'[l] = (sent[l] \o due[l]) \o s.pending,
         \A m \in Links \ {l} : discovered'[m] = discovered[m],
         known_live_keys' \in [Links -> SUBSET Key],
         failures' \in 0..setup.max_failures,
         UNCHANGED <<table, now, control, writes, sent>>
  PROVE  DdbIndInv'
<1>1. StateInv /\ LinkInv(l)
  BY DEF DdbIndInv
<1>2. now \in 1..setup.max_time /\ setup.max_time \in Nat /\ now \in Nat
  BY <1>1, SetupParts DEF StateInv
<1>3. PICK given : given = sent[l]
  OBVIOUS
<1>4. due[l] = <<>> /\ given \in Seq(Delivery) /\ sent[l] \o due[l] = given
  <2>1. due[l] = <<>>
    BY <1>1 DEF LinkInv
  <2>2. given \in Seq(Delivery)
    BY <1>1, <1>3 DEF StateInv
  <2>3. given \o <<>> = given
    BY <2>2, ConcatEmptySeq
  <2> QED BY <1>3, <2>1, <2>2, <2>3
<1>5. s \in Scheduler /\ s.pending \in Seq(Delivery) /\ Accounts(s, given)
  BY <1>4 DEF Accounts, Scheduler
<1>6. \A i \in 1..Len(s.pending) : s.pending[i].at <= now
  BY <1>2
<1>7. PICK d : d = drained(s, now)
  OBVIOUS
<1>8. PICK e : e = drain_due(s, now)
  OBVIOUS
<1>9. /\ Accounts(e, given \o d) /\ e.policy = s.policy
      /\ (given \o d) \o e.pending = given \o s.pending
      /\ d \in Seq(Delivery)
      /\ \A i \in 1..Len(e.pending) : \E j \in 1..Len(s.pending) : e.pending[i] = s.pending[j]
      /\ \A i \in 1..Len(d) : now - d[i].at >= s.policy
      /\ d # <<>> => s.policy # Stalled
  BY <1>2, <1>5, <1>6, <1>7, <1>8, DrainAccounts
<1>10. e \in Scheduler
  BY <1>9 DEF Accounts
<1>11. /\ sched' = [sched EXCEPT ![l] = e] /\ due' = [due EXCEPT ![l] = d]
       /\ applied_at' = [applied_at EXCEPT ![l] = now] /\ scan' = [scan EXCEPT ![l] = NoScan]
       /\ IF d = <<>> THEN pc' = [pc EXCEPT ![l] = "idle"] /\ ended' = [ended EXCEPT ![l] = now]
          ELSE pc' = [pc EXCEPT ![l] = "apply"] /\ ended' = ended
  BY <1>7, <1>8 DEF Drain
<1>12. /\ sched \in [Links -> Scheduler] /\ due \in [Links -> Seq(Delivery)]
       /\ applied_at \in [Links -> 0..setup.max_time] /\ scan \in [Links -> Scan]
       /\ pc \in [Links -> {"idle", "scan", "apply"}] /\ ended \in [Links -> 0..setup.max_time]
  BY <1>1 DEF StateInv
<1>13. sched' \in [Links -> Scheduler] /\ sched'[l] = e /\ \A m \in Links \ {l} : sched'[m] = sched[m]
  BY <1>10, <1>11, <1>12
<1>14. due' \in [Links -> Seq(Delivery)] /\ due'[l] = d /\ \A m \in Links \ {l} : due'[m] = due[m]
  BY <1>9, <1>11, <1>12
<1>15. /\ applied_at' \in [Links -> 0..setup.max_time] /\ applied_at'[l] = now
       /\ \A m \in Links \ {l} : applied_at'[m] = applied_at[m]
  BY <1>2, <1>11, <1>12
<1>16. scan' \in [Links -> Scan] /\ \A m \in Links \ {l} : scan'[m] = scan[m]
  <2>1. NoItem \in Item
    BY <1>2 DEF NoItem, Item, NoTs
  <2>2. NoScan \in Scan
    BY <1>2, <2>1 DEF NoScan, Scan
  <2> QED BY <1>11, <1>12, <2>2
<1>17. /\ pc' \in [Links -> {"idle", "scan", "apply"}] /\ ended' \in [Links -> 0..setup.max_time]
       /\ pc'[l] # "scan" /\ (pc'[l] = "apply" <=> d # <<>>)
       /\ \A m \in Links \ {l} : pc'[m] = pc[m]
  <2>1. now \in 0..setup.max_time
    BY <1>2
  <2>2. CASE d = <<>>
    BY ZenonT(40), <1>11, <1>12, <2>1, <2>2
  <2>3. CASE d # <<>>
    BY <1>11, <1>12, <2>1, <2>3
  <2> QED BY <2>2, <2>3
<1>18. StateInv'
  BY <1>1, <1>13, <1>14, <1>15, <1>16, <1>17 DEF StateInv, Item, Scan
<1>19. LinkInv(l)'
  <2>1. (sent[l] \o due[l])' = given \o d
    BY <1>3, <1>14
  <2>2. Accounts(sched[l], sent[l] \o due[l])'
    BY <1>9, <1>13, <2>1
  <2>3. (discovered[l] = (sent[l] \o due[l]) \o sched[l].pending)'
    BY <1>4, <1>9, <1>13, <2>1
  <2>4. (\A i \in 1..Len(sched[l].pending) : sched[l].pending[i].at \in 1..now)'
    BY <1>9, <1>13
  <2>5. (sched[l].policy \in setup.policies)'
    BY <1>9, <1>13
  <2>6. (pc[l] = "apply" <=> due[l] # <<>>)'
    BY <1>14, <1>17
  <2>7. (pc[l] = "apply" =>
           /\ sched[l].policy # Stalled
           /\ \A i \in 1..Len(due[l]) : applied_at[l] - due[l][i].at >= sched[l].policy)'
    BY <1>9, <1>13, <1>14, <1>15, <1>17
  <2> QED BY <1>17, <2>2, <2>3, <2>4, <2>5, <2>6, <2>7 DEF LinkInv
<1>20. now \in Int /\ now' = now
  BY <1>2
<1>21. \A m \in Links \ {l} :
         /\ sched'[m] = sched[m] /\ sent'[m] = sent[m] /\ due'[m] = due[m] /\ pc'[m] = pc[m]
         /\ discovered'[m] = discovered[m] /\ scan'[m] = scan[m] /\ applied_at'[m] = applied_at[m]
  BY <1>13, <1>14, <1>15, <1>16, <1>17
<1> QED BY <1>18, <1>19, <1>20, <1>21, OtherLinks

\* Scan fails half way: what was discovered before stays discovered.
LEMMA ScanErrorKeeps ==
  ASSUME DdbIndInv, setup' = setup, NEW l \in Links, scan_error(l)
  PROVE  DdbIndInv'
<1>1. StateInv /\ LinkInv(l)
  BY DEF DdbIndInv
<1>2. pc[l] = "scan" /\ Drain(l, sched[l]) /\ UNCHANGED <<table, now, control, known_live_keys, writes, discovered, sent>>
  BY DEF scan_error, history
<1>3. failures' \in 0..setup.max_failures
  BY <1>1, SetupParts DEF scan_error, StateInv
<1>4. /\ discovered' \in [Links -> Seq(Delivery)] /\ known_live_keys' \in [Links -> SUBSET Key]
      /\ discovered'[l] = (sent[l] \o due[l]) \o sched[l].pending
      /\ \A m \in Links \ {l} : discovered'[m] = discovered[m]
  BY <1>1, <1>2 DEF StateInv, LinkInv
<1>5. /\ Accounts(sched[l], sent[l] \o due[l]) /\ sched[l].policy \in setup.policies
      /\ \A i \in 1..Len(sched[l].pending) : sched[l].pending[i].at \in 1..now
  BY <1>1 DEF LinkInv
<1> QED BY <1>2, <1>3, <1>4, <1>5, DrainKeeps

\* The order in which a set yields its elements leaves none out.
LEMMA OrdersAll ==
  ASSUME NEW S, IsFiniteSet(S), NEW ks \in Orders(S)
  PROVE  ks \in Seq(S) /\ {ks[i] : i \in 1..Len(ks)} = S
<1>1. PICK n : n = Cardinality(S)
  OBVIOUS
<1>2. n \in Nat
  BY <1>1, FS_CardinalityType
<1>3. ks \in [1..n -> S] /\ \A i, j \in 1..n : i # j => ks[i] # ks[j]
  BY <1>1 DEF Orders
<1>4. Len(ks) = n /\ ks \in Seq(S)
  BY <1>2, <1>3
<1>5. ks \in Injection(1..n, S)
  BY <1>3 DEF Injection, IsInjective
<1>6. Cardinality(1..n) = n
  BY <1>2, FS_Interval
<1>7. ks \in Surjection(1..n, S)
  BY <1>1, <1>5, <1>6, FS_Injection
<1>8. \A y \in S : \E i \in 1..n : ks[i] = y
  BY <1>7 DEF Surjection
<1> QED BY <1>3, <1>4, <1>8

\* scan_end queues the vanished keys as deletions and goes on to apply_due.
LEMMA ScanEndQueue ==
  ASSUME DdbIndInv, NEW l \in Links, scan_end(l)
  PROVE  \E ks \in Seq(Key) : \E t :
           /\ t = DiscoverDeleted(l, ks)
           /\ {ks[i] : i \in 1..Len(ks)} = known_live_keys[l] \ Found(l)
           /\ Accounts(t, sent[l] \o due[l]) /\ Grew(sched[l], t, scan[l].at)
           /\ discovered' = [discovered EXCEPT ![l] = (sent[l] \o due[l]) \o t.pending]
           /\ (sent[l] \o due[l]) \o t.pending \in Seq(Delivery)
           /\ Drain(l, t)
<1>1. StateInv /\ LinkInv(l)
  BY DEF DdbIndInv
<1>2. now \in 1..setup.max_time /\ setup.max_time \in Nat /\ now \in Nat
  BY <1>1, SetupParts DEF StateInv
<1>3. PICK gone : gone = known_live_keys[l] \ Found(l)
  OBVIOUS
<1>4. gone \subseteq Key /\ IsFiniteSet(gone)
  <2>1. gone \subseteq Key
    BY <1>1, <1>3 DEF StateInv
  <2> QED BY <2>1, DdbLinkAssumption, FS_Subset
<1>5. PICK ks \in Orders(gone) :
        /\ discovered' = [discovered EXCEPT ![l] = @ \o NewlyQueued(sched[l], DiscoverDeleted(l, ks))]
        /\ Drain(l, DiscoverDeleted(l, ks))
  BY <1>3 DEF scan_end
<1>6. ks \in Seq(Key) /\ {ks[i] : i \in 1..Len(ks)} = gone
  <2>1. ks \in Seq(gone) /\ {ks[i] : i \in 1..Len(ks)} = gone
    BY <1>4, <1>5, OrdersAll
  <2> QED BY <1>4, <2>1
<1>7. PICK at : at = scan[l].at
  OBVIOUS
<1>8. at \in Nat
  <2>1. pc[l] = "scan"
    BY DEF scan_end
  <2>2. at \in 1..now
    BY <1>1, <1>7, <2>1 DEF LinkInv
  <2> QED BY <1>2, <2>2
<1>9. scan[l].seen \in [Key -> [content : Content \cup {Absent}, ts : Nat]]
  <2>1. scan[l].seen \in [Key -> Item]
    BY <1>1 DEF StateInv, Scan
  <2>2. Item \subseteq [content : Content \cup {Absent}, ts : Nat]
    BY <1>2 DEF Item
  <2> QED BY <2>1, <2>2
<1>10. PICK given : given = sent[l] \o due[l]
  OBVIOUS
<1>11. PICK s : s = sched[l]
  OBVIOUS
<1>12. PICK t : t = DiscoverDeleted(l, ks)
  OBVIOUS
<1>13. Accounts(sched[l], given)
  BY <1>1, <1>10 DEF LinkInv
<1>14. Accounts(t, given) /\ Grew(s, t, at)
  BY <1>6, <1>7, <1>8, <1>9, <1>11, <1>12, <1>13, DeletedAccounts
<1>15. s \in Scheduler /\ t \in Scheduler /\ given \in Seq(Delivery) /\ t.pending \in Seq(Delivery)
  BY <1>11, <1>13, <1>14 DEF Accounts, Scheduler
<1>16. given \o t.pending = (given \o s.pending) \o NewlyQueued(s, t)
  BY <1>14, <1>15, QueuedSuffix
<1>17. discovered[l] = given \o s.pending
  BY <1>1, <1>10, <1>11 DEF LinkInv
<1>18. given \o t.pending \in Seq(Delivery)
  BY <1>15, ConcatProperties
<1>19. discovered' = [discovered EXCEPT ![l] = given \o t.pending]
  BY <1>5, <1>11, <1>12, <1>16, <1>17
<1>20. Drain(l, t)
  BY <1>5, <1>12
<1> QED BY <1>3, <1>6, <1>7, <1>10, <1>11, <1>12, <1>14, <1>18, <1>19, <1>20

\* A complete scan: the deletions are queued, in any order, and apply_due begins.
LEMMA ScanEndKeeps ==
  ASSUME DdbIndInv, setup' = setup, NEW l \in Links, scan_end(l)
  PROVE  DdbIndInv'
<1>1. StateInv /\ LinkInv(l)
  BY DEF DdbIndInv
<1>2. now \in 1..setup.max_time /\ setup.max_time \in Nat /\ now \in Nat
  BY <1>1, SetupParts DEF StateInv
<1>3. pc[l] = "scan" /\ UNCHANGED <<table, now, control, writes, failures, sent>>
  BY DEF scan_end
<1>4. PICK s, given, at : s = sched[l] /\ given = sent[l] \o due[l] /\ at = scan[l].at
  OBVIOUS
<1>5. PICK t : /\ Accounts(t, given) /\ Grew(s, t, at)
               /\ discovered' = [discovered EXCEPT ![l] = given \o t.pending]
               /\ given \o t.pending \in Seq(Delivery)
               /\ Drain(l, t)
  BY <1>4, ScanEndQueue
<1>6. at \in 1..now
  BY <1>1, <1>3, <1>4 DEF LinkInv
<1>7. s \in Scheduler /\ t \in Scheduler /\ t.policy = s.policy
  BY <1>1, <1>4, <1>5 DEF LinkInv, Accounts, Grew
<1>8. s.policy \in setup.policies /\ \A i \in 1..Len(s.pending) : s.pending[i].at \in 1..now
  BY <1>1, <1>4 DEF LinkInv
<1>9. /\ discovered' \in [Links -> Seq(Delivery)] /\ discovered'[l] = given \o t.pending
      /\ \A m \in Links \ {l} : discovered'[m] = discovered[m]
  BY <1>1, <1>5 DEF StateInv
<1>10. \A i \in 1..Len(t.pending) : t.pending[i].at \in 1..now
  BY <1>2, <1>5, <1>6, <1>7, <1>8, GrownTimes
<1>11. known_live_keys' \in [Links -> SUBSET Key]
  <2>1. Found(l) \in SUBSET Key
    BY DEF Found
  <2> QED BY <1>1, <2>1 DEF scan_end, StateInv
<1>12. failures' \in 0..setup.max_failures
  BY <1>1, <1>3 DEF StateInv
<1> QED BY <1>3, <1>4, <1>5, <1>7, <1>8, <1>9, <1>10, <1>11, <1>12, DrainKeeps

\* One change of the batch is handed to the target, whether it is applied,
\* stale or lost: the account is the same, one change further on.
LEMMA NextDueKeeps ==
  ASSUME DdbIndInv, setup' = setup, NEW l \in Links, pc[l] = "apply", NextDue(l),
         table' \in [Region -> [Key -> Item]],
         \A r \in Region, k \in Key : table'[r][k].content = Absent => table'[r][k].ts = NoTs,
         failures' \in 0..setup.max_failures
  PROVE  DdbIndInv'
<1>1. StateInv /\ LinkInv(l)
  BY DEF DdbIndInv
<1>2. PICK b : b = due[l]
  OBVIOUS
<1>3. PICK g : g = sent[l]
  OBVIOUS
<1>4. b \in Seq(Delivery) /\ b # <<>> /\ g \in Seq(Delivery)
  BY <1>1, <1>2, <1>3 DEF StateInv, LinkInv
<1>5. PICK h : h = Head(b)
  OBVIOUS
<1>6. PICK r : r = Tail(b)
  OBVIOUS
<1>7. /\ h \in Delivery /\ r \in Seq(Delivery) /\ Len(r) = Len(b) - 1
      /\ \A i \in 1..Len(r) : r[i] = b[i + 1]
  BY <1>4, <1>5, <1>6, HeadTailProperties
<1>8. Len(b) \in Nat /\ Len(r) \in Nat /\ Len(b) # 0
  BY <1>4, <1>7
<1>9. Append(g, h) \in Seq(Delivery) /\ Append(g, h) \o r = g \o b
  <2>1. <<h>> \in Seq(Delivery) /\ Append(g, h) = g \o <<h>> /\ Append(g, h) \in Seq(Delivery)
    BY <1>4, <1>7, AppendIsConcat, AppendProperties
  <2>2. (g \o <<h>>) \o r = g \o (<<h>> \o r)
    BY SMTT(30), <1>4, <1>7, <2>1, ConcatAssociative
  <2>3. <<h>> \o r = b
    <3>1. Len(<<h>>) = 1 /\ <<h>>[1] = h
      OBVIOUS
    <3>2. /\ <<h>> \o r \in Seq(Delivery) /\ Len(<<h>> \o r) = Len(<<h>>) + Len(r)
          /\ \A i \in 1..(Len(<<h>>) + Len(r)) :
               (<<h>> \o r)[i] = IF i <= Len(<<h>>) THEN <<h>>[i] ELSE r[i - Len(<<h>>)]
      BY <1>7, <2>1, ConcatProperties
    <3>3. PICK hr : hr = <<h>> \o r
      OBVIOUS
    <3>4. Len(hr) = Len(b) /\ hr \in Seq(Delivery)
      BY <1>7, <1>8, <3>1, <3>2, <3>3
    <3>5. ASSUME NEW i \in 1..Len(b) PROVE hr[i] = b[i]
      <4>1. CASE i = 1
        <5>1. hr[1] = h
          BY <1>7, <1>8, <3>1, <3>2, <3>3
        <5> QED BY <1>4, <1>5, <4>1, <5>1
      <4>2. CASE i # 1
        <5>1. i - 1 \in 1..Len(r) /\ (i - 1) + 1 = i /\ ~(i <= 1)
          BY <1>7, <1>8, <4>2
        <5>2. hr[i] = r[i - 1]
          BY <1>7, <1>8, <3>1, <3>2, <3>3, <5>1
        <5> QED BY <1>7, <5>1, <5>2
      <4> QED BY <4>1, <4>2
    <3> QED BY <1>4, <3>3, <3>4, <3>5, SeqEqual
  <2> QED BY <2>1, <2>2, <2>3
<1>10. /\ due' = [due EXCEPT ![l] = r] /\ sent' = [sent EXCEPT ![l] = Append(g, h)]
       /\ IF Len(b) = 1 THEN pc' = [pc EXCEPT ![l] = "idle"] /\ ended' = [ended EXCEPT ![l] = now]
          ELSE pc' = pc /\ ended' = ended
       /\ UNCHANGED <<now, control, sched, known_live_keys, scan, applied_at, writes, discovered>>
  BY <1>2, <1>3, <1>5, <1>6 DEF NextDue
<1>11. /\ due \in [Links -> Seq(Delivery)] /\ sent \in [Links -> Seq(Delivery)]
       /\ pc \in [Links -> {"idle", "scan", "apply"}] /\ ended \in [Links -> 0..setup.max_time]
       /\ now \in 1..setup.max_time
  BY <1>1 DEF StateInv
<1>12. due' \in [Links -> Seq(Delivery)] /\ due'[l] = r /\ \A m \in Links \ {l} : due'[m] = due[m]
  BY <1>7, <1>10, <1>11
<1>13. /\ sent' \in [Links -> Seq(Delivery)] /\ sent'[l] = Append(g, h)
       /\ \A m \in Links \ {l} : sent'[m] = sent[m]
  BY <1>9, <1>10, <1>11
<1>14. setup.max_time \in Nat
  BY <1>1, SetupParts DEF StateInv
<1>15. /\ pc' \in [Links -> {"idle", "scan", "apply"}] /\ ended' \in [Links -> 0..setup.max_time]
       /\ pc'[l] # "scan" /\ (pc'[l] = "apply" <=> Len(b) # 1)
       /\ \A m \in Links \ {l} : pc'[m] = pc[m]
  <2>1. now \in 0..setup.max_time
    BY <1>11, <1>14
  <2>2. CASE Len(b) = 1
    BY <1>10, <1>11, <2>1, <2>2
  <2>3. CASE Len(b) # 1
    BY <1>10, <1>11, <2>3
  <2> QED BY <2>2, <2>3
<1>16. StateInv'
  BY <1>1, <1>10, <1>12, <1>13, <1>15 DEF StateInv, Item, Scan
<1>17. LinkInv(l)'
  <2>1. (sent[l] \o due[l])' = sent[l] \o due[l]
    BY <1>2, <1>3, <1>9, <1>12, <1>13
  <2>2. sched'[l] = sched[l] /\ discovered'[l] = discovered[l] /\ now' = now /\ applied_at'[l] = applied_at[l]
    BY <1>10
  <2>3. Accounts(sched[l], sent[l] \o due[l])'
    BY <1>1, <2>1, <2>2 DEF LinkInv
  <2>4. (discovered[l] = (sent[l] \o due[l]) \o sched[l].pending)'
    BY <1>1, <2>1, <2>2 DEF LinkInv
  <2>5. (pc[l] = "apply" <=> due[l] # <<>>)'
    <3>1. Len(b) # 1 <=> Len(r) # 0
      BY <1>7, <1>8
    <3>2. Len(r) # 0 <=> r # <<>>
      BY <1>7, EmptySeq
    <3> QED BY <1>12, <1>15, <3>1, <3>2
  <2>6. /\ sched[l].policy # Stalled
        /\ \A i \in 1..Len(b) : applied_at[l] - b[i].at >= sched[l].policy
    BY <1>1, <1>2 DEF LinkInv
  <2>7. \A i \in 1..Len(r) : i + 1 \in 1..Len(b)
    BY <1>7, <1>8
  <2>8. \A i \in 1..Len(r) : applied_at[l] - r[i].at >= sched[l].policy
    BY <1>7, <2>6, <2>7
  <2>9. (\A i \in 1..Len(sched[l].pending) : sched[l].pending[i].at \in 1..now)'
        /\ (sched[l].policy \in setup.policies)'
    BY <1>1, <2>2 DEF LinkInv
  <2>10. (pc[l] = "apply" =>
            /\ sched[l].policy # Stalled
            /\ \A i \in 1..Len(due[l]) : applied_at[l] - due[l][i].at >= sched[l].policy)'
    BY <1>12, <2>2, <2>6, <2>8
  <2> QED BY <1>15, <2>3, <2>4, <2>5, <2>9, <2>10 DEF LinkInv
<1>18. now \in Int /\ now' = now
  BY <1>10, <1>11, <1>14
<1>19. \A m \in Links \ {l} :
         /\ sched'[m] = sched[m] /\ sent'[m] = sent[m] /\ due'[m] = due[m] /\ pc'[m] = pc[m]
         /\ discovered'[m] = discovered[m] /\ scan'[m] = scan[m] /\ applied_at'[m] = applied_at[m]
  BY <1>10, <1>12, <1>13, <1>15
<1> QED BY <1>16, <1>17, <1>18, <1>19, OtherLinks

\* The conditional write of one change leaves well-formed items.
LEMMA TargetWriteType ==
  ASSUME DdbIndInv, setup' = setup, NEW l \in Links, pc[l] = "apply", TargetWrite(l, Head(due[l]))
  PROVE  /\ table' \in [Region -> [Key -> Item]]
         /\ \A r \in Region, k \in Key : table'[r][k].content = Absent => table'[r][k].ts = NoTs
<1>1. StateInv /\ LinkInv(l)
  BY DEF DdbIndInv
<1>2. PICK d : d = Head(due[l])
  OBVIOUS
<1>3. d \in Delivery
  BY <1>1, <1>2, HeadTailProperties DEF StateInv, LinkInv
<1>4. PICK k : k = d.event.key
  OBVIOUS
<1>5. PICK ts : ts = applied_at[l]
  OBVIOUS
<1>6. PICK item : item = Applied(d, ts)
  OBVIOUS
<1>7. k \in Key /\ ts \in 0..setup.max_time /\ dst(l) \in Region /\ setup.max_time \in Nat
  BY <1>1, <1>3, <1>4, <1>5, SetupParts, DdbLinkAssumption DEF StateInv, Delivery, Change, dst
<1>8. item \in Item /\ (item.content = Absent => item.ts = NoTs)
  <2>1. d.event.content \in Content \cup {Absent}
    BY <1>3 DEF Delivery, Change
  <2> QED BY <1>6, <1>7, <2>1 DEF Applied, Item, NoTs
<1>9. table \in [Region -> [Key -> Item]]
  BY <1>1 DEF StateInv
<1>10. table' = table \/ table' = [table EXCEPT ![dst(l)][k] = item]
  BY <1>2, <1>4, <1>5, <1>6 DEF TargetWrite
<1>11. table' \in [Region -> [Key -> Item]]
  BY <1>7, <1>8, <1>9, <1>10
<1>12. \A r \in Region, y \in Key : table'[r][y] = item \/ table'[r][y] = table[r][y]
  BY <1>9, <1>10
<1> QED BY ZenonT(40), <1>1, <1>8, <1>11, <1>12 DEF StateInv

\* apply_one, answered or failed.
LEMMA ApplyKeeps ==
  ASSUME DdbIndInv, setup' = setup, NEW l \in Links, apply_one(l) \/ apply_failed(l)
  PROVE  DdbIndInv'
<1>1. StateInv /\ LinkInv(l)
  BY DEF DdbIndInv
<1>2. pc[l] = "apply" /\ NextDue(l) /\ (TargetWrite(l, Head(due[l])) \/ table' = table)
  BY DEF apply_one, apply_failed
<1>3. failures' \in 0..setup.max_failures
  BY <1>1, SetupParts DEF apply_one, apply_failed, StateInv
<1>4. CASE TargetWrite(l, Head(due[l]))
  BY <1>2, <1>3, <1>4, TargetWriteType, NextDueKeeps
<1>5. CASE table' = table
  <2>1. /\ table' \in [Region -> [Key -> Item]]
        /\ \A r \in Region, k \in Key : table'[r][k].content = Absent => table'[r][k].ts = NoTs
    BY <1>1, <1>5 DEF StateInv
  <2> QED BY <1>2, <1>3, <2>1, NextDueKeeps
<1> QED BY <1>2, <1>4, <1>5

\* The process dies: everything it keeps is in memory, and starts afresh.
LEMMA RestartKeeps ==
  ASSUME DdbIndInv, setup' = setup, NEW l \in Links, restart(l)
  PROVE  DdbIndInv'
<1>1. StateInv
  BY DEF DdbIndInv
<1>2. PICK lag : lag = setup.initial_lag
  OBVIOUS
<1>3. lag \in setup.policies /\ lag \in Nat \cup {Stalled} /\ setup.max_time \in Nat
  BY <1>1, <1>2, SetupParts DEF StateInv
<1>4. now \in 1..setup.max_time /\ now \in 0..setup.max_time /\ now \in Int
  BY <1>1, <1>3 DEF StateInv
<1>5. failures' \in 0..setup.max_failures
  BY <1>1, SetupParts DEF restart, StateInv
<1>6. PICK c : c = [lag |-> lag, paused |-> FALSE]
  OBVIOUS
<1>7. control' = [control EXCEPT ![l] = c] /\ c \in [lag : setup.policies, paused : BOOLEAN]
  BY <1>2, <1>3, <1>6 DEF restart
<1>8. control' \in [Links -> [lag : setup.policies, paused : BOOLEAN]]
  BY <1>1, <1>7 DEF StateInv
<1>9. NoScan \in Scan
  <2>1. NoItem \in Item
    BY <1>3 DEF NoItem, Item, NoTs
  <2> QED BY <1>3, <2>1 DEF NoScan, Scan
<1>10. PICK s : s = new(lag)
  OBVIOUS
<1>11. /\ s \in Scheduler /\ s.policy = lag /\ s.pending = <<>> /\ <<>> \o <<>> = <<>>
       /\ Accounts(s, <<>>)
  BY <1>3, <1>10, NewAccounts
<1>12. /\ sched' = [sched EXCEPT ![l] = s] /\ pc' = [pc EXCEPT ![l] = "idle"]
       /\ due' = [due EXCEPT ![l] = <<>>] /\ sent' = [sent EXCEPT ![l] = <<>>]
       /\ discovered' = [discovered EXCEPT ![l] = <<>>] /\ scan' = [scan EXCEPT ![l] = NoScan]
       /\ known_live_keys' = [known_live_keys EXCEPT ![l] = {}] /\ ended' = [ended EXCEPT ![l] = now]
       /\ UNCHANGED <<table, now, applied_at, writes>>
  BY <1>2, <1>10 DEF restart
<1>13. /\ sched \in [Links -> Scheduler] /\ due \in [Links -> Seq(Delivery)]
       /\ sent \in [Links -> Seq(Delivery)] /\ discovered \in [Links -> Seq(Delivery)]
       /\ pc \in [Links -> {"idle", "scan", "apply"}] /\ scan \in [Links -> Scan]
       /\ known_live_keys \in [Links -> SUBSET Key] /\ ended \in [Links -> 0..setup.max_time]
  BY <1>1 DEF StateInv
<1>14. <<>> \in Seq(Delivery) /\ {} \in SUBSET Key
  OBVIOUS
<1>15. /\ sched' \in [Links -> Scheduler] /\ due' \in [Links -> Seq(Delivery)]
       /\ sent' \in [Links -> Seq(Delivery)] /\ discovered' \in [Links -> Seq(Delivery)]
  BY <1>11, <1>12, <1>13, <1>14
<1>16. /\ pc' \in [Links -> {"idle", "scan", "apply"}] /\ scan' \in [Links -> Scan]
       /\ known_live_keys' \in [Links -> SUBSET Key] /\ ended' \in [Links -> 0..setup.max_time]
  BY <1>4, <1>9, <1>12, <1>13, <1>14
<1>17. StateInv'
  BY <1>1, <1>5, <1>8, <1>12, <1>15, <1>16 DEF StateInv, Item, Scan
<1>18. LinkInv(l)'
  <2>1. /\ sched'[l] = s /\ sent'[l] = <<>> /\ due'[l] = <<>> /\ discovered'[l] = <<>> /\ pc'[l] = "idle"
    BY <1>12, <1>13
  <2> QED BY <1>3, <1>11, <2>1 DEF LinkInv
<1>19. \A m \in Links \ {l} :
         /\ sched'[m] = sched[m] /\ sent'[m] = sent[m] /\ due'[m] = due[m] /\ pc'[m] = pc[m]
         /\ discovered'[m] = discovered[m] /\ scan'[m] = scan[m] /\ applied_at'[m] = applied_at[m]
  BY <1>12, <1>13
<1> QED BY <1>4, <1>12, <1>17, <1>18, <1>19, OtherLinks

---------------------------------------------------------------------------
(* The theorems. *)

\* Every step of the replicator, the application or the clock.
LEMMA DdbStep == DdbIndInv /\ [Next /\ UNCHANGED setup]_vars => DdbIndInv'
<1> SUFFICES ASSUME DdbIndInv, [Next /\ UNCHANGED setup]_vars PROVE DdbIndInv'
  OBVIOUS
<1>1. CASE UNCHANGED vars
  <2>1. StateInv'
    BY <1>1 DEF vars, process, history, DdbIndInv, StateInv, Item, Scan
  <2>2. Untouched
    BY <1>1 DEF vars, Untouched
  <2> QED BY <2>1, <2>2, PollersKept DEF DdbIndInv
<1>2. CASE Next /\ UNCHANGED setup
  <2>1. setup.links \subseteq Links
    BY SetupParts DEF DdbIndInv, StateInv
  <2>2. CASE \E r \in setup.writers, k \in setup.keys, c \in setup.contents \cup {Absent} : app_write(r, k, c)
    BY <1>2, <2>2, AppWriteKeeps
  <2>3. CASE Tick
    BY <1>2, <2>3, TickKeeps
  <2>4. ASSUME NEW l \in Links,
               \/ \E policy \in setup.policies : post_lag(l, policy)
               \/ \E paused \in BOOLEAN : post_pause(l, paused)
        PROVE  DdbIndInv'
    BY <1>2, <2>4, PostKeeps
  <2>5. ASSUME NEW l \in Links,
               begin_cycle(l) \/ (\E k \in Key : scan_page(l, k)) \/ scan_end(l) \/ scan_error(l)
        PROVE  DdbIndInv'
    BY <1>2, <2>5, BeginKeeps, ScanPageKeeps, ScanEndKeeps, ScanErrorKeeps
  <2>6. ASSUME NEW l \in Links, apply_one(l) \/ apply_failed(l) \/ restart(l)
        PROVE  DdbIndInv'
    BY <1>2, <2>6, ApplyKeeps, RestartKeeps
  <2> QED BY <1>2, <2>1, <2>2, <2>3, <2>4, <2>5, <2>6 DEF Next
<1> QED BY <1>1, <1>2

\* The inductive invariant holds in every reachable state of the links.
THEOREM DdbInvariant == Spec => []DdbIndInv
  BY DdbInit, DdbStep, PTL DEF Spec

\* For any topology of links and any lags, posts, pauses, scan failures, lost
\* applies and restarts: a link hands every change it discovered to the target
\* once, in the order of discovery, and never before its lag (lag.rs, "a key is
\* applied at most once").
THEOREM LinksDeliver == Spec => []DeliveryInv
<1>1. ASSUME DdbIndInv PROVE DeliveryInv
  <2>1. StateInv
    BY <1>1 DEF DdbIndInv
  <2>2. ASSUME NEW l \in Links
        PROVE  /\ sched[l].policy \in setup.policies
               /\ \A i \in 1..Len(sched[l].pending) :
                    sched[l].pending[i].event \in Change /\ sched[l].pending[i].at \in 1..setup.max_time
               /\ \A i \in 1..Len(due[l]) : due[l][i].event \in Change
               /\ scan[l] \in [at : 0..setup.max_time, todo : SUBSET Key, seen : [Key -> Item]]
    <3>1. LinkInv(l)
      BY <1>1 DEF DdbIndInv
    <3>2. sched[l].pending \in Seq(Delivery) /\ due[l] \in Seq(Delivery) /\ scan[l] \in Scan
      BY <2>1 DEF StateInv, Scheduler
    <3>7. \A q \in Seq(Delivery) : \A i \in 1..Len(q) : q[i].event \in Change
      <4> SUFFICES ASSUME NEW q \in Seq(Delivery), NEW i \in 1..Len(q) PROVE q[i].event \in Change
        OBVIOUS
      <4>1. q[i] \in Delivery
        BY ElementOfSeq
      <4> QED BY <4>1 DEF Delivery
    <3>3. \A i \in 1..Len(sched[l].pending) : sched[l].pending[i].event \in Change
      BY <3>2, <3>7
    <3>4. \A i \in 1..Len(due[l]) : due[l][i].event \in Change
      BY <3>2, <3>7
    <3>5. now \in 1..setup.max_time /\ setup.max_time \in Nat
      BY <2>1, SetupParts DEF StateInv
    <3>6. \A x \in 1..now : x \in 1..setup.max_time
      BY <3>5
    <3> QED BY <3>1, <3>2, <3>3, <3>4, <3>6 DEF LinkInv, Scan
  <2>3. TypeOK
    BY <2>1, <2>2 DEF StateInv, TypeOK
  <2>4. AppliedOnceInOrder
    <3> SUFFICES ASSUME NEW l \in Links
                 PROVE  /\ discovered[l] = sent[l] \o due[l] \o sched[l].pending
                        /\ \A i, j \in 1..Len(discovered[l]) :
                             discovered[l][i].key = discovered[l][j].key => i = j
      BY DEF AppliedOnceInOrder
    <3>1. LinkInv(l)
      BY <1>1 DEF DdbIndInv
    <3>2. discovered[l] = (sent[l] \o due[l]) \o sched[l].pending /\ Distinct(discovered[l])
      BY <3>1 DEF LinkInv, Accounts
    <3> QED BY <3>2 DEF Distinct
  <2>5. NotBeforeItsLag
    BY <1>1 DEF DdbIndInv, LinkInv, NotBeforeItsLag
  <2> QED BY <2>3, <2>4, <2>5 DEF DeliveryInv
<1> QED BY <1>1, DdbInvariant, PTL

\* An item beside the newest change e that reached it: it is not newer, and if e
\* is no deletion, it is what e made it.
Stands(item, e) ==
  /\ item.ts <= e.at
  /\ e.at # 0 /\ e.content # Absent => item.content = e.content /\ item.ts = e.at

\* The newest change that reached an item stands, and a batch under way was
\* drained at a time after the beginning.
LatestInv ==
  /\ latest \in [Region -> [Key -> [at : Nat, content : Content \cup {Absent}]]]
  /\ \A r \in Region, k \in Key : Stands(table[r][k], latest[r][k])
  /\ \A l \in Links : pc[l] = "apply" => applied_at[l] # 0

\* One conditional write: the item and the newest change stay together, whether
\* the change is newer or older and whether it is accepted or refused.
LEMMA OneEvaluated ==
  ASSUME NEW item \in [content : Content \cup {Absent}, ts : Nat],
         NEW e \in [at : Nat, content : Content \cup {Absent}], Stands(item, e),
         NEW d, NEW t \in Nat, t # 0, NEW c, c = d.event.content,
         NEW item2, item2 = IF lww_condition(item, t) THEN Applied(d, t) ELSE item
  PROVE  Stands(item2, Newer(e, [at |-> t, content |-> c]))
<1>1. PICK n : n = [at |-> t, content |-> c]
  OBVIOUS
<1>2. n.at = t /\ n.content = c
  BY <1>1
<1>3. item.ts \in Nat /\ e.at \in Nat
  OBVIOUS
<1>4. CASE lww_condition(item, t)
  <2>1. item2.content = c /\ item2.ts = IF c = Absent THEN 0 ELSE t
    BY <1>4 DEF Applied, NoTs
  <2>2. item.ts = 0 \/ item.ts < t
    BY <1>4 DEF lww_condition, NoTs
  <2>3. CASE t > e.at
    <3>1. Newer(e, n) = n
      BY <1>2, <2>3 DEF Newer
    <3> QED BY <1>1, <1>2, <2>1, <3>1 DEF Stands
  <2>4. CASE ~(t > e.at)
    <3>1. Newer(e, n) = e
      BY <1>2, <2>4 DEF Newer
    <3>2. e.content = Absent
      BY <1>3, <2>2, <2>4 DEF Stands
    <3>3. item2.ts <= e.at
      BY <1>3, <2>1, <2>4
    <3> QED BY <1>1, <3>1, <3>2, <3>3 DEF Stands
  <2> QED BY <2>3, <2>4
<1>5. CASE ~lww_condition(item, t)
  <2>1. item2 = item /\ ~(t > e.at)
    BY <1>3, <1>5 DEF lww_condition, Stands
  <2>2. Newer(e, n) = e
    BY <1>2, <2>1 DEF Newer
  <2> QED BY <1>1, <2>1, <2>2
<1> QED BY <1>4, <1>5

\* The target's answer to one request keeps the newest change and the item
\* together, and leaves the others alone.
LEMMA RequestStands ==
  ASSUME DdbIndInv, LatestInv, NEW l \in Links, pc[l] = "apply", TargetWrite(l, Head(due[l]))
  PROVE  /\ latest' \in [Region -> [Key -> [at : Nat, content : Content \cup {Absent}]]]
         /\ \A r \in Region, k \in Key : Stands(table'[r][k], latest'[r][k])
<1> DEFINE E == [at : Nat, content : Content \cup {Absent}]
<1>1. StateInv /\ LinkInv(l)
  BY DEF DdbIndInv
<1>2. PICK d : d = Head(due[l])
  OBVIOUS
<1>3. d \in Delivery
  BY <1>1, <1>2, HeadTailProperties DEF StateInv, LinkInv
<1>4. PICK k, c, t, s : k = d.event.key /\ c = d.event.content /\ t = applied_at[l] /\ s = dst(l)
  OBVIOUS
<1>5. /\ k \in Key /\ c \in Content \cup {Absent} /\ s \in Region /\ t \in Nat /\ t # 0
  <2>1. k \in Key /\ c \in Content \cup {Absent}
    BY <1>3, <1>4 DEF Delivery, Change
  <2>2. t \in 0..setup.max_time /\ setup.max_time \in Nat /\ s \in Region
    BY <1>1, <1>4, SetupParts, DdbLinkAssumption DEF StateInv, dst
  <2>3. t # 0
    BY <1>4 DEF LatestInv
  <2> QED BY <2>1, <2>2, <2>3
<1>6. PICK item, e, item2, e2 :
        /\ item = table[s][k] /\ e = latest[s][k]
        /\ item2 = (IF lww_condition(item, t) THEN Applied(d, t) ELSE item)
        /\ e2 = Newer(e, [at |-> t, content |-> c])
  OBVIOUS
<1>7. table \in [Region -> [Key -> Item]] /\ latest \in [Region -> [Key -> E]]
  BY <1>1 DEF StateInv, LatestInv
<1>8. item \in [content : Content \cup {Absent}, ts : Nat] /\ e \in E /\ Stands(item, e)
  <2>1. item \in Item /\ e \in E /\ setup.max_time \in Nat
    BY <1>1, <1>5, <1>6, <1>7, SetupParts DEF StateInv
  <2>2. Stands(item, e)
    BY <1>5, <1>6 DEF LatestInv
  <2> QED BY <2>1, <2>2 DEF Item
<1>9. Stands(item2, e2)
  BY <1>4, <1>5, <1>6, <1>8, OneEvaluated
<1>10. e2 \in E
  BY <1>5, <1>6, <1>8 DEF Newer
<1>11. latest' = [latest EXCEPT ![s][k] = e2]
  BY <1>2, <1>4, <1>6 DEF TargetWrite
<1>12. table' = [table EXCEPT ![s][k] = item2]
  <2>1. CASE lww_condition(item, t)
    BY <1>2, <1>4, <1>6, <2>1 DEF TargetWrite
  <2>2. CASE ~lww_condition(item, t)
    <3>1. table' = table /\ item2 = table[s][k]
      BY <1>2, <1>4, <1>6, <2>2 DEF TargetWrite
    <3> QED BY <1>5, <1>7, <3>1
  <2> QED BY <2>1, <2>2
<1>13. latest' \in [Region -> [Key -> E]]
  BY <1>5, <1>7, <1>10, <1>11
<1>14. ASSUME NEW r \in Region, NEW y \in Key PROVE Stands(table'[r][y], latest'[r][y])
  <2>1. CASE r = s /\ y = k
    <3>1. table'[r][y] = item2 /\ latest'[r][y] = e2
      BY <1>5, <1>7, <1>11, <1>12, <2>1
    <3> QED BY <1>9, <3>1
  <2>2. CASE ~(r = s /\ y = k)
    <3>1. table'[r][y] = table[r][y] /\ latest'[r][y] = latest[r][y]
      BY <1>5, <1>7, <1>11, <1>12, <2>2
    <3> QED BY <3>1 DEF LatestInv
  <2> QED BY <2>1, <2>2
<1> QED BY <1>13, <1>14

\* Where the step leaves the items and the newest changes alone.
LEMMA LatestKept ==
  ASSUME LatestInv, table' = table, latest' = latest,
         \A l \in Links : pc'[l] = "apply" => applied_at'[l] # 0
  PROVE  LatestInv'
<1>1. \A r \in Region, k \in Key : Stands(table'[r][k], latest'[r][k])
  BY DEF LatestInv
<1> QED BY <1>1 DEF LatestInv

\* Every action keeps the newest changes.
LEMMA LatestStep ==
  ASSUME DdbIndInv, LatestInv, [Next /\ UNCHANGED setup]_vars
  PROVE  LatestInv'
<1>1. StateInv /\ setup.links \subseteq Links
  BY SetupParts DEF DdbIndInv, StateInv
<1>2. now # 0
  BY <1>1, SetupParts DEF StateInv
<1>3. CASE UNCHANGED vars
  <2>1. table' = table /\ latest' = latest /\ pc' = pc /\ applied_at' = applied_at
    BY <1>3 DEF vars, process
  <2> QED BY <2>1, LatestKept DEF LatestInv
<1>4. ASSUME NEW r \in setup.writers, NEW k \in setup.keys, NEW c \in setup.contents \cup {Absent},
             app_write(r, k, c)
      PROVE  LatestInv'
  <2>1. r \in Region /\ k \in Key
    BY <1>1, SetupParts DEF StateInv
  <2>2. PICK item : item = [content |-> c, ts |-> NoTs]
    OBVIOUS
  <2>3. /\ table' = [table EXCEPT ![r][k] = item] /\ latest' = [latest EXCEPT ![r][k] = NoChange]
        /\ pc' = pc /\ applied_at' = applied_at
    BY <1>4, <2>2 DEF app_write, process
  <2>4. /\ table \in [Region -> [Key -> Item]]
        /\ latest \in [Region -> [Key -> [at : Nat, content : Content \cup {Absent}]]]
    BY <1>1 DEF StateInv, LatestInv
  <2>5. Stands(item, NoChange) /\ NoChange \in [at : Nat, content : Content \cup {Absent}]
    BY <2>2 DEF Stands, NoChange, NoTs
  <2>6. latest' \in [Region -> [Key -> [at : Nat, content : Content \cup {Absent}]]]
    BY <2>1, <2>3, <2>4, <2>5
  <2>7. ASSUME NEW x \in Region, NEW y \in Key PROVE Stands(table'[x][y], latest'[x][y])
    <3>1. CASE x = r /\ y = k
      <4>1. table'[x][y] = item /\ latest'[x][y] = NoChange
        BY <2>1, <2>3, <2>4, <3>1
      <4> QED BY <2>5, <4>1
    <3>2. CASE ~(x = r /\ y = k)
      <4>1. table'[x][y] = table[x][y] /\ latest'[x][y] = latest[x][y]
        BY <2>1, <2>3, <2>4, <3>2
      <4> QED BY <4>1 DEF LatestInv
    <3> QED BY <3>1, <3>2
  <2> QED BY <2>3, <2>6, <2>7 DEF LatestInv
<1>5. ASSUME NEW l \in setup.links,
             \/ \E policy \in setup.policies : post_lag(l, policy)
             \/ \E paused \in BOOLEAN : post_pause(l, paused)
             \/ begin_cycle(l) \/ (\E k \in Key : scan_page(l, k)) \/ restart(l)
      PROVE  LatestInv'
  <2>1. table' = table /\ latest' = latest /\ applied_at' = applied_at
    BY <1>5 DEF post_lag, post_pause, begin_cycle, scan_page, restart, process
  <2>2. \A m \in Links : pc'[m] = "apply" => pc[m] = "apply"
    <3>1. \/ pc' = pc \/ pc' = [pc EXCEPT ![l] = "scan"] \/ pc' = [pc EXCEPT ![l] = "idle"]
      BY <1>5 DEF post_lag, post_pause, begin_cycle, scan_page, restart, process
    <3>2. pc \in [Links -> {"idle", "scan", "apply"}] /\ l \in Links
      BY <1>1 DEF StateInv
    <3> QED BY <3>1, <3>2
  <2> QED BY <2>1, <2>2, LatestKept DEF LatestInv
<1>6. ASSUME NEW l \in setup.links, scan_end(l) \/ scan_error(l)
      PROVE  LatestInv'
  <2>1. PICK s : Drain(l, s)
    BY <1>6 DEF scan_end, scan_error
  <2>2. table' = table /\ latest' = latest /\ applied_at' = [applied_at EXCEPT ![l] = now]
    BY <1>6, <2>1 DEF scan_end, scan_error, Drain
  <2>3. pc' = [pc EXCEPT ![l] = "idle"] \/ pc' = [pc EXCEPT ![l] = "apply"]
    BY <2>1 DEF Drain
  <2>4. /\ pc \in [Links -> {"idle", "scan", "apply"}] /\ l \in Links
        /\ applied_at \in [Links -> 0..setup.max_time]
    BY <1>1 DEF StateInv
  <2>5. \A m \in Links : pc'[m] = "apply" => applied_at'[m] # 0
    BY <1>2, <2>2, <2>3, <2>4 DEF LatestInv
  <2> QED BY <2>2, <2>5, LatestKept
<1>7. ASSUME NEW l \in setup.links, apply_one(l) \/ apply_failed(l)
      PROVE  LatestInv'
  <2>1. pc[l] = "apply" /\ NextDue(l) /\ l \in Links
    BY <1>1, <1>7 DEF apply_one, apply_failed
  <2>2. applied_at' = applied_at /\ (pc' = pc \/ pc' = [pc EXCEPT ![l] = "idle"])
    BY <2>1 DEF NextDue
  <2>3. pc \in [Links -> {"idle", "scan", "apply"}]
    BY <1>1 DEF StateInv
  <2>4. \A m \in Links : pc'[m] = "apply" => applied_at'[m] # 0
    BY <2>1, <2>2, <2>3 DEF LatestInv
  <2>5. CASE TargetWrite(l, Head(due[l]))
    BY <2>1, <2>4, <2>5, RequestStands DEF LatestInv
  <2>6. CASE table' = table /\ latest' = latest
    BY <2>4, <2>6, LatestKept
  <2> QED BY <1>7, <2>5, <2>6 DEF apply_one, apply_failed
<1>8. ASSUME Tick PROVE LatestInv'
  <2>1. table' = table /\ latest' = latest /\ pc' = pc /\ applied_at' = applied_at
    BY <1>8 DEF Tick, process
  <2> QED BY <2>1, LatestKept DEF LatestInv
<1> QED BY <1>1, <1>3, <1>4, <1>5, <1>6, <1>7, <1>8 DEF Next

\* Last writer wins, for any number of links into one table: of all the changes
\* that reached an item since the application wrote it, the one with the newest
\* clock reading stands, unless that is a deletion (ddb.rs, the condition
\* #ts < :ts), in whatever order requests arrive, fail or are repeated.
THEOREM NewestPutStands == Spec => []LastPutWins
<1>1. Init => LatestInv
  <2> SUFFICES ASSUME Init PROVE LatestInv
    OBVIOUS
  <2>1. NoChange \in [at : Nat, content : Content \cup {Absent}] /\ Stands(NoItem, NoChange)
    BY DEF NoChange, Stands, NoItem, NoTs
  <2>2. /\ latest = [r \in Region |-> [k \in Key |-> NoChange]]
        /\ table = [r \in Region |-> [k \in Key |-> NoItem]]
        /\ pc = [l \in Links |-> "idle"]
    BY DEF Init
  <2> QED BY <2>1, <2>2 DEF LatestInv
<1>2. DdbIndInv /\ LatestInv /\ [Next /\ UNCHANGED setup]_vars => LatestInv'
  BY LatestStep
<1>3. LatestInv => LastPutWins
  BY DEF LatestInv, LastPutWins, Stands
<1> QED BY <1>1, <1>2, <1>3, DdbInvariant, PTL DEF Spec

---------------------------------------------------------------------------
(* A link that is the only feed of its target catches up.  What the target *)
(* has is what it was told last; that this is what the source has rests on *)
(* what each dedup key in the scheduler stands for, on what the last scan  *)
(* and the one under way saw, and on what no scan can see any more.        *)

Contents == Content \cup {Absent}

\* The change of k to c is in the sequence q.
Tells(q, k, c) == \E i \in 1..Len(q) : q[i].event = [key |-> k, content |-> c]

\* c is what the sequence q says last about k.
SaysLast(q, k, c) ==
  \E i \in 1..Len(q) : /\ q[i].event = [key |-> k, content |-> c]
                       /\ \A j \in 1..Len(q) : i < j => q[j].event.key # k

\* The sequence q says nothing about k.
Silent(q, k) == \A c \in Contents : ~Tells(q, k, c)

\* The dedup keys a scheduler knows are those of the changes in q.
Faithful(s, q) ==
  /\ \A key : is_known(s, key) => \E i \in 1..Len(q) : q[i].key = key
  /\ \A i \in 1..Len(q) : q[i].key = <<q[i].event.key, <<q[i].event.content, NoTs>>>>

\* The source T and the contents H it has had: nothing else writes it.
SourceInv(T, H, keys) ==
  \A k \in Key :
    /\ T[k].ts = NoTs
    /\ T[k].content \in H[k] \/ (H[k] = {} /\ T[k].content = Absent)
    /\ k \notin keys => T[k].content = Absent

\* What was told was so once, and nothing was told after the present content.
ToldInv(T, H, q) ==
  \A k \in Key, c \in Contents :
    Tells(q, k, c) => c \in H[k] /\ (T[k].content = c => SaysLast(q, k, c))

\* A key of the last scan: once its deletion was told, it is not absent again.
LiveInv(T, H, q, live, keys) ==
  \A k \in live : k \in keys /\ H[k] # {} /\ (Tells(q, k, Absent) => T[k].content # Absent)

\* A scan under way.
ScanInv(T, H, q, live, keys, todo, seen) ==
  /\ todo \subseteq keys
  /\ \A k \in Key :
       /\ seen[k].ts = NoTs
       /\ k \notin keys \ todo => seen[k].content = Absent
       /\ seen[k].content # Absent =>
            /\ seen[k].content \in H[k] /\ Tells(q, k, seen[k].content)
            /\ Tells(q, k, Absent) => T[k].content # Absent
       /\ k \in keys \ todo =>
            /\ seen[k].content # T[k].content => ~Tells(q, k, T[k].content)
            /\ k \in live => seen[k].content \in H[k]
            /\ k \in live /\ Tells(q, k, Absent) => seen[k].content # Absent

\* Of a key that neither the last scan nor this one found, and that no failure
\* hid, the target was told nothing or was told last that it is gone.
GoneInv(U, q, live, hidden, seen) ==
  \A k \in Key \ hidden :
    /\ k \in live \/ seen[k].content # Absent \/ Silent(q, k) \/ SaysLast(q, k, Absent)
    /\ Silent(q, k) => U[k].content = Absent

\* The target has what it was told last, unless that was dropped.
TargetInv(U, q, lost, at) ==
  \A k \in Key :
    /\ U[k].ts <= at
    /\ \A c \in Contents : SaysLast(q, k, c) /\ k \notin lost => U[k].content = c

\* Since the source is quiet, the scan saw it as it is.
QuietInv(T, q, live, keys, todo, seen, scanning) ==
  IF scanning THEN \A k \in keys \ todo : seen[k].content = T[k].content
  ELSE \A k \in Key : /\ k \in live <=> T[k].content # Absent
                      /\ k \in live => Tells(q, k, T[k].content)

\* All of it, for the link l.  The timestamps on the target are of past batches,
\* so a write is refused only for a reading equal to its own.
FeedInv(l) ==
  /\ Faithful(sched[l], discovered[l])
  /\ SourceInv(table[src(l)], had[src(l)], setup.keys)
  /\ ToldInv(table[src(l)], had[src(l)], discovered[l])
  /\ LiveInv(table[src(l)], had[src(l)], discovered[l], known_live_keys[l], setup.keys)
  /\ IF pc[l] = "scan"
     THEN ScanInv(table[src(l)], had[src(l)], discovered[l], known_live_keys[l], setup.keys,
                  scan[l].todo, scan[l].seen)
     ELSE scan[l] = NoScan
  /\ GoneInv(table[dst(l)], discovered[l], known_live_keys[l], unseen[l], scan[l].seen)
  /\ TargetInv(table[dst(l)], sent[l], dropped[l], applied_at[l]) /\ applied_at[l] <= now
  /\ quiet[l] => QuietInv(table[src(l)], discovered[l], known_live_keys[l], setup.keys,
                          scan[l].todo, scan[l].seen, pc[l] = "scan")

\* The history variables have their types.
HistoryInv ==
  /\ had \in [Region -> [Key -> SUBSET Contents]]
  /\ quiet \in [Links -> BOOLEAN]
  /\ dropped \in [Links -> SUBSET Key] /\ unseen \in [Links -> SUBSET Key]

\* Together with DdbIndInv this is inductive where contents do not return.
FeedsInv == HistoryInv /\ \A l \in setup.links : OnlyFeed(setup, l) => FeedInv(l)

\* c is told of k by the sequence with one more change.
LEMMA TellsAppend ==
  ASSUME NEW q \in Seq(Delivery), NEW d \in Delivery, NEW k \in Key, NEW c \in Contents
  PROVE  /\ Tells(Append(q, d), k, c) <=> Tells(q, k, c) \/ d.event = [key |-> k, content |-> c]
         /\ d.event.key # k /\ SaysLast(q, k, c) => SaysLast(Append(q, d), k, c)
         /\ d.event = [key |-> k, content |-> c] => SaysLast(Append(q, d), k, c)
<1>1. PICK r : r = Append(q, d)
  OBVIOUS
<1>2. PICK e : e = [key |-> k, content |-> c]
  OBVIOUS
<1>3. /\ Len(q) \in Nat /\ Len(r) = Len(q) + 1 /\ r[Len(q) + 1] = d
      /\ \A i \in 1..Len(q) : r[i] = q[i]
  BY <1>1, AppendProperties
<1>4. PICK n : n = Len(q)
  OBVIOUS
<1>5. n \in Nat /\ Len(r) = n + 1 /\ r[n + 1] = d /\ (\A i \in 1..n : r[i] = q[i])
  BY <1>3, <1>4
<1>6. (\A i \in 1..(n + 1) : i \in 1..n \/ i = n + 1) /\ (\A i \in 1..n : i \in 1..(n + 1))
      /\ n + 1 \in 1..(n + 1)
  BY <1>5
<1>7. Tells(r, k, c) <=> \E i \in 1..(n + 1) : r[i].event = e
  BY <1>2, <1>5 DEF Tells
<1>8. Tells(q, k, c) <=> \E i \in 1..n : q[i].event = e
  BY <1>2, <1>4 DEF Tells
<1>9. Tells(r, k, c) <=> Tells(q, k, c) \/ d.event = e
  BY <1>5, <1>6, <1>7, <1>8
<1>10. ASSUME d.event.key # k, SaysLast(q, k, c) PROVE SaysLast(r, k, c)
  <2>1. PICK i \in 1..n : q[i].event = e /\ \A j \in 1..n : i < j => q[j].event.key # k
    BY <1>2, <1>4, <1>10 DEF SaysLast
  <2>2. ASSUME NEW j \in 1..(n + 1), i < j PROVE r[j].event.key # k
    BY <1>5, <1>6, <1>10, <2>1, <2>2
  <2>3. i \in 1..(n + 1) /\ r[i].event = e
    BY <1>5, <1>6, <2>1
  <2> QED BY <1>2, <1>5, <2>2, <2>3 DEF SaysLast
<1>11. ASSUME d.event = e PROVE SaysLast(r, k, c)
  <2>1. \A j \in 1..(n + 1) : ~(n + 1 < j)
    BY <1>5
  <2> QED BY <1>2, <1>5, <1>6, <1>11, <2>1 DEF SaysLast
<1> QED BY <1>1, <1>2, <1>9, <1>10, <1>11

\* What was told, r, is what was told before, q, and the pairs in P that were
\* not: those are the last that is said of their keys.
Learns(q, r, P) ==
  /\ \A k \in Key, c \in Contents : Tells(r, k, c) <=> Tells(q, k, c) \/ <<k, c>> \in P
  /\ \A k \in Key, c \in Contents : <<k, c>> \in P /\ ~Tells(q, k, c) => SaysLast(r, k, c)
  /\ \A k \in Key : (\A c \in Contents : <<k, c>> \in P => Tells(q, k, c))
                    => \A c \in Contents : SaysLast(q, k, c) => SaysLast(r, k, c)

\* The dedup key of a change tells its key and content: two changes of a link
\* with the same key are the same change.
LEMMA KnownIsTold ==
  ASSUME NEW s, NEW given, Accounts(s, given), Faithful(s, given \o s.pending),
         NEW k \in Key, NEW c \in Contents
  PROVE  is_known(s, <<k, <<c, NoTs>>>>) <=> Tells(given \o s.pending, k, c)
<1>1. PICK q : q = given \o s.pending
  OBVIOUS
<1>2. PICK key : key = <<k, <<c, NoTs>>>>
  OBVIOUS
<1>3. given \in Seq(Delivery) /\ s.pending \in Seq(Delivery)
  BY DEF Accounts, Scheduler
<1>4. q \in Seq(Delivery)
  BY <1>1, <1>3, ConcatProperties
<1>5. \A i \in 1..Len(q) : is_known(s, q[i].key)
  BY <1>1 DEF Accounts, AllKnown
<1>6. /\ is_known(s, key) => \E i \in 1..Len(q) : q[i].key = key
      /\ \A i \in 1..Len(q) : q[i].key = <<q[i].event.key, <<q[i].event.content, NoTs>>>>
  BY <1>1 DEF Faithful
<1>7. ASSUME NEW i \in 1..Len(q) PROVE q[i].key = key <=> q[i].event = [key |-> k, content |-> c]
  <2>1. q[i] \in Delivery
    BY <1>4, ElementOfSeq
  <2>2. PICK e : e = q[i].event
    OBVIOUS
  <2>3. e \in [key : Key, content : Contents]
    BY <2>1, <2>2 DEF Delivery, Change, Contents
  <2>4. q[i].key = <<e.key, <<e.content, NoTs>>>>
    BY <1>6, <2>2
  <2>5. <<e.key, <<e.content, NoTs>>>> = <<k, <<c, NoTs>>>> <=> e.key = k /\ e.content = c
    OBVIOUS
  <2>6. e = [key |-> k, content |-> c] <=> e.key = k /\ e.content = c
    BY <2>3
  <2> QED BY <1>2, <2>2, <2>4, <2>5, <2>6
<1>8. Tells(q, k, c) <=> \E i \in 1..Len(q) : q[i].event = [key |-> k, content |-> c]
  BY DEF Tells
<1>9. is_known(s, key) <=> \E i \in 1..Len(q) : q[i].key = key
  BY <1>5, <1>6
<1>10. is_known(s, key) <=> Tells(q, k, c)
  BY <1>7, <1>8, <1>9
<1> QED BY <1>1, <1>2, <1>10

\* Nothing to learn.
LEMMA LearnsNothing ==
  ASSUME NEW q, NEW P, \A k \in Key, c \in Contents : <<k, c>> \in P => Tells(q, k, c)
  PROVE  Learns(q, q, P)
  BY DEF Learns

\* One change more.
LEMMA LearnsOne ==
  ASSUME NEW q \in Seq(Delivery), NEW d \in Delivery, NEW k \in Key, NEW c \in Contents,
         d.event = [key |-> k, content |-> c], ~Tells(q, k, c)
  PROVE  Learns(q, Append(q, d), {<<k, c>>})
<1>1. PICK r : r = Append(q, d)
  OBVIOUS
<1>2. d.event.key = k /\ d.event.content = c
  OBVIOUS
<1>3. ASSUME NEW x \in Key, NEW y \in Contents
      PROVE  /\ Tells(r, x, y) <=> Tells(q, x, y) \/ <<x, y>> \in {<<k, c>>}
             /\ <<x, y>> \in {<<k, c>>} => SaysLast(r, x, y)
             /\ x # k /\ SaysLast(q, x, y) => SaysLast(r, x, y)
  <2>1. /\ Tells(r, x, y) <=> Tells(q, x, y) \/ d.event = [key |-> x, content |-> y]
        /\ d.event.key # x /\ SaysLast(q, x, y) => SaysLast(r, x, y)
        /\ d.event = [key |-> x, content |-> y] => SaysLast(r, x, y)
    BY <1>1, TellsAppend
  <2>2. d.event = [key |-> x, content |-> y] <=> x = k /\ y = c
    <3>1. [key |-> k, content |-> c] = [key |-> x, content |-> y] => k = x /\ c = y
      <4>1. [key |-> k, content |-> c].key = k /\ [key |-> k, content |-> c].content = c
            /\ [key |-> x, content |-> y].key = x /\ [key |-> x, content |-> y].content = y
        OBVIOUS
      <4> QED BY <4>1
    <3> QED BY <3>1
  <2>3. <<x, y>> \in {<<k, c>>} <=> x = k /\ y = c
    OBVIOUS
  <2> QED BY <1>2, <2>1, <2>2, <2>3
<1>4. ASSUME NEW x \in Key, \A y \in Contents : <<x, y>> \in {<<k, c>>} => Tells(q, x, y)
      PROVE  x # k
  BY <1>4
<1>5. Learns(q, r, {<<k, c>>})
  BY <1>3, <1>4 DEF Learns
<1> QED BY <1>1, <1>5

\* A change at the end of the queue is at the end of all that was discovered.
LEMMA ConcatAppend ==
  ASSUME NEW g \in Seq(Delivery), NEW p \in Seq(Delivery), NEW d \in Delivery
  PROVE  g \o Append(p, d) = Append(g \o p, d)
<1>1. PICK u : u = <<d>>
  OBVIOUS
<1>2. u \in Seq(Delivery) /\ g \o p \in Seq(Delivery)
  BY <1>1, ConcatProperties
<1>3. Append(p, d) = p \o u
  BY <1>1, AppendIsConcat
<1>4. Append(g \o p, d) = (g \o p) \o u
  BY <1>1, <1>2, AppendIsConcat
<1>5. (g \o p) \o u = g \o (p \o u)
  BY <1>2, ConcatAssociative
<1> QED BY <1>3, <1>4, <1>5

\* discover, on the changes told so far.
LEMMA DiscoverLearns ==
  ASSUME NEW s, NEW given, Accounts(s, given), Faithful(s, given \o s.pending),
         NEW k \in Key, NEW c \in Contents, NEW at \in Nat,
         NEW item, item = [content |-> c, ts |-> NoTs]
  PROVE  LET t == discover(s, DdbKey(k, item), Event(k, item), at)
         IN  /\ Accounts(t, given)
             /\ Faithful(t, given \o t.pending)
             /\ Learns(given \o s.pending, given \o t.pending, {<<k, c>>})
<1>1. PICK key : key = <<k, <<c, NoTs>>>>
  OBVIOUS
<1>2. PICK event : event = [key |-> k, content |-> c]
  OBVIOUS
<1>3. DdbKey(k, item) = key /\ Event(k, item) = event
  BY <1>1, <1>2 DEF DdbKey, fingerprint_of, Event
<1>4. key \in DedupKey /\ event \in Change
  BY <1>1, <1>2 DEF DedupKey, Change, Contents, NoTs
<1>5. PICK t : t = discover(s, key, event, at)
  OBVIOUS
<1>6. PICK d : d = [key |-> key, event |-> event, at |-> at]
  OBVIOUS
<1>7. d \in Delivery /\ d.key = key /\ d.event = event
  BY <1>4, <1>6 DEF Delivery
<1>8. Accounts(t, given)
  BY <1>4, <1>5, DiscoverAccounts
<1>9. PICK q : q = given \o s.pending
  OBVIOUS
<1>10. PICK r : r = given \o t.pending
  OBVIOUS
<1>11. given \in Seq(Delivery) /\ s.pending \in Seq(Delivery) /\ s \in Scheduler
  BY DEF Accounts, Scheduler
<1>12. q \in Seq(Delivery)
  BY <1>9, <1>11, ConcatProperties
<1>13. is_known(s, key) <=> Tells(q, k, c)
  BY <1>1, <1>9, KnownIsTold
<1>14. CASE is_known(s, key)
  <2>1. t = s /\ r = q
    BY <1>5, <1>9, <1>10, <1>14 DEF discover
  <2>2. \A x \in Key, y \in Contents : <<x, y>> \in {<<k, c>>} => Tells(q, x, y)
    <3> SUFFICES ASSUME NEW x \in Key, NEW y \in Contents, <<x, y>> = <<k, c>> PROVE Tells(q, x, y)
      OBVIOUS
    <3>1. x = k /\ y = c
      OBVIOUS
    <3> QED BY <1>13, <1>14, <3>1
  <2>3. Learns(q, r, {<<k, c>>})
    BY <2>1, <2>2, LearnsNothing
  <2> QED BY <1>3, <1>5, <1>8, <1>9, <1>10, <2>1, <2>3
<1>15. CASE ~is_known(s, key)
  <2>1. t = [s EXCEPT !.pending = Append(@, d)]
    BY <1>5, <1>6, <1>15 DEF discover
  <2>2. t.pending = Append(s.pending, d) /\ t.applied = s.applied
    BY <1>11, <2>1 DEF Scheduler
  <2>3. r = Append(q, d)
    BY <1>7, <1>9, <1>10, <1>11, <2>2, ConcatAppend
  <2>4. Learns(q, r, {<<k, c>>})
    BY <1>2, <1>7, <1>12, <1>13, <1>15, <2>3, LearnsOne
  <2>5. Faithful(t, r)
    <3>1. /\ Len(q) \in Nat /\ Len(r) = Len(q) + 1 /\ r[Len(q) + 1] = d
          /\ \A i \in 1..Len(q) : r[i] = q[i]
      BY <1>7, <1>12, <2>3, AppendProperties
    <3>2. PICK n : n = Len(q)
      OBVIOUS
    <3>3. n \in Nat /\ Len(r) = n + 1 /\ r[n + 1] = d /\ (\A i \in 1..n : r[i] = q[i])
      BY <3>1, <3>2
    <3>4. (\A i \in 1..(n + 1) : i \in 1..n \/ i = n + 1) /\ (\A i \in 1..n : i \in 1..(n + 1))
          /\ n + 1 \in 1..(n + 1)
      BY <3>3
    <3>5. /\ \A x : is_known(s, x) => \E i \in 1..n : q[i].key = x
          /\ \A i \in 1..n : q[i].key = <<q[i].event.key, <<q[i].event.content, NoTs>>>>
      BY <1>9, <3>2 DEF Faithful
    <3>6. ASSUME NEW i \in 1..(n + 1)
          PROVE  r[i].key = <<r[i].event.key, <<r[i].event.content, NoTs>>>>
      <4>1. d.event.key = k /\ d.event.content = c
        BY <1>2, <1>7
      <4>2. d.key = <<d.event.key, <<d.event.content, NoTs>>>>
        BY <1>1, <1>7, <4>1
      <4> QED BY <3>3, <3>4, <3>5, <4>2
    <3>7. ASSUME NEW x, is_known(t, x) PROVE is_known(s, x) \/ x = key
      <4>1. PICK p : p = s.pending
        OBVIOUS
      <4>2. Len(Append(p, d)) = Len(p) + 1 /\ Len(p) \in Nat /\ Append(p, d)[Len(p) + 1] = d
            /\ \A i \in 1..Len(p) : Append(p, d)[i] = p[i]
        BY <1>7, <1>11, <4>1, AppendProperties
      <4>3. x \in s.applied \/ \E i \in 1..(Len(p) + 1) : x = Append(p, d)[i].key
        BY <2>2, <3>7, <4>1, <4>2 DEF is_known, PendingKeys
      <4>4. ASSUME NEW i \in 1..(Len(p) + 1), x = Append(p, d)[i].key PROVE is_known(s, x) \/ x = key
        <5>1. i \in 1..Len(p) \/ i = Len(p) + 1
          BY <4>2
        <5> QED BY <1>7, <4>1, <4>2, <4>4, <5>1 DEF is_known, PendingKeys
      <4> QED BY <4>3, <4>4 DEF is_known
    <3>8. ASSUME NEW x, is_known(t, x) PROVE \E i \in 1..(n + 1) : r[i].key = x
      <4>1. CASE is_known(s, x)
        BY <3>3, <3>4, <3>5, <4>1
      <4>2. CASE x = key
        BY <1>7, <3>3, <3>4, <4>2
      <4> QED BY <3>7, <3>8, <4>1, <4>2
    <3> QED BY <3>3, <3>6, <3>8 DEF Faithful
  <2> QED BY <1>3, <1>5, <1>8, <1>9, <1>10, <2>4, <2>5
<1> QED BY <1>14, <1>15

\* Deletions learned one after the other are learned together.
LEMMA LearnsMore ==
  ASSUME NEW q, NEW r, NEW r2, NEW S, NEW k \in Key, Absent \in Contents,
         Learns(q, r, {<<x, Absent>> : x \in S}), Learns(r, r2, {<<k, Absent>>})
  PROVE  Learns(q, r2, {<<x, Absent>> : x \in S \cup {k}})
<1> DEFINE P == {<<x, Absent>> : x \in S}
           R == {<<x, Absent>> : x \in S \cup {k}}
<1>1. /\ \A x \in Key, c \in Contents : Tells(r, x, c) <=> Tells(q, x, c) \/ <<x, c>> \in P
      /\ \A x \in Key, c \in Contents : <<x, c>> \in P /\ ~Tells(q, x, c) => SaysLast(r, x, c)
      /\ \A x \in Key : (\A c \in Contents : <<x, c>> \in P => Tells(q, x, c))
                        => \A c \in Contents : SaysLast(q, x, c) => SaysLast(r, x, c)
  BY DEF Learns
<1>2. /\ \A x \in Key, c \in Contents : Tells(r2, x, c) <=> Tells(r, x, c) \/ <<x, c>> \in {<<k, Absent>>}
      /\ \A x \in Key, c \in Contents : <<x, c>> \in {<<k, Absent>>} /\ ~Tells(r, x, c) => SaysLast(r2, x, c)
      /\ \A x \in Key : (\A c \in Contents : <<x, c>> \in {<<k, Absent>>} => Tells(r, x, c))
                        => \A c \in Contents : SaysLast(r, x, c) => SaysLast(r2, x, c)
  BY DEF Learns
<1>3. \A x, c : <<x, c>> \in P <=> x \in S /\ c = Absent
  OBVIOUS
<1>4. \A x, c : <<x, c>> \in R <=> (x \in S \/ x = k) /\ c = Absent
  OBVIOUS
<1>5. \A x, c : <<x, c>> \in {<<k, Absent>>} <=> x = k /\ c = Absent
  OBVIOUS
<1> HIDE DEF P, R
<1>6. \A x \in Key, c \in Contents : Tells(r2, x, c) <=> Tells(q, x, c) \/ <<x, c>> \in R
  <2> SUFFICES ASSUME NEW x \in Key, NEW c \in Contents
               PROVE  Tells(r2, x, c) <=> Tells(q, x, c) \/ <<x, c>> \in R
    OBVIOUS
  <2>1. Tells(r, x, c) <=> Tells(q, x, c) \/ <<x, c>> \in P
    BY <1>1
  <2>2. Tells(r2, x, c) <=> Tells(r, x, c) \/ <<x, c>> \in {<<k, Absent>>}
    BY <1>2
  <2>3. <<x, c>> \in R <=> <<x, c>> \in P \/ <<x, c>> \in {<<k, Absent>>}
    BY <1>3, <1>4, <1>5
  <2> QED BY <2>1, <2>2, <2>3
<1>7. ASSUME NEW x \in Key, NEW c \in Contents, <<x, c>> \in R, ~Tells(q, x, c)
      PROVE  SaysLast(r2, x, c)
  <2>1. c = Absent /\ (x \in S \/ x = k)
    BY <1>4, <1>7
  <2>2. CASE Tells(r, x, c)
    <3>1. SaysLast(r, x, c)
      BY <1>1, <1>7, <2>2
    <3>2. \A y \in Contents : <<x, y>> \in {<<k, Absent>>} => Tells(r, x, y)
      BY <1>5, <2>1, <2>2
    <3> QED BY <1>2, <3>1, <3>2
  <2>3. CASE ~Tells(r, x, c)
    <3>1. x = k
      BY <1>1, <1>3, <2>1, <2>3
    <3> QED BY <1>2, <1>5, <2>1, <2>3, <3>1
  <2> QED BY <2>2, <2>3
<1>8. ASSUME NEW x \in Key, \A c \in Contents : <<x, c>> \in R => Tells(q, x, c),
             NEW c \in Contents, SaysLast(q, x, c)
      PROVE  SaysLast(r2, x, c)
  <2>1. \A y \in Contents : <<x, y>> \in P => Tells(q, x, y)
    BY <1>3, <1>4, <1>8
  <2>2. SaysLast(r, x, c)
    BY <1>1, <1>8, <2>1
  <2>3. \A y \in Contents : <<x, y>> \in {<<k, Absent>>} => Tells(r, x, y)
    BY <1>1, <1>4, <1>5, <1>8
  <2> QED BY <1>2, <2>2, <2>3
<1>9. Learns(q, r2, R)
  BY <1>6, <1>7, <1>8 DEF Learns
<1> QED BY <1>9 DEF R

\* The vanished keys of a scan are told as deletions, all of them.
LEMMA DeletedLearns ==
  ASSUME NEW l, NEW given, NEW ks \in Seq(Key),
         Accounts(sched[l], given), Faithful(sched[l], given \o sched[l].pending),
         scan[l].at \in Nat,
         \A i \in 1..Len(ks) : scan[l].seen[ks[i]] = NoItem
  PROVE  LET t == DiscoverDeleted(l, ks)
         IN  /\ Faithful(t, given \o t.pending)
             /\ Learns(given \o sched[l].pending, given \o t.pending,
                       {<<x, Absent>> : x \in {ks[i] : i \in 1..Len(ks)}})
<1>1. PICK after :
        /\ after[0] = sched[l]
        /\ \A n \in 1..Len(ks) :
             after[n] = discover(after[n - 1], DdbKey(ks[n], scan[l].seen[ks[n]]),
                                 Event(ks[n], scan[l].seen[ks[n]]), scan[l].at)
        /\ DiscoverDeleted(l, ks) = after[Len(ks)]
  BY DeletedUnrolls
<1>2. PICK q : q = given \o sched[l].pending
  OBVIOUS
<1>3. PICK at : at = scan[l].at
  OBVIOUS
<1>4. PICK N : N = Len(ks)
  OBVIOUS
<1>5. N \in Nat /\ at \in Nat /\ Absent \in Contents /\ \A n \in 1..N : ks[n] \in Key
  BY <1>3, <1>4 DEF Contents
<1> DEFINE told(n) == {ks[i] : i \in 1..n}
           G(n) == /\ Accounts(after[n], given)
                   /\ Faithful(after[n], given \o after[n].pending)
                   /\ Learns(q, given \o after[n].pending, {<<x, Absent>> : x \in told(n)})
           T == {m \in Nat : m <= N => G(m)}
<1>6. G(0)
  <2>1. {<<x, Absent>> : x \in told(0)} = {}
    OBVIOUS
  <2>2. Learns(q, q, {})
    BY DEF Learns
  <2> QED BY <1>1, <1>2, <2>1, <2>2
<1>7. ASSUME NEW m \in Nat, m + 1 <= N, G(m) PROVE G(m + 1)
  <2>1. m + 1 \in 1..N /\ (m + 1) - 1 = m
    BY <1>5, <1>7
  <2>2. PICK k : k = ks[m + 1]
    OBVIOUS
  <2>3. k \in Key /\ scan[l].seen[k] = NoItem
    BY <1>4, <1>5, <2>1, <2>2
  <2>4. PICK s : s = after[m]
    OBVIOUS
  <2>5. PICK t : t = after[m + 1]
    OBVIOUS
  <2>6. t = discover(s, DdbKey(k, NoItem), Event(k, NoItem), at)
    BY <1>1, <1>3, <1>4, <2>1, <2>2, <2>3, <2>4, <2>5
  <2>7. NoItem = [content |-> Absent, ts |-> NoTs]
    BY DEF NoItem
  <2>8. Accounts(s, given) /\ Faithful(s, given \o s.pending)
    BY <1>7, <2>4
  <2>9. PICK item : item = NoItem
    OBVIOUS
  <2>10. /\ Accounts(t, given) /\ Faithful(t, given \o t.pending)
         /\ Learns(given \o s.pending, given \o t.pending, {<<k, Absent>>})
    BY <1>5, <2>3, <2>6, <2>7, <2>8, <2>9, DiscoverLearns
  <2>11. told(m + 1) = told(m) \cup {k}
    <3>1. \A i \in 1..(m + 1) : i \in 1..m \/ i = m + 1
      OBVIOUS
    <3>2. (\A i \in 1..m : i \in 1..(m + 1)) /\ m + 1 \in 1..(m + 1)
      OBVIOUS
    <3> QED BY <2>2, <3>1, <3>2
  <2>12. Learns(q, given \o s.pending, {<<x, Absent>> : x \in told(m)})
    BY <1>7, <2>4
  <2> HIDE DEF told
  <2>13. Learns(q, given \o t.pending, {<<x, Absent>> : x \in told(m) \cup {k}})
    BY <1>5, <2>3, <2>10, <2>12, LearnsMore
  <2> QED BY <2>5, <2>10, <2>11, <2>13
<1> HIDE DEF G
<1>8. 0 \in T
  BY <1>6
<1>9. ASSUME NEW m \in Nat, m \in T PROVE m + 1 \in T
  <2> SUFFICES ASSUME m + 1 <= N PROVE G(m + 1)
    OBVIOUS
  <2>1. m <= N
    BY <1>5
  <2> QED BY <1>7, <1>9, <2>1
<1>10. N \in T
  BY <1>5, <1>8, <1>9, SetInduction
<1>11. G(N)
  BY <1>5, <1>10
<1> QED BY <1>1, <1>2, <1>4, <1>11 DEF G

\* What is known before apply_due is known after it, and nothing else is.
LEMMA DrainFaithful ==
  ASSUME NEW s \in Scheduler, NEW q, Faithful(s, q), NEW t \in Nat
  PROVE  Faithful(drain_due(s, t), q)
<1>1. PICK n : n = DueLen(s, t)
  OBVIOUS
<1>2. PICK p : p = s.pending
  OBVIOUS
<1>3. p \in Seq(Delivery) /\ Len(p) \in Nat /\ n \in 0..Len(p)
  BY <1>1, <1>2, DuePrefix DEF Scheduler
<1>4. PICK d : d = SubSeq(p, 1, n)
  OBVIOUS
<1>5. PICK u : u = SubSeq(p, n + 1, Len(p))
  OBVIOUS
<1>6. PICK e : e = drain_due(s, t)
  OBVIOUS
<1>7. e.pending = u /\ e.applied = s.applied \cup {d[i].key : i \in 1..n}
  BY <1>1, <1>2, <1>4, <1>5, <1>6 DEF drain_due, drained, rest_after, Scheduler
<1>8. \A i \in 1..n : d[i] = p[i] /\ i \in 1..Len(p)
  <2>1. \A i \in 1..n : p[i] \in Delivery
    BY <1>3
  <2>2. \A i \in 1..(n - 1 + 1) : d[i] = p[1 + i - 1]
    BY <1>3, <1>4, <2>1, SubSeqProperties
  <2> QED BY <1>3, <2>2
<1>9. \A i \in 1..Len(u) : \E j \in 1..Len(p) : u[i] = p[j]
  <2>1. \A i \in (n + 1)..Len(p) : p[i] \in Delivery
    BY <1>3
  <2>2. /\ Len(u) = IF n + 1 <= Len(p) THEN Len(p) - (n + 1) + 1 ELSE 0
        /\ \A i \in 1..(Len(p) - (n + 1) + 1) : u[i] = p[(n + 1) + i - 1]
    BY <1>3, <1>5, <2>1, SubSeqProperties
  <2> SUFFICES ASSUME NEW i \in 1..Len(u)
               PROVE  n + i \in 1..Len(p) /\ u[i] = p[n + i]
    OBVIOUS
  <2>3. Len(u) = Len(p) - n /\ i \in 1..(Len(p) - (n + 1) + 1) /\ (n + 1) + i - 1 = n + i
    BY <1>3, <2>2
  <2> QED BY <1>3, <2>2, <2>3
<1>10. ASSUME NEW x, is_known(e, x) PROVE is_known(s, x)
  <2>1. x \in s.applied \/ (\E i \in 1..n : x = d[i].key) \/ \E i \in 1..Len(u) : x = u[i].key
    BY <1>7, <1>10 DEF is_known, PendingKeys
  <2>2. x \in s.applied \/ \E i \in 1..Len(p) : x = p[i].key
    BY <1>8, <1>9, <2>1
  <2> QED BY <1>2, <2>2 DEF is_known, PendingKeys
<1>11. Faithful(e, q)
  BY <1>10 DEF Faithful
<1> QED BY <1>6, <1>11

---------------------------------------------------------------------------
(* What the steps do to the parts of FeedInv. *)

\* The application writes the source: a content the key never had, so nothing
\* was told of it yet.
LEMMA FreshWrite ==
  ASSUME NEW T, NEW T2, NEW H, NEW H2, NEW q, NEW live \in SUBSET Key, NEW keys \in SUBSET Key,
         NEW k \in keys, NEW c \in Contents, c \notin H[k],
         \A x \in Key : T[x].content \in Contents,
         T2[k] = [content |-> c, ts |-> NoTs], H2[k] = H[k] \cup {c},
         \A x \in Key \ {k} : T2[x] = T[x] /\ H2[x] = H[x],
         SourceInv(T, H, keys), ToldInv(T, H, q), LiveInv(T, H, q, live, keys)
  PROVE  /\ SourceInv(T2, H2, keys) /\ ToldInv(T2, H2, q) /\ LiveInv(T2, H2, q, live, keys)
         /\ \A todo, seen : ScanInv(T, H, q, live, keys, todo, seen)
                            => ScanInv(T2, H2, q, live, keys, todo, seen)
<1>1. k \in Key /\ T2[k].content = c /\ T2[k].ts = NoTs
  OBVIOUS
<1>2. ~Tells(q, k, c)
  BY <1>1 DEF ToldInv
<1>3. SourceInv(T2, H2, keys)
  BY <1>1 DEF SourceInv
<1>4. ToldInv(T2, H2, q)
  <2> SUFFICES ASSUME NEW x \in Key, NEW y \in Contents, Tells(q, x, y)
               PROVE  y \in H2[x] /\ (T2[x].content = y => SaysLast(q, x, y))
    BY DEF ToldInv
  <2>1. y \in H[x] /\ (T[x].content = y => SaysLast(q, x, y))
    BY DEF ToldInv
  <2>2. CASE x = k
    BY <1>1, <1>2, <2>1, <2>2
  <2>3. CASE x # k
    BY <2>1, <2>3
  <2> QED BY <2>2, <2>3
<1>5. LiveInv(T2, H2, q, live, keys)
  <2> SUFFICES ASSUME NEW x \in live
               PROVE  x \in keys /\ H2[x] # {} /\ (Tells(q, x, Absent) => T2[x].content # Absent)
    BY DEF LiveInv
  <2>1. x \in keys /\ H[x] # {} /\ (Tells(q, x, Absent) => T[x].content # Absent)
    BY DEF LiveInv
  <2>2. CASE x = k
    BY <1>1, <1>2, <2>1, <2>2
  <2>3. CASE x # k
    BY <2>1, <2>3
  <2> QED BY <2>2, <2>3
<1>6. ASSUME NEW todo, NEW seen, ScanInv(T, H, q, live, keys, todo, seen)
      PROVE  ScanInv(T2, H2, q, live, keys, todo, seen)
  <2>1. todo \subseteq keys
    BY <1>6 DEF ScanInv
  <2>2. ASSUME NEW x \in Key
        PROVE  /\ seen[x].ts = NoTs
               /\ x \notin keys \ todo => seen[x].content = Absent
               /\ seen[x].content # Absent =>
                    /\ seen[x].content \in H2[x] /\ Tells(q, x, seen[x].content)
                    /\ Tells(q, x, Absent) => T2[x].content # Absent
               /\ x \in keys \ todo =>
                    /\ seen[x].content # T2[x].content => ~Tells(q, x, T2[x].content)
                    /\ x \in live => seen[x].content \in H2[x]
                    /\ x \in live /\ Tells(q, x, Absent) => seen[x].content # Absent
    <3>1. /\ seen[x].ts = NoTs
          /\ x \notin keys \ todo => seen[x].content = Absent
          /\ seen[x].content # Absent =>
               /\ seen[x].content \in H[x] /\ Tells(q, x, seen[x].content)
               /\ Tells(q, x, Absent) => T[x].content # Absent
          /\ x \in keys \ todo =>
               /\ seen[x].content # T[x].content => ~Tells(q, x, T[x].content)
               /\ x \in live => seen[x].content \in H[x]
               /\ x \in live /\ Tells(q, x, Absent) => seen[x].content # Absent
      BY <1>6 DEF ScanInv
    <3>2. CASE x = k
      BY <1>1, <1>2, <3>1, <3>2
    <3>3. CASE x # k
      BY <3>1, <3>3
    <3> QED BY <3>2, <3>3
  <2> QED BY <2>1, <2>2 DEF ScanInv
<1> QED BY <1>3, <1>4, <1>5, <1>6

\* What the page of k has to tell.
PageTells(T, k) == IF T[k].content = Absent THEN {} ELSE {<<k, T[k].content>>}

\* A page of the scan: the item is told as it is now.
LEMMA PageRead ==
  ASSUME NEW T, NEW H, NEW U, NEW q, NEW r, NEW live \in SUBSET Key, NEW keys \in SUBSET Key,
         NEW todo, NEW seen, NEW seen2, NEW hidden, NEW k \in todo,
         \A x \in Key : T[x].content \in Contents /\ seen[x].content \in Contents,
         seen2[k] = T[k], \A x \in Key \ {k} : seen2[x] = seen[x],
         Learns(q, r, PageTells(T, k)),
         SourceInv(T, H, keys), ToldInv(T, H, q), LiveInv(T, H, q, live, keys),
         ScanInv(T, H, q, live, keys, todo, seen), GoneInv(U, q, live, hidden, seen)
  PROVE  /\ ToldInv(T, H, r) /\ LiveInv(T, H, r, live, keys)
         /\ ScanInv(T, H, r, live, keys, todo \ {k}, seen2)
         /\ GoneInv(U, r, live, hidden, seen2)
         /\ QuietInv(T, q, live, keys, todo, seen, TRUE)
              => QuietInv(T, r, live, keys, todo \ {k}, seen2, TRUE)
<1>0. PICK P : P = PageTells(T, k)
  OBVIOUS
<1>1. todo \subseteq keys /\ k \in keys /\ k \in Key /\ Absent \in Contents
  BY DEF ScanInv, Contents
<1>2. PICK v : v = T[k].content
  OBVIOUS
<1>3. v \in Contents /\ (v # Absent => v \in H[k]) /\ T[k].ts = NoTs
  BY <1>1, <1>2 DEF SourceInv
<1>4. \A x \in Key, c \in Contents : <<x, c>> \in P <=> v # Absent /\ x = k /\ c = v
  BY <1>0, <1>2 DEF PageTells
<1>5. /\ \A x \in Key, c \in Contents : Tells(r, x, c) <=> Tells(q, x, c) \/ <<x, c>> \in P
      /\ \A x \in Key, c \in Contents : <<x, c>> \in P /\ ~Tells(q, x, c) => SaysLast(r, x, c)
      /\ \A x \in Key : (\A c \in Contents : <<x, c>> \in P => Tells(q, x, c))
                        => \A c \in Contents : SaysLast(q, x, c) => SaysLast(r, x, c)
  BY <1>0 DEF Learns
<1>6. \A x \in Key \ {k}, c \in Contents :
        (Tells(r, x, c) <=> Tells(q, x, c)) /\ (SaysLast(q, x, c) => SaysLast(r, x, c))
  BY <1>4, <1>5
<1>7. \A x \in Key : Tells(r, x, Absent) <=> Tells(q, x, Absent)
  BY <1>1, <1>4, <1>5
<1>8. v # Absent => Tells(r, k, v)
  BY <1>1, <1>3, <1>4, <1>5
<1>9. ToldInv(T, H, r)
  <2> SUFFICES ASSUME NEW x \in Key, NEW c \in Contents, Tells(r, x, c)
               PROVE  c \in H[x] /\ (T[x].content = c => SaysLast(r, x, c))
    BY DEF ToldInv
  <2>1. Tells(q, x, c) => c \in H[x] /\ (T[x].content = c => SaysLast(q, x, c))
    BY DEF ToldInv
  <2>2. CASE x # k
    BY <1>6, <2>1, <2>2
  <2>3. CASE x = k /\ Tells(q, x, c)
    <3>1. c \in H[x]
      BY <2>1, <2>3
    <3>2. ASSUME T[x].content = c PROVE SaysLast(r, x, c)
      <4>1. SaysLast(q, x, c)
        BY <2>1, <2>3, <3>2
      <4>2. \A y \in Contents : <<x, y>> \in P => Tells(q, x, y)
        BY <1>2, <1>4, <2>3, <3>2
      <4> QED BY <1>5, <4>1, <4>2
    <3> QED BY <3>1, <3>2
  <2>4. CASE x = k /\ ~Tells(q, x, c)
    <3>1. <<x, c>> \in P
      BY <1>5, <2>4
    <3>2. v # Absent /\ c = v
      BY <1>4, <3>1
    <3> QED BY <1>3, <1>5, <2>4, <3>1, <3>2
  <2> QED BY <2>2, <2>3, <2>4
<1>10. LiveInv(T, H, r, live, keys)
  BY <1>7 DEF LiveInv
<1>11. ScanInv(T, H, r, live, keys, todo \ {k}, seen2)
  <2>1. todo \ {k} \subseteq keys
    BY <1>1
  <2>2. ASSUME NEW x \in Key
        PROVE  /\ seen2[x].ts = NoTs
               /\ x \notin keys \ (todo \ {k}) => seen2[x].content = Absent
               /\ seen2[x].content # Absent =>
                    /\ seen2[x].content \in H[x] /\ Tells(r, x, seen2[x].content)
                    /\ Tells(r, x, Absent) => T[x].content # Absent
               /\ x \in keys \ (todo \ {k}) =>
                    /\ seen2[x].content # T[x].content => ~Tells(r, x, T[x].content)
                    /\ x \in live => seen2[x].content \in H[x]
                    /\ x \in live /\ Tells(r, x, Absent) => seen2[x].content # Absent
    <3>1. /\ seen[x].ts = NoTs
          /\ x \notin keys \ todo => seen[x].content = Absent
          /\ seen[x].content # Absent =>
               /\ seen[x].content \in H[x] /\ Tells(q, x, seen[x].content)
               /\ Tells(q, x, Absent) => T[x].content # Absent
          /\ x \in keys \ todo =>
               /\ seen[x].content # T[x].content => ~Tells(q, x, T[x].content)
               /\ x \in live => seen[x].content \in H[x]
               /\ x \in live /\ Tells(q, x, Absent) => seen[x].content # Absent
      BY DEF ScanInv
    <3>2. CASE x = k
      <4>1. seen2[x].content = v /\ seen2[x].ts = NoTs /\ T[x].content = v
        BY <1>2, <1>3, <3>2
      <4>2. x \in live => v \in H[x] /\ (Tells(r, x, Absent) => v # Absent)
        BY <1>2, <1>10, <3>2 DEF LiveInv, SourceInv
      <4> QED BY <1>1, <1>3, <1>8, <3>2, <4>1, <4>2
    <3>3. CASE x # k
      <4>1. seen2[x] = seen[x] /\ (x \in keys \ (todo \ {k}) <=> x \in keys \ todo)
        BY <3>3
      <4>2. T[x].content \in Contents
        OBVIOUS
      <4>3. ~Tells(q, x, T[x].content) => ~Tells(r, x, T[x].content)
        BY <1>6, <3>3, <4>2
      <4>4. seen[x].content # Absent => Tells(r, x, seen[x].content)
        <5>1. SUFFICES ASSUME seen[x].content # Absent PROVE Tells(r, x, seen[x].content)
          OBVIOUS
        <5>2. seen[x].content \in H[x] /\ Tells(q, x, seen[x].content)
          BY <3>1, <5>1
        <5> QED BY <1>6, <3>3, <5>2
      <4> QED BY <1>7, <3>1, <4>1, <4>3, <4>4
    <3> QED BY <3>2, <3>3
  <2> QED BY <2>1, <2>2 DEF ScanInv
<1>12. GoneInv(U, r, live, hidden, seen2)
  <2> SUFFICES ASSUME NEW x \in Key \ hidden
               PROVE  /\ x \in live \/ seen2[x].content # Absent \/ Silent(r, x) \/ SaysLast(r, x, Absent)
                      /\ Silent(r, x) => U[x].content = Absent
    BY DEF GoneInv
  <2>1. /\ x \in live \/ seen[x].content # Absent \/ Silent(q, x) \/ SaysLast(q, x, Absent)
        /\ Silent(q, x) => U[x].content = Absent
    BY DEF GoneInv
  <2>2. CASE x # k
    <3>1. seen2[x] = seen[x] /\ (Silent(r, x) <=> Silent(q, x))
          /\ (SaysLast(q, x, Absent) => SaysLast(r, x, Absent))
      BY <1>1, <1>6, <2>2 DEF Silent
    <3> QED BY <2>1, <3>1
  <2>3. CASE x = k /\ v # Absent
    <3>1. ~Silent(r, x)
      BY <1>3, <1>8, <2>3 DEF Silent
    <3>2. seen2[x].content # Absent
      BY <1>2, <2>3
    <3> QED BY <3>1, <3>2
  <2>4. CASE x = k /\ v = Absent
    <3>1. seen[x].content = Absent
      BY <1>1, <2>4 DEF ScanInv
    <3>2. Silent(r, x) <=> Silent(q, x)
      BY <1>4, <1>5, <2>4 DEF Silent
    <3>3. SaysLast(q, x, Absent) => SaysLast(r, x, Absent)
      BY <1>1, <1>4, <1>5, <2>4
    <3> QED BY <2>1, <3>1, <3>2, <3>3
  <2> QED BY <2>2, <2>3, <2>4
<1>13. QuietInv(T, q, live, keys, todo, seen, TRUE)
         => QuietInv(T, r, live, keys, todo \ {k}, seen2, TRUE)
  <2> SUFFICES ASSUME QuietInv(T, q, live, keys, todo, seen, TRUE), NEW x \in keys \ (todo \ {k})
               PROVE  seen2[x].content = T[x].content
    BY DEF QuietInv
  <2>1. CASE x = k
    BY <2>1
  <2>2. CASE x # k
    BY <2>2 DEF QuietInv
  <2> QED BY <2>1, <2>2
<1> QED BY <1>9, <1>10, <1>11, <1>12, <1>13

\* The items a scan found, as current_keys.
FoundIn(seen) == {k \in Key : seen[k].content # Absent}

\* A complete scan: the keys that vanished are told as deletions, and a
\* deletion is never told twice.
LEMMA ScanComplete ==
  ASSUME NEW T, NEW H, NEW U, NEW q, NEW r, NEW live \in SUBSET Key, NEW keys \in SUBSET Key,
         NEW seen, NEW hidden,
         \A x \in Key : T[x].content \in Contents /\ seen[x].content \in Contents,
         Learns(q, r, {<<x, Absent>> : x \in live \ FoundIn(seen)}),
         SourceInv(T, H, keys), ToldInv(T, H, q), LiveInv(T, H, q, live, keys),
         ScanInv(T, H, q, live, keys, {}, seen), GoneInv(U, q, live, hidden, seen)
  PROVE  /\ ToldInv(T, H, r) /\ LiveInv(T, H, r, FoundIn(seen), keys)
         /\ GoneInv(U, r, FoundIn(seen), hidden \ FoundIn(seen), NoScan.seen)
         /\ \A todo, any : QuietInv(T, q, live, keys, {}, seen, TRUE)
                           => QuietInv(T, r, FoundIn(seen), keys, todo, any, FALSE)
<1> DEFINE found == FoundIn(seen)
           P == {<<x, Absent>> : x \in live \ found}
<1>1. Absent \in Contents
  BY DEF Contents
<1>2. \A x, c : <<x, c>> \in P <=> x \in live \ found /\ c = Absent
  OBVIOUS
<1>3. \A x \in Key : x \in found <=> seen[x].content # Absent
  BY DEF FoundIn
<1>4. /\ \A x \in Key, c \in Contents : Tells(r, x, c) <=> Tells(q, x, c) \/ <<x, c>> \in P
      /\ \A x \in Key, c \in Contents : <<x, c>> \in P /\ ~Tells(q, x, c) => SaysLast(r, x, c)
      /\ \A x \in Key : (\A c \in Contents : <<x, c>> \in P => Tells(q, x, c))
                        => \A c \in Contents : SaysLast(q, x, c) => SaysLast(r, x, c)
  BY DEF Learns
<1>5. found \subseteq Key
  BY DEF FoundIn
<1> HIDE DEF P, found
<1>6. \A x \in Key \ (live \ found), c \in Contents :
        (Tells(r, x, c) <=> Tells(q, x, c)) /\ (SaysLast(q, x, c) => SaysLast(r, x, c))
  BY <1>2, <1>4
<1>7. ASSUME NEW x \in live \ found
      PROVE  /\ x \in Key /\ x \in keys /\ seen[x].content = Absent /\ Absent \in H[x]
             /\ ~Tells(q, x, Absent) /\ Tells(r, x, Absent) /\ SaysLast(r, x, Absent)
             /\ T[x].content # Absent => ~Tells(q, x, T[x].content)
  <2>1. x \in Key /\ x \in keys /\ seen[x].content = Absent
    BY <1>3 DEF LiveInv
  <2>2. /\ seen[x].content # T[x].content => ~Tells(q, x, T[x].content)
        /\ seen[x].content \in H[x]
        /\ Tells(q, x, Absent) => seen[x].content # Absent
    BY <2>1 DEF ScanInv
  <2>3. <<x, Absent>> \in P
    BY <1>2
  <2> QED BY <1>1, <1>4, <2>1, <2>2, <2>3
<1>8. ToldInv(T, H, r)
  <2> SUFFICES ASSUME NEW x \in Key, NEW c \in Contents, Tells(r, x, c)
               PROVE  c \in H[x] /\ (T[x].content = c => SaysLast(r, x, c))
    BY DEF ToldInv
  <2>1. Tells(q, x, c) => c \in H[x] /\ (T[x].content = c => SaysLast(q, x, c))
    BY DEF ToldInv
  <2>2. CASE x \notin live \ found
    BY <1>6, <2>1, <2>2
  <2>3. CASE x \in live \ found
    <3>1. CASE c = Absent
      BY <1>7, <2>3, <3>1
    <3>2. CASE c # Absent
      <4>1. Tells(q, x, c)
        <5>1. <<x, c>> \notin P
          BY <1>2, <3>2
        <5> QED BY <1>4, <5>1
      <4>2. T[x].content # c
        BY <1>7, <2>3, <3>2, <4>1
      <4> QED BY <2>1, <4>1, <4>2
    <3> QED BY <3>1, <3>2
  <2> QED BY <2>2, <2>3
<1>9. LiveInv(T, H, r, found, keys)
  <2> SUFFICES ASSUME NEW x \in found
               PROVE  x \in keys /\ H[x] # {} /\ (Tells(r, x, Absent) => T[x].content # Absent)
    BY DEF LiveInv
  <2>1. x \in Key /\ seen[x].content # Absent
    BY <1>3, <1>5
  <2>2. x \in keys /\ seen[x].content \in H[x] /\ (Tells(q, x, Absent) => T[x].content # Absent)
    BY <2>1 DEF ScanInv
  <2> QED BY <1>1, <1>6, <2>1, <2>2
<1>10. GoneInv(U, r, found, hidden \ found, NoScan.seen)
  <2> SUFFICES ASSUME NEW x \in Key \ (hidden \ found)
               PROVE  /\ x \in found \/ Silent(r, x) \/ SaysLast(r, x, Absent)
                      /\ Silent(r, x) => U[x].content = Absent
    BY DEF GoneInv
  <2>1. CASE x \in found
    <3>1. seen[x].content # Absent
      BY <1>3, <2>1
    <3>2. Tells(q, x, seen[x].content)
      BY <3>1 DEF ScanInv
    <3>3. Tells(r, x, seen[x].content)
      BY <1>4, <3>2
    <3>4. ~Silent(r, x)
      BY <3>3 DEF Silent
    <3> QED BY <2>1, <3>4
  <2>2. CASE x \in live \ found
    <3>1. SaysLast(r, x, Absent) /\ Tells(r, x, Absent)
      BY <1>7, <2>2
    <3>2. ~Silent(r, x)
      BY <1>1, <3>1 DEF Silent
    <3> QED BY <3>1, <3>2
  <2>3. CASE x \notin live \cup found
    <3>1. x \in Key \ hidden /\ seen[x].content = Absent
      BY <1>3, <2>3
    <3>2. /\ Silent(q, x) \/ SaysLast(q, x, Absent)
          /\ Silent(q, x) => U[x].content = Absent
      BY <2>3, <3>1 DEF GoneInv
    <3>3. (Silent(r, x) <=> Silent(q, x)) /\ (SaysLast(q, x, Absent) => SaysLast(r, x, Absent))
      BY <1>1, <1>6, <2>3, <3>1 DEF Silent
    <3> QED BY <3>2, <3>3
  <2> QED BY <2>1, <2>2, <2>3
<1>11. ASSUME NEW todo, NEW any, QuietInv(T, q, live, keys, {}, seen, TRUE)
       PROVE  QuietInv(T, r, found, keys, todo, any, FALSE)
  <2> SUFFICES ASSUME NEW x \in Key
               PROVE  /\ x \in found <=> T[x].content # Absent
                      /\ x \in found => Tells(r, x, T[x].content)
    BY DEF QuietInv
  <2>1. seen[x].content = T[x].content
    <3>1. CASE x \in keys
      BY <1>11, <3>1 DEF QuietInv
    <3>2. CASE x \notin keys
      <4>1. seen[x].content = Absent
        BY <3>2 DEF ScanInv
      <4>2. T[x].content = Absent
        BY <3>2 DEF SourceInv
      <4> QED BY <4>1, <4>2
    <3> QED BY <3>1, <3>2
  <2>2. seen[x].content # Absent => Tells(q, x, seen[x].content)
    BY DEF ScanInv
  <2> QED BY <1>3, <1>4, <2>1, <2>2
<1> QED BY <1>8, <1>9, <1>10, <1>11 DEF found

\* A scan that fails hides what only it found.
LEMMA ScanCutShort ==
  ASSUME NEW U, NEW q, NEW live, NEW seen, NEW hidden, GoneInv(U, q, live, hidden, seen)
  PROVE  GoneInv(U, q, live, hidden \cup (FoundIn(seen) \ live), NoScan.seen)
<1> SUFFICES ASSUME NEW x \in Key \ (hidden \cup (FoundIn(seen) \ live))
             PROVE  /\ x \in live \/ Silent(q, x) \/ SaysLast(q, x, Absent)
                    /\ Silent(q, x) => U[x].content = Absent
  BY DEF GoneInv
<1>1. x \in Key \ hidden /\ (x \in live \/ seen[x].content = Absent)
  BY DEF FoundIn
<1> QED BY <1>1 DEF GoneInv

\* The first page is still to be read.
LEMMA ScanBegins ==
  ASSUME NEW T, NEW H, NEW q, NEW live, NEW keys
  PROVE  /\ ScanInv(T, H, q, live, keys, keys, NoScan.seen)
         /\ QuietInv(T, q, live, keys, keys, NoScan.seen, TRUE)
         /\ \A k \in Key : NoScan.seen[k].content = Absent
<1>1. \A k \in Key : NoScan.seen[k].content = Absent /\ NoScan.seen[k].ts = NoTs
  BY DEF NoScan, NoItem
<1> QED BY <1>1 DEF ScanInv, QuietInv

\* One change reaches the target, is refused there, or is lost: the target has
\* it, or its key is among the dropped ones.
LEMMA OneSent ==
  ASSUME NEW U, NEW U2, NEW g \in Seq(Delivery), NEW d \in Delivery, NEW lost, NEW lost2,
         NEW at \in Nat, NEW k \in Key, d.event.key = k,
         \A x \in Key : U[x].ts \in Nat,
         TargetInv(U, g, lost, at),
         \/ /\ U2[k] = Applied(d, at) /\ \A x \in Key \ {k} : U2[x] = U[x]
            /\ lost2 = lost \ {k}
         \/ /\ U2 = U /\ ~lww_condition(U[k], at)
            /\ lost2 = IF U[k].ts = at THEN lost \cup {k} ELSE lost
         \/ U2 = U /\ lost2 = lost \cup {k}
  PROVE  TargetInv(U2, Append(g, d), lost2, at)
<1>1. d.event \in [key : Key, content : Contents]
  BY DEF Delivery, Change, Contents
<1>2. PICK r : r = Append(g, d)
  OBVIOUS
<1>3. ASSUME NEW x \in Key, NEW c \in Contents, SaysLast(r, x, c)
      PROVE  /\ x # k => SaysLast(g, x, c)
             /\ x = k => d.event.content = c
  <2>1. /\ Len(g) \in Nat /\ Len(r) = Len(g) + 1 /\ r[Len(g) + 1] = d
        /\ \A i \in 1..Len(g) : r[i] = g[i]
    BY <1>2, AppendProperties
  <2>2. PICK n : n = Len(g)
    OBVIOUS
  <2>3. n \in Nat /\ Len(r) = n + 1 /\ r[n + 1] = d /\ (\A i \in 1..n : r[i] = g[i])
    BY <2>1, <2>2
  <2>4. PICK i \in 1..(n + 1) :
          /\ r[i].event = [key |-> x, content |-> c]
          /\ \A j \in 1..(n + 1) : i < j => r[j].event.key # x
    BY <1>3, <2>3 DEF SaysLast
  <2>5. [key |-> x, content |-> c].key = x /\ [key |-> x, content |-> c].content = c
    OBVIOUS
  <2>6. CASE x = k
    <3>1. ~(i < n + 1)
      BY <2>3, <2>4, <2>6
    <3>2. i = n + 1
      BY <2>3, <3>1
    <3> QED BY <2>3, <2>4, <2>5, <2>6, <3>2
  <2>7. CASE x # k
    <3>1. i # n + 1
      BY <2>3, <2>4, <2>5, <2>7
    <3>2. i \in 1..n /\ (\A j \in 1..n : j \in 1..(n + 1))
      BY <2>3, <3>1
    <3>3. g[i].event = [key |-> x, content |-> c] /\ \A j \in 1..n : i < j => g[j].event.key # x
      BY <2>3, <2>4, <3>2
    <3>4. SaysLast(g, x, c)
      BY <2>2, <3>2, <3>3 DEF SaysLast
    <3> QED BY <2>7, <3>4
  <2> QED BY <2>6, <2>7
<1>4. /\ \A x \in Key : U[x].ts <= at
      /\ \A x \in Key, c \in Contents : SaysLast(g, x, c) /\ x \notin lost => U[x].content = c
  BY DEF TargetInv
<1>5. Applied(d, at).content = d.event.content /\ Applied(d, at).ts <= at
  BY DEF Applied, NoTs
<1>6. \A x \in Key : U2[x].ts <= at
  BY <1>4, <1>5
<1>7. ~lww_condition(U[k], at) => U[k].ts = at
  BY <1>4 DEF lww_condition
<1>8. ASSUME NEW x \in Key, NEW c \in Contents, SaysLast(r, x, c), x \notin lost2
      PROVE  U2[x].content = c
  <2>1. CASE x = k
    BY <1>3, <1>5, <1>7, <1>8, <2>1
  <2>2. CASE x # k
    BY <1>3, <1>4, <1>8, <2>2
  <2> QED BY <2>1, <2>2
<1> QED BY <1>2, <1>6, <1>8 DEF TargetInv

---------------------------------------------------------------------------
(* The steps of the deployment. *)

\* The history variables of the model keep their types: the application's
\* writes, by app_write.
LEMMA HistoryOfWrite ==
  ASSUME DdbIndInv, HistoryInv, setup' = setup,
         NEW r \in setup.writers, NEW k \in setup.keys, NEW c \in setup.contents \cup {Absent},
         app_write(r, k, c)
  PROVE  HistoryInv'
<1>1. r \in Region /\ k \in Key /\ c \in Contents
  BY SetupParts DEF DdbIndInv, StateInv, Contents
<1>2. had' = [had EXCEPT ![r][k] = @ \cup {c}] /\ dropped' = dropped /\ unseen' = unseen
  BY DEF app_write
<1>3. had' \in [Region -> [Key -> SUBSET Contents]]
  BY <1>1, <1>2 DEF HistoryInv
<1>4. quiet' \in [Links -> BOOLEAN]
  BY DEF app_write
<1> QED BY <1>2, <1>3, <1>4 DEF HistoryInv, Contents

\* The conditional write of a change.
LEMMA HistoryOfTarget ==
  ASSUME DdbIndInv, HistoryInv, NEW l \in Links, pc[l] = "apply", TargetWrite(l, Head(due[l]))
  PROVE  /\ had' \in [Region -> [Key -> SUBSET Contents]]
         /\ quiet' \in [Links -> BOOLEAN] /\ dropped' \in [Links -> SUBSET Key]
<1>1. StateInv /\ LinkInv(l)
  BY DEF DdbIndInv
<1>2. PICK d : d = Head(due[l])
  OBVIOUS
<1>3. d \in Delivery
  BY <1>1, <1>2, HeadTailProperties DEF StateInv, LinkInv
<1>4. PICK k : k = d.event.key
  OBVIOUS
<1>5. k \in Key /\ d.event.content \in Contents /\ dst(l) \in Region
  BY <1>3, <1>4, DdbLinkAssumption DEF Delivery, Change, Contents, dst
<1>6. CASE lww_condition(table[dst(l)][k], applied_at[l])
  <2>1. /\ had' = [had EXCEPT ![dst(l)][k] = @ \cup {d.event.content}]
        /\ quiet' = [m \in Links |-> quiet[m] /\ src(m) # dst(l)]
        /\ dropped' = [dropped EXCEPT ![l] = @ \ {k}]
    BY <1>2, <1>4, <1>6 DEF TargetWrite
  <2>2. had' \in [Region -> [Key -> SUBSET Contents]]
    BY <1>5, <2>1 DEF HistoryInv
  <2> QED BY <2>1, <2>2 DEF HistoryInv
<1>7. CASE ~lww_condition(table[dst(l)][k], applied_at[l])
  <2>1. /\ dropped' = [dropped EXCEPT ![l] = IF table[dst(l)][k].ts = applied_at[l] THEN @ \cup {k} ELSE @]
        /\ UNCHANGED <<table, had, quiet>>
    BY <1>2, <1>4, <1>7 DEF TargetWrite
  <2> QED BY <1>5, <2>1 DEF HistoryInv
<1> QED BY <1>6, <1>7

\* The steps of a link.
LEMMA HistoryOfLink ==
  ASSUME DdbIndInv, HistoryInv, setup' = setup, NEW l \in Links,
         \/ begin_cycle(l) \/ (\E k \in Key : scan_page(l, k)) \/ scan_end(l) \/ scan_error(l)
         \/ apply_one(l) \/ apply_failed(l) \/ restart(l)
  PROVE  HistoryInv'
<1>1. /\ had \in [Region -> [Key -> SUBSET Contents]] /\ quiet \in [Links -> BOOLEAN]
      /\ dropped \in [Links -> SUBSET Key] /\ unseen \in [Links -> SUBSET Key]
  BY DEF HistoryInv
<1>2. Found(l) \subseteq Key
  BY DEF Found
<1>3. CASE begin_cycle(l)
  <2>1. had' = had /\ dropped' = dropped /\ unseen' = unseen
    BY <1>3 DEF begin_cycle
  <2>2. quiet' = quiet \/ quiet' = [quiet EXCEPT ![l] = TRUE]
    BY <1>3 DEF begin_cycle
  <2> QED BY <1>1, <2>1, <2>2 DEF HistoryInv, Contents
<1>4. CASE \E k \in Key : scan_page(l, k)
  BY <1>1, <1>4 DEF scan_page, HistoryInv, Contents
<1>5. CASE scan_end(l)
  <2>1. had' = had /\ dropped' = dropped /\ quiet' = quiet /\ unseen' = [unseen EXCEPT ![l] = @ \ Found(l)]
    BY <1>5 DEF scan_end
  <2> QED BY <1>1, <2>1 DEF HistoryInv, Contents
<1>6. CASE scan_error(l)
  <2>1. /\ had' = had /\ dropped' = dropped /\ quiet' = [quiet EXCEPT ![l] = FALSE]
        /\ unseen' = [unseen EXCEPT ![l] = @ \cup (Found(l) \ known_live_keys[l])]
    BY <1>6 DEF scan_error
  <2> QED BY <1>1, <1>2, <2>1 DEF HistoryInv, Contents
<1>7. CASE apply_one(l) \/ apply_failed(l)
  <2>1. pc[l] = "apply" /\ unseen' = unseen
    BY <1>7 DEF apply_one, apply_failed, NextDue
  <2>2. CASE TargetWrite(l, Head(due[l]))
    BY <1>1, <2>1, <2>2, HistoryOfTarget DEF HistoryInv, Contents
  <2>3. CASE ~TargetWrite(l, Head(due[l]))
    <3>1. had' = had /\ quiet' = quiet /\ dropped' = [dropped EXCEPT ![l] = @ \cup {Head(due[l]).event.key}]
      BY <1>7, <2>3 DEF apply_one, apply_failed
    <3>2. Head(due[l]).event.key \in Key
      <4>1. Head(due[l]) \in Delivery
        BY <2>1, HeadTailProperties DEF DdbIndInv, StateInv, LinkInv
      <4> QED BY <4>1 DEF Delivery, Change
    <3> QED BY <1>1, <2>1, <3>1, <3>2 DEF HistoryInv, Contents
  <2> QED BY <2>2, <2>3
<1>8. CASE restart(l)
  <2>1. had' = had /\ dropped' = dropped /\ quiet' = [quiet EXCEPT ![l] = FALSE]
        /\ unseen' = [unseen EXCEPT ![l] = Key]
    BY <1>8 DEF restart
  <2> QED BY <1>1, <2>1 DEF HistoryInv, Contents
<1> QED BY <1>3, <1>4, <1>5, <1>6, <1>7, <1>8

\* A step leaves the link l, its source and its target alone.
Apart(l) ==
  /\ sched'[l] = sched[l] /\ discovered'[l] = discovered[l] /\ sent'[l] = sent[l]
  /\ known_live_keys'[l] = known_live_keys[l] /\ pc'[l] = pc[l] /\ scan'[l] = scan[l]
  /\ applied_at'[l] = applied_at[l] /\ dropped'[l] = dropped[l] /\ unseen'[l] = unseen[l]
  /\ quiet'[l] => quiet[l]
  /\ table'[src(l)] = table[src(l)] /\ table'[dst(l)] = table[dst(l)] /\ had'[src(l)] = had[src(l)]

\* Such a step, or the passing of time, keeps what FeedInv says of the link.
LEMMA FeedKept ==
  ASSUME NEW l, FeedInv(l), Apart(l), setup' = setup,
         now \in Int, now' \in Int, applied_at[l] \in Int, now <= now'
  PROVE  FeedInv(l)'
<1>1. applied_at[l] <= now'
  BY DEF FeedInv
<1> QED BY <1>1 DEF FeedInv, Apart

\* Another link changes neither.
LEMMA OtherLinkApart ==
  ASSUME StateInv, HistoryInv, NEW l \in Links, NEW m \in Links, l # m,
         dst(m) # src(l), dst(m) # dst(l),
         \/ begin_cycle(m) \/ (\E k \in Key : scan_page(m, k)) \/ scan_end(m) \/ scan_error(m)
         \/ apply_one(m) \/ apply_failed(m) \/ restart(m)
  PROVE  Apart(l)
<1>1. /\ table \in [Region -> [Key -> Item]] /\ known_live_keys \in [Links -> SUBSET Key]
      /\ pc \in [Links -> {"idle", "scan", "apply"}] /\ scan \in [Links -> Scan]
      /\ applied_at \in [Links -> 0..setup.max_time]
      /\ sched \in [Links -> Scheduler] /\ due \in [Links -> Seq(Delivery)]
      /\ sent \in [Links -> Seq(Delivery)] /\ discovered \in [Links -> Seq(Delivery)]
  BY DEF StateInv
<1>2. /\ had \in [Region -> [Key -> SUBSET Contents]] /\ quiet \in [Links -> BOOLEAN]
      /\ dropped \in [Links -> SUBSET Key] /\ unseen \in [Links -> SUBSET Key]
  BY DEF HistoryInv
<1>3. src(l) \in Region /\ dst(l) \in Region
  BY DdbLinkAssumption DEF src, dst
<1>4. CASE begin_cycle(m)
  BY <1>1, <1>2, <1>4 DEF begin_cycle, Apart, history
<1>5. ASSUME NEW k \in Key, scan_page(m, k) PROVE Apart(l)
  BY <1>1, <1>2, <1>5 DEF scan_page, Apart
<1>6. ASSUME NEW s, Drain(m, s)
      PROVE  sched'[l] = sched[l] /\ pc'[l] = pc[l] /\ scan'[l] = scan[l] /\ applied_at'[l] = applied_at[l]
  BY <1>1, <1>6 DEF Drain
<1>7. CASE scan_end(m)
  <2>1. PICK s, n : Drain(m, s) /\ discovered' = [discovered EXCEPT ![m] = n]
    BY <1>7 DEF scan_end
  <2>2. /\ known_live_keys' = [known_live_keys EXCEPT ![m] = Found(m)]
        /\ unseen' = [unseen EXCEPT ![m] = @ \ Found(m)] /\ UNCHANGED <<table, had, sent, quiet, dropped>>
    BY <1>7 DEF scan_end
  <2> QED BY <1>1, <1>2, <1>6, <2>1, <2>2 DEF Apart
<1>8. CASE scan_error(m)
  <2>1. Drain(m, sched[m])
    BY <1>8 DEF scan_error
  <2>2. /\ quiet' = [quiet EXCEPT ![m] = FALSE] /\ UNCHANGED <<table, known_live_keys, had, history, dropped>>
        /\ unseen' = [unseen EXCEPT ![m] = @ \cup (Found(m) \ known_live_keys[m])]
    BY <1>8 DEF scan_error
  <2> QED BY <1>1, <1>2, <1>6, <2>1, <2>2 DEF Apart, history
<1>9. CASE apply_one(m) \/ apply_failed(m)
  <2>1. /\ NextDue(m)
        /\ TargetWrite(m, Head(due[m]))
           \/ /\ dropped' = [dropped EXCEPT ![m] = @ \cup {Head(due[m]).event.key}]
              /\ UNCHANGED <<table, had, quiet>>
    BY <1>9 DEF apply_one, apply_failed
  <2>2. /\ sched'[l] = sched[l] /\ discovered'[l] = discovered[l] /\ sent'[l] = sent[l]
        /\ known_live_keys'[l] = known_live_keys[l] /\ pc'[l] = pc[l] /\ scan'[l] = scan[l]
        /\ applied_at'[l] = applied_at[l] /\ unseen'[l] = unseen[l]
    BY <1>1, <2>1 DEF NextDue
  <2>3. CASE TargetWrite(m, Head(due[m]))
    <3>1. PICK k : k = Head(due[m]).event.key
      OBVIOUS
    <3>2. CASE lww_condition(table[dst(m)][k], applied_at[m])
      <4>1. PICK item, c :
              /\ table' = [table EXCEPT ![dst(m)][k] = item]
              /\ had' = [had EXCEPT ![dst(m)][k] = @ \cup {c}]
              /\ quiet' = [n \in Links |-> quiet[n] /\ src(n) # dst(m)]
              /\ dropped' = [dropped EXCEPT ![m] = @ \ {k}]
        BY <2>3, <3>1, <3>2 DEF TargetWrite
      <4>2. /\ table'[src(l)] = table[src(l)] /\ table'[dst(l)] = table[dst(l)] /\ had'[src(l)] = had[src(l)]
            /\ dropped'[l] = dropped[l] /\ (quiet'[l] => quiet[l])
        BY <1>1, <1>2, <1>3, <4>1
      <4> QED BY <2>2, <4>2 DEF Apart
    <3>3. CASE ~lww_condition(table[dst(m)][k], applied_at[m])
      <4>1. /\ dropped' = [dropped EXCEPT ![m] = IF table[dst(m)][k].ts = applied_at[m] THEN @ \cup {k} ELSE @]
            /\ UNCHANGED <<table, had, quiet>>
        BY <2>3, <3>1, <3>3 DEF TargetWrite
      <4> QED BY <1>2, <2>2, <4>1 DEF Apart
    <3> QED BY <3>2, <3>3
  <2>4. CASE /\ dropped' = [dropped EXCEPT ![m] = @ \cup {Head(due[m]).event.key}]
             /\ UNCHANGED <<table, had, quiet>>
    BY <1>2, <2>2, <2>4 DEF Apart
  <2> QED BY <2>1, <2>3, <2>4
<1>10. CASE restart(m)
  BY <1>1, <1>2, <1>10 DEF restart, Apart
<1> QED BY <1>4, <1>5, <1>7, <1>8, <1>9, <1>10

\* The types of what FeedInv speaks of.
LEMMA FeedTypes ==
  ASSUME DdbIndInv, NEW l \in Links
  PROVE  /\ src(l) \in Region /\ dst(l) \in Region /\ Absent \in Contents
         /\ \A r \in Region, x \in Key : table[r][x].content \in Contents /\ table[r][x].ts \in Nat
         /\ \A x \in Key : scan[l].seen[x].content \in Contents
         /\ scan[l].seen \in [Key -> Item]
         /\ known_live_keys[l] \in SUBSET Key /\ setup.keys \in SUBSET Key
         /\ now \in Nat /\ applied_at[l] \in Nat
<1>1. StateInv
  BY DEF DdbIndInv
<1>2. now \in 1..setup.max_time /\ setup.max_time \in Nat /\ setup.keys \subseteq Key
  BY <1>1, SetupParts DEF StateInv
<1>3. \A i \in Item : i.content \in Contents /\ i.ts \in Nat
  BY <1>2 DEF Item, Contents
<1>4. src(l) \in Region /\ dst(l) \in Region
  BY DdbLinkAssumption DEF src, dst
<1>5. scan[l].seen \in [Key -> Item]
  BY <1>1 DEF StateInv, Scan
<1>6. table \in [Region -> [Key -> Item]] /\ known_live_keys[l] \in SUBSET Key
      /\ applied_at[l] \in 0..setup.max_time
  BY <1>1 DEF StateInv
<1>7. applied_at[l] \in Nat /\ now \in Nat
  BY <1>2, <1>6
<1> QED BY <1>2, <1>3, <1>4, <1>5, <1>6, <1>7 DEF Contents

\* A write of the application, to a content the key did not have before.
LEMMA FeedOfWrite ==
  ASSUME DdbIndInv, HistoryInv, setup' = setup, NEW l \in Links, OnlyFeed(setup, l), l \in setup.links,
         setup.fresh, FeedInv(l),
         NEW r \in setup.writers, NEW k \in setup.keys, NEW c \in setup.contents \cup {Absent},
         app_write(r, k, c)
  PROVE  FeedInv(l)'
<1>1. r = src(l) /\ dst(l) # src(l)
  BY DEF OnlyFeed
<1>2. k \in Key /\ c \in Contents
  BY SetupParts DEF DdbIndInv, StateInv, Contents
<1>3. /\ src(l) \in Region /\ dst(l) \in Region
      /\ \A x \in Key : table[src(l)][x].content \in Contents
      /\ known_live_keys[l] \in SUBSET Key /\ setup.keys \in SUBSET Key
  BY FeedTypes
<1>4. PICK T, T2, H, H2 : T = table[src(l)] /\ T2 = table'[src(l)] /\ H = had[src(l)] /\ H2 = had'[src(l)]
  OBVIOUS
<1>5. /\ table' = [table EXCEPT ![r][k] = [content |-> c, ts |-> NoTs]]
      /\ had' = [had EXCEPT ![r][k] = @ \cup {c}] /\ c \notin had[r][k]
      /\ quiet' = [m \in Links |-> quiet[m] /\ src(m) # r]
      /\ UNCHANGED <<now, control, process, failures, history, dropped, unseen>>
  BY DEF app_write
<1>6. table \in [Region -> [Key -> Item]] /\ had \in [Region -> [Key -> SUBSET Contents]]
  BY DEF DdbIndInv, StateInv, HistoryInv
<1>7. /\ T2[k] = [content |-> c, ts |-> NoTs] /\ H2[k] = H[k] \cup {c}
      /\ \A x \in Key \ {k} : T2[x] = T[x] /\ H2[x] = H[x]
      /\ c \notin H[k]
  BY <1>1, <1>2, <1>3, <1>4, <1>5, <1>6
<1>8. table'[dst(l)] = table[dst(l)] /\ quiet'[l] = FALSE
  BY <1>1, <1>3, <1>5, <1>6
<1>9. PICK q, live, keys : q = discovered[l] /\ live = known_live_keys[l] /\ keys = setup.keys
  OBVIOUS
<1>10. SourceInv(T, H, keys) /\ ToldInv(T, H, q) /\ LiveInv(T, H, q, live, keys)
  BY <1>4, <1>9 DEF FeedInv
<1>11. /\ SourceInv(T2, H2, keys) /\ ToldInv(T2, H2, q) /\ LiveInv(T2, H2, q, live, keys)
       /\ \A todo, seen : ScanInv(T, H, q, live, keys, todo, seen)
                          => ScanInv(T2, H2, q, live, keys, todo, seen)
  BY SMTT(30), <1>2, <1>3, <1>4, <1>7, <1>9, <1>10, FreshWrite
<1>12. /\ sched' = sched /\ discovered' = discovered /\ sent' = sent /\ known_live_keys' = known_live_keys
       /\ pc' = pc /\ scan' = scan /\ applied_at' = applied_at /\ dropped' = dropped
       /\ unseen' = unseen /\ now' = now
  BY <1>5 DEF process, history
<1> QED BY <1>4, <1>8, <1>9, <1>11, <1>12 DEF FeedInv

\* set_policy: what is known stays known.
LEMMA PolicyFaithful ==
  ASSUME NEW s \in Scheduler, NEW q, Faithful(s, q), NEW policy
  PROVE  Faithful(set_policy(s, policy), q)
<1>1. PICK t : t = set_policy(s, policy)
  OBVIOUS
<1>2. t.pending = s.pending /\ t.applied = s.applied
  BY <1>1 DEF set_policy, Scheduler
<1>3. \A key : is_known(t, key) <=> is_known(s, key)
  BY <1>2 DEF is_known, PendingKeys
<1> QED BY <1>1, <1>3 DEF Faithful

\* run_one_cycle up to the first page.
LEMMA FeedOfBegin ==
  ASSUME DdbIndInv, HistoryInv, setup' = setup, NEW l \in Links, FeedInv(l), begin_cycle(l)
  PROVE  FeedInv(l)'
<1>1. pc[l] = "idle" /\ scan[l] = NoScan
  BY DEF begin_cycle, FeedInv
<1>2. PICK s : s = set_policy(sched[l], control[l].lag)
  OBVIOUS
<1>3. sched' = [sched EXCEPT ![l] = s] /\ sched \in [Links -> Scheduler]
  BY <1>2 DEF begin_cycle, DdbIndInv, StateInv
<1>4. sched'[l] = s /\ Faithful(s, discovered[l])
  BY <1>2, <1>3, PolicyFaithful DEF FeedInv
<1>5. /\ table' = table /\ now' = now /\ known_live_keys' = known_live_keys /\ applied_at' = applied_at
      /\ had' = had /\ discovered' = discovered /\ sent' = sent /\ dropped' = dropped /\ unseen' = unseen
  BY DEF begin_cycle, history
<1>6. CASE control[l].paused
  <2>1. pc' = pc /\ scan' = scan /\ quiet' = quiet
    BY <1>6 DEF begin_cycle
  <2> QED BY <1>4, <1>5, <2>1 DEF FeedInv
<1>7. CASE ~control[l].paused
  <2>1. PICK sc : sc = [NoScan EXCEPT !.at = now, !.todo = setup.keys]
    OBVIOUS
  <2>2. pc' = [pc EXCEPT ![l] = "scan"] /\ scan' = [scan EXCEPT ![l] = sc]
    BY <1>7, <2>1 DEF begin_cycle
  <2>3. pc'[l] = "scan" /\ scan'[l] = sc
    BY <2>2 DEF DdbIndInv, StateInv
  <2>4. sc.todo = setup.keys /\ sc.seen = NoScan.seen
    BY <2>1 DEF NoScan
  <2>5. PICK T, H, q, live, keys : /\ T = table[src(l)] /\ H = had[src(l)] /\ q = discovered[l]
                                  /\ live = known_live_keys[l] /\ keys = setup.keys
    OBVIOUS
  <2>6. /\ ScanInv(T, H, q, live, keys, sc.todo, sc.seen)
        /\ QuietInv(T, q, live, keys, sc.todo, sc.seen, TRUE)
    BY <2>4, <2>5, ScanBegins
  <2>7. GoneInv(table[dst(l)], q, live, unseen[l], sc.seen)
    BY <1>1, <2>4, <2>5 DEF FeedInv
  <2> QED BY <1>4, <1>5, <2>3, <2>5, <2>6, <2>7 DEF FeedInv
<1> QED BY <1>6, <1>7

\* One page of the Scan.
LEMMA FeedOfPage ==
  ASSUME DdbIndInv, DdbIndInv', HistoryInv, setup' = setup, NEW l \in Links, FeedInv(l),
         NEW k \in Key, scan_page(l, k)
  PROVE  FeedInv(l)'
<1>1. LinkInv(l) /\ LinkInv(l)' /\ scan \in [Links -> Scan] /\ sched \in [Links -> Scheduler]
  BY DEF DdbIndInv, StateInv
<1>2. /\ src(l) \in Region /\ dst(l) \in Region /\ Absent \in Contents
      /\ \A x \in Key : table[src(l)][x].content \in Contents
      /\ \A x \in Key : scan[l].seen[x].content \in Contents
      /\ known_live_keys[l] \in SUBSET Key /\ setup.keys \in SUBSET Key /\ now \in Nat
  BY FeedTypes
<1>3. PICK T, H, U, q, live, keys : /\ T = table[src(l)] /\ H = had[src(l)] /\ U = table[dst(l)]
                                   /\ q = discovered[l] /\ live = known_live_keys[l] /\ keys = setup.keys
  OBVIOUS
<1>4. PICK todo, seen, hidden, at : /\ todo = scan[l].todo /\ seen = scan[l].seen
                                   /\ hidden = unseen[l] /\ at = scan[l].at
  OBVIOUS
<1>5. pc[l] = "scan" /\ k \in todo /\ at \in Nat
  <2>1. pc[l] = "scan" /\ k \in todo
    BY <1>4 DEF scan_page
  <2>2. at \in 1..now
    BY <1>1, <1>4, <2>1 DEF LinkInv
  <2> QED BY <1>2, <2>1, <2>2
<1>6. PICK item, c : item = T[k] /\ c = T[k].content
  OBVIOUS
<1>7. PICK s, given : s = sched[l] /\ given = sent[l] \o due[l]
  OBVIOUS
<1>8. PICK t : t = IF c = Absent THEN s ELSE discover(s, DdbKey(k, item), Event(k, item), at)
  OBVIOUS
<1>9. PICK r : r = given \o t.pending
  OBVIOUS
<1>10. /\ sched' = [sched EXCEPT ![l] = t]
       /\ scan' = [scan EXCEPT ![l].todo = @ \ {k}, ![l].seen[k] = item]
       /\ table' = table /\ now' = now /\ known_live_keys' = known_live_keys /\ pc' = pc /\ due' = due
       /\ applied_at' = applied_at /\ had' = had /\ sent' = sent /\ quiet' = quiet
       /\ dropped' = dropped /\ unseen' = unseen
  BY <1>3, <1>4, <1>6, <1>7, <1>8 DEF scan_page
<1>11. sched'[l] = t
  BY <1>1, <1>10
<1>12. discovered'[l] = r
  BY <1>1, <1>7, <1>9, <1>10, <1>11 DEF LinkInv
<1>13. PICK seen2 : seen2 = scan'[l].seen
  OBVIOUS
<1>14. scan'[l].todo = todo \ {k} /\ seen2[k] = item /\ \A x \in Key \ {k} : seen2[x] = seen[x]
  <2>1. PICK sc : sc = scan[l]
    OBVIOUS
  <2>2. sc \in Scan /\ scan'[l] = [sc EXCEPT !.todo = @ \ {k}, !.seen[k] = item]
    BY <1>1, <1>10, <2>1
  <2> QED BY <1>4, <1>13, <2>1, <2>2 DEF Scan
<1>15. /\ Faithful(s, q) /\ SourceInv(T, H, keys) /\ ToldInv(T, H, q) /\ LiveInv(T, H, q, live, keys)
       /\ ScanInv(T, H, q, live, keys, todo, seen) /\ GoneInv(U, q, live, hidden, seen)
  BY <1>3, <1>4, <1>5, <1>7 DEF FeedInv
<1>16. q = given \o s.pending /\ Accounts(s, given)
  BY <1>1, <1>3, <1>7 DEF LinkInv
<1>17. PICK P : P = PageTells(T, k)
  OBVIOUS
<1>18. Faithful(t, r) /\ Learns(q, r, P)
  <2>1. CASE c = Absent
    <3>1. t = s /\ r = q /\ P = {}
      BY <1>6, <1>8, <1>9, <1>16, <1>17, <2>1 DEF PageTells
    <3>2. Learns(q, r, P)
      BY <3>1, LearnsNothing
    <3> QED BY <1>15, <3>1, <3>2
  <2>2. CASE c # Absent
    <3>1. t = discover(s, DdbKey(k, item), Event(k, item), at) /\ P = {<<k, c>>}
      BY <1>6, <1>8, <1>17, <2>2 DEF PageTells
    <3>2. item = [content |-> c, ts |-> NoTs] /\ c \in Contents
      <4>1. item \in Item
        BY <1>2, <1>3, <1>6 DEF DdbIndInv, StateInv
      <4>2. item.ts = NoTs /\ item.content = c
        BY <1>6, <1>15 DEF SourceInv
      <4> QED BY <1>2, <1>3, <1>6, <4>1, <4>2 DEF Item
    <3>3. Faithful(s, given \o s.pending)
      BY <1>15, <1>16
    <3>4. /\ Faithful(t, given \o t.pending)
          /\ Learns(given \o s.pending, given \o t.pending, {<<k, c>>})
      BY <1>5, <1>16, <3>1, <3>2, <3>3, DiscoverLearns
    <3> QED BY <1>9, <1>16, <3>1, <3>4
  <2> QED BY <2>1, <2>2
<1>19. /\ ToldInv(T, H, r) /\ LiveInv(T, H, r, live, keys)
       /\ ScanInv(T, H, r, live, keys, todo \ {k}, seen2)
       /\ GoneInv(U, r, live, hidden, seen2)
       /\ QuietInv(T, q, live, keys, todo, seen, TRUE)
            => QuietInv(T, r, live, keys, todo \ {k}, seen2, TRUE)
  <2>1. live \in SUBSET Key /\ keys \in SUBSET Key
        /\ (\A x \in Key : T[x].content \in Contents /\ seen[x].content \in Contents)
        /\ seen2[k] = T[k]
    BY <1>2, <1>3, <1>4, <1>6, <1>14
  <2>2. k \in todo /\ (\A x \in Key \ {k} : seen2[x] = seen[x]) /\ Learns(q, r, PageTells(T, k))
    BY <1>5, <1>14, <1>17, <1>18
  <2>3. /\ SourceInv(T, H, keys) /\ ToldInv(T, H, q) /\ LiveInv(T, H, q, live, keys)
        /\ ScanInv(T, H, q, live, keys, todo, seen) /\ GoneInv(U, q, live, hidden, seen)
    BY <1>15
  <2> QED BY <2>1, <2>2, <2>3, PageRead
<1>20. quiet'[l] => QuietInv(T, r, live, keys, todo \ {k}, seen2, TRUE)
  BY <1>3, <1>4, <1>5, <1>10, <1>19 DEF FeedInv
<1>21. TargetInv(U, sent[l], dropped[l], applied_at[l]) /\ applied_at[l] <= now
  BY <1>3 DEF FeedInv
<1>22. /\ pc'[l] = "scan" /\ table'[src(l)] = T /\ had'[src(l)] = H /\ table'[dst(l)] = U
       /\ known_live_keys'[l] = live /\ setup'.keys = keys /\ unseen'[l] = hidden /\ sent'[l] = sent[l]
       /\ dropped'[l] = dropped[l] /\ applied_at'[l] = applied_at[l] /\ now' = now
  BY <1>3, <1>4, <1>5, <1>10
<1> QED BY <1>11, <1>12, <1>13, <1>14, <1>15, <1>18, <1>19, <1>20, <1>21, <1>22 DEF FeedInv

\* apply_due's first half: time passes for the target, nothing else changes there.
LEMMA LaterTarget ==
  ASSUME NEW U, NEW q, NEW lost, NEW at \in Nat, NEW at2 \in Nat, at <= at2,
         \A x \in Key : U[x].ts \in Nat, TargetInv(U, q, lost, at)
  PROVE  TargetInv(U, q, lost, at2)
<1>1. ASSUME NEW x \in Key PROVE U[x].ts <= at2
  <2>1. U[x].ts \in Nat /\ U[x].ts <= at
    BY DEF TargetInv
  <2> QED BY <2>1
<1> QED BY <1>1 DEF TargetInv

\* What Drain leaves of the link.
LEMMA DrainParts ==
  ASSUME DdbIndInv, NEW l \in Links, NEW s \in Scheduler, NEW q, Faithful(s, q), Drain(l, s)
  PROVE  /\ Faithful(sched'[l], q) /\ applied_at'[l] = now /\ scan'[l] = NoScan /\ pc'[l] # "scan"
<1>1. /\ sched \in [Links -> Scheduler] /\ pc \in [Links -> {"idle", "scan", "apply"}]
      /\ scan \in [Links -> Scan] /\ applied_at \in [Links -> 0..setup.max_time]
  BY DEF DdbIndInv, StateInv
<1>2. now \in Nat
  BY FeedTypes
<1>3. PICK e : e = drain_due(s, now)
  OBVIOUS
<1>4. Faithful(e, q)
  BY <1>2, <1>3, DrainFaithful
<1>5. sched'[l] = e
  BY <1>1, <1>3 DEF Drain
<1>6. applied_at'[l] = now /\ scan'[l] = NoScan
  BY <1>1 DEF Drain
<1>7. pc'[l] = "idle" \/ pc'[l] = "apply"
  BY <1>1 DEF Drain
<1> QED BY <1>4, <1>5, <1>6, <1>7

\* Scan fails.
LEMMA FeedOfError ==
  ASSUME DdbIndInv, HistoryInv, setup' = setup, NEW l \in Links, FeedInv(l), scan_error(l)
  PROVE  FeedInv(l)'
<1>1. /\ dst(l) \in Region /\ now \in Nat /\ applied_at[l] \in Nat
      /\ \A x \in Key : table[dst(l)][x].ts \in Nat
  BY FeedTypes
<1>2. PICK U, q, live, seen, hidden : /\ U = table[dst(l)] /\ q = discovered[l]
                                     /\ live = known_live_keys[l]
                                     /\ seen = scan[l].seen /\ hidden = unseen[l]
  OBVIOUS
<1>3. sched[l] \in Scheduler /\ Faithful(sched[l], q) /\ Drain(l, sched[l])
  BY <1>2 DEF scan_error, FeedInv, DdbIndInv, StateInv
<1>4. Faithful(sched'[l], q) /\ applied_at'[l] = now /\ scan'[l] = NoScan /\ pc'[l] # "scan"
  BY <1>3, DrainParts
<1>5. Found(l) = FoundIn(seen)
  BY <1>2 DEF Found, FoundIn
<1>6. /\ table' = table /\ now' = now /\ known_live_keys' = known_live_keys /\ had' = had
      /\ discovered' = discovered /\ sent' = sent /\ dropped' = dropped
      /\ quiet' = [quiet EXCEPT ![l] = FALSE]
      /\ unseen' = [unseen EXCEPT ![l] = @ \cup (Found(l) \ known_live_keys[l])]
  BY DEF scan_error, history
<1>7. quiet'[l] = FALSE /\ unseen'[l] = hidden \cup (FoundIn(seen) \ live)
  BY <1>2, <1>5, <1>6 DEF HistoryInv
<1>8. GoneInv(U, q, live, hidden, seen)
  BY <1>2 DEF FeedInv
<1>9. GoneInv(U, q, live, hidden \cup (FoundIn(seen) \ live), NoScan.seen)
  BY <1>8, ScanCutShort
<1>10. TargetInv(U, sent[l], dropped[l], now)
  BY <1>1, <1>2, LaterTarget DEF FeedInv
<1>11. now <= now
  BY <1>1
<1> QED BY <1>2, <1>4, <1>6, <1>7, <1>9, <1>10, <1>11 DEF FeedInv

\* The scan is complete.
LEMMA FeedOfScan ==
  ASSUME DdbIndInv, HistoryInv, setup' = setup, NEW l \in Links, FeedInv(l), scan_end(l)
  PROVE  FeedInv(l)'
<1>1. LinkInv(l) /\ StateInv
  BY DEF DdbIndInv
<1>2. /\ src(l) \in Region /\ dst(l) \in Region /\ now \in Nat /\ applied_at[l] \in Nat
      /\ \A x \in Key : table[dst(l)][x].ts \in Nat
      /\ \A x \in Key : table[src(l)][x].content \in Contents
      /\ \A x \in Key : scan[l].seen[x].content \in Contents
      /\ known_live_keys[l] \in SUBSET Key /\ setup.keys \in SUBSET Key
      /\ scan[l].seen \in [Key -> Item]
  BY FeedTypes
<1>3. PICK T, H, U, q, live, keys : /\ T = table[src(l)] /\ H = had[src(l)] /\ U = table[dst(l)]
                                   /\ q = discovered[l] /\ live = known_live_keys[l] /\ keys = setup.keys
  OBVIOUS
<1>4. PICK seen, hidden : seen = scan[l].seen /\ hidden = unseen[l]
  OBVIOUS
<1>5. pc[l] = "scan" /\ scan[l].todo = {}
  BY DEF scan_end
<1>6. scan[l].at \in Nat
  <2>1. scan[l].at \in 1..now
    BY <1>1, <1>5 DEF LinkInv
  <2> QED BY <1>2, <2>1
<1>7. Found(l) = FoundIn(seen)
  BY <1>4 DEF Found, FoundIn
<1>8. PICK s, given : s = sched[l] /\ given = sent[l] \o due[l]
  OBVIOUS
<1>9. PICK ks \in Seq(Key) : \E t :
        /\ t = DiscoverDeleted(l, ks)
        /\ {ks[i] : i \in 1..Len(ks)} = known_live_keys[l] \ Found(l)
        /\ Accounts(t, sent[l] \o due[l]) /\ Grew(sched[l], t, scan[l].at)
        /\ discovered' = [discovered EXCEPT ![l] = (sent[l] \o due[l]) \o t.pending]
        /\ (sent[l] \o due[l]) \o t.pending \in Seq(Delivery)
        /\ Drain(l, t)
  BY ScanEndQueue
<1>10. PICK t : /\ t = DiscoverDeleted(l, ks)
                /\ {ks[i] : i \in 1..Len(ks)} = live \ FoundIn(seen)
                /\ Accounts(t, given)
                /\ discovered' = [discovered EXCEPT ![l] = given \o t.pending]
                /\ Drain(l, t)
  BY <1>3, <1>7, <1>8, <1>9
<1>11. PICK r : r = given \o t.pending
  OBVIOUS
<1>12. discovered'[l] = r /\ t \in Scheduler
  BY <1>1, <1>10, <1>11 DEF StateInv, Accounts
<1>13. /\ Faithful(s, q) /\ SourceInv(T, H, keys) /\ ToldInv(T, H, q) /\ LiveInv(T, H, q, live, keys)
       /\ ScanInv(T, H, q, live, keys, {}, seen) /\ GoneInv(U, q, live, hidden, seen)
       /\ TargetInv(U, sent[l], dropped[l], applied_at[l]) /\ applied_at[l] <= now
       /\ quiet[l] => QuietInv(T, q, live, keys, {}, seen, TRUE)
  BY <1>3, <1>4, <1>5, <1>8 DEF FeedInv
<1>14. Accounts(sched[l], given) /\ q = given \o sched[l].pending
  BY <1>1, <1>3, <1>8 DEF LinkInv
<1>15. ASSUME NEW i \in 1..Len(ks) PROVE scan[l].seen[ks[i]] = NoItem
  <2>1. PICK x : x = ks[i]
    OBVIOUS
  <2>2. x \in live \ FoundIn(seen) /\ x \in Key
    BY <1>9, <1>10, <2>1, ElementOfSeq
  <2>3. seen[x].content = Absent /\ seen[x].ts = NoTs
    BY <1>13, <2>2 DEF FoundIn, ScanInv
  <2>4. seen[x] \in [content : Content \cup {Absent}, ts : 0..setup.max_time]
    BY <1>2, <1>4, <2>2 DEF Item
  <2>5. seen[x] = NoItem
    BY <2>3, <2>4 DEF NoItem
  <2> QED BY <1>4, <2>1, <2>5
<1>16. /\ Faithful(t, r)
       /\ Learns(q, r, {<<x, Absent>> : x \in {ks[i] : i \in 1..Len(ks)}})
  <2>1. Faithful(sched[l], given \o sched[l].pending)
    BY <1>8, <1>13, <1>14
  <2>2. /\ Faithful(t, given \o t.pending)
        /\ Learns(given \o sched[l].pending, given \o t.pending,
                  {<<x, Absent>> : x \in {ks[i] : i \in 1..Len(ks)}})
    <3>1. t = DiscoverDeleted(l, ks) /\ ks \in Seq(Key) /\ Accounts(sched[l], given)
      BY <1>9, <1>10, <1>14
    <3>2. \A i \in 1..Len(ks) : scan[l].seen[ks[i]] = NoItem
      BY <1>15
    <3> QED BY <1>6, <2>1, <3>1, <3>2, DeletedLearns
  <2> QED BY <1>11, <1>14, <2>2
<1>17. Learns(q, r, {<<x, Absent>> : x \in live \ FoundIn(seen)})
  BY <1>10, <1>16
<1>18. /\ ToldInv(T, H, r) /\ LiveInv(T, H, r, FoundIn(seen), keys)
       /\ GoneInv(U, r, FoundIn(seen), hidden \ FoundIn(seen), NoScan.seen)
       /\ \A todo, any : QuietInv(T, q, live, keys, {}, seen, TRUE)
                         => QuietInv(T, r, FoundIn(seen), keys, todo, any, FALSE)
  <2>1. live \in SUBSET Key /\ keys \in SUBSET Key
        /\ (\A x \in Key : T[x].content \in Contents /\ seen[x].content \in Contents)
    BY <1>2, <1>3, <1>4
  <2> QED BY <1>13, <1>17, <2>1, ScanComplete
<1>19. Faithful(sched'[l], r) /\ applied_at'[l] = now /\ scan'[l] = NoScan /\ pc'[l] # "scan"
  BY <1>10, <1>12, <1>16, DrainParts
<1>20. /\ table' = table /\ now' = now /\ had' = had /\ sent' = sent /\ dropped' = dropped /\ quiet' = quiet
       /\ known_live_keys' = [known_live_keys EXCEPT ![l] = Found(l)]
       /\ unseen' = [unseen EXCEPT ![l] = @ \ Found(l)]
  BY DEF scan_end
<1>21. known_live_keys'[l] = FoundIn(seen) /\ unseen'[l] = hidden \ FoundIn(seen)
  BY <1>1, <1>4, <1>7, <1>20 DEF StateInv, HistoryInv
<1>22. TargetInv(U, sent[l], dropped[l], now)
  BY <1>2, <1>3, <1>13, LaterTarget
<1>23. now <= now
  BY <1>2
<1>24. quiet'[l] => QuietInv(T, r, FoundIn(seen), keys, NoScan.todo, NoScan.seen, FALSE)
  BY <1>13, <1>18, <1>20
<1>25. (pc'[l] = "scan") = FALSE
  BY <1>19
<1>26. /\ table'[src(l)] = T /\ had'[src(l)] = H /\ table'[dst(l)] = U /\ setup'.keys = keys
       /\ sent'[l] = sent[l] /\ dropped'[l] = dropped[l] /\ now' = now
  BY <1>3, <1>20
<1> QED BY <1>12, <1>13, <1>18, <1>19, <1>21, <1>22, <1>23, <1>24, <1>25, <1>26 DEF FeedInv

\* A change that is being applied was told.
LEMMA HeadIsTold ==
  ASSUME NEW g \in Seq(Delivery), NEW b \in Seq(Delivery), NEW p \in Seq(Delivery), b # <<>>,
         NEW d, d = Head(b)
  PROVE  /\ d \in Delivery /\ d.event.key \in Key /\ d.event.content \in Contents
         /\ Tells((g \o b) \o p, d.event.key, d.event.content)
<1>1. PICK m, n : m = Len(g) /\ n = Len(b)
  OBVIOUS
<1>2. m \in Nat /\ n \in Nat \ {0} /\ d = b[1] /\ d \in Delivery
  BY <1>1, HeadTailProperties
<1>3. PICK a : a = g \o b
  OBVIOUS
<1>4. a \in Seq(Delivery) /\ Len(a) = m + n /\ (\A i \in 1..(m + n) : a[i] = IF i <= m THEN g[i] ELSE b[i - m])
  BY <1>1, <1>3, ConcatProperties
<1>5. PICK i : i = m + 1
  OBVIOUS
<1>6. i \in 1..(m + n) /\ ~(i <= m) /\ i - m = 1
  BY <1>2, <1>5
<1>7. a[i] = d
  BY <1>2, <1>4, <1>6
<1>8. PICK q : q = a \o p
  OBVIOUS
<1>9. Len(q) = (m + n) + Len(p) /\ Len(p) \in Nat
      /\ (\A j \in 1..((m + n) + Len(p)) : q[j] = IF j <= m + n THEN a[j] ELSE p[j - (m + n)])
  BY <1>4, <1>8, ConcatProperties
<1>10. i \in 1..Len(q) /\ i <= m + n /\ i \in 1..((m + n) + Len(p))
  BY <1>2, <1>5, <1>6, <1>9
<1>11. q[i] = d
  BY <1>7, <1>9, <1>10
<1>12. PICK e : e = d.event
  OBVIOUS
<1>13. e \in [key : Key, content : Contents]
  BY <1>2, <1>12 DEF Delivery, Change, Contents
<1>14. e = [key |-> e.key, content |-> e.content]
  BY <1>13
<1>15. Tells(q, e.key, e.content)
  BY <1>10, <1>11, <1>12, <1>14 DEF Tells
<1> QED BY <1>2, <1>3, <1>8, <1>12, <1>13, <1>15

\* What the application of one change does to the target, to the source and to
\* what is remembered of the link: the three outcomes of a request.
LEMMA RequestOutcome ==
  ASSUME DdbIndInv, HistoryInv, NEW l \in Links, dst(l) # src(l), NEW d, NEW k \in Key,
         d = Head(due[l]), k = d.event.key,
         \/ TargetWrite(l, d)
         \/ /\ dropped' = [dropped EXCEPT ![l] = @ \cup {k}]
            /\ UNCHANGED <<table, had, quiet>>
  PROVE  /\ \/ /\ table'[dst(l)][k] = Applied(d, applied_at[l])
               /\ \A x \in Key \ {k} : table'[dst(l)][x] = table[dst(l)][x]
               /\ dropped'[l] = dropped[l] \ {k}
            \/ /\ table'[dst(l)] = table[dst(l)] /\ ~lww_condition(table[dst(l)][k], applied_at[l])
               /\ dropped'[l] = IF table[dst(l)][k].ts = applied_at[l]
                                THEN dropped[l] \cup {k} ELSE dropped[l]
            \/ table'[dst(l)] = table[dst(l)] /\ dropped'[l] = dropped[l] \cup {k}
         /\ \A x \in Key \ {k} : table'[dst(l)][x] = table[dst(l)][x]
         /\ table'[src(l)] = table[src(l)] /\ had'[src(l)] = had[src(l)] /\ (quiet'[l] => quiet[l])
<1>1. src(l) \in Region /\ dst(l) \in Region
  BY FeedTypes
<1>2. /\ table \in [Region -> [Key -> Item]] /\ had \in [Region -> [Key -> SUBSET Contents]]
      /\ dropped \in [Links -> SUBSET Key] /\ quiet \in [Links -> BOOLEAN]
  BY DEF DdbIndInv, StateInv, HistoryInv
<1>3. PICK item, at : item = Applied(d, at) /\ at = applied_at[l]
  OBVIOUS
<1>4. CASE TargetWrite(l, d) /\ lww_condition(table[dst(l)][k], at)
  <2>1. PICK c : /\ table' = [table EXCEPT ![dst(l)][k] = item]
                 /\ had' = [had EXCEPT ![dst(l)][k] = @ \cup {c}]
                 /\ quiet' = [m \in Links |-> quiet[m] /\ src(m) # dst(l)]
                 /\ dropped' = [dropped EXCEPT ![l] = @ \ {k}]
    BY <1>3, <1>4 DEF TargetWrite
  <2>2. table'[dst(l)][k] = item /\ \A x \in Key \ {k} : table'[dst(l)][x] = table[dst(l)][x]
    BY <1>1, <1>2, <2>1
  <2>3. table'[src(l)] = table[src(l)] /\ had'[src(l)] = had[src(l)]
    BY <1>1, <1>2, <2>1
  <2>4. dropped'[l] = dropped[l] \ {k} /\ (quiet'[l] => quiet[l])
    BY <1>2, <2>1
  <2> QED BY <1>3, <2>2, <2>3, <2>4
<1>5. CASE TargetWrite(l, d) /\ ~lww_condition(table[dst(l)][k], at)
  <2>1. /\ dropped' = [dropped EXCEPT ![l] = IF table[dst(l)][k].ts = at THEN @ \cup {k} ELSE @]
        /\ UNCHANGED <<table, had, quiet>>
    BY <1>3, <1>5 DEF TargetWrite
  <2> QED BY <1>2, <1>3, <1>5, <2>1
<1>6. CASE /\ dropped' = [dropped EXCEPT ![l] = @ \cup {k}]
           /\ UNCHANGED <<table, had, quiet>>
  BY <1>2, <1>6
<1> QED BY <1>3, <1>4, <1>5, <1>6

\* apply_one, answered or not.
LEMMA FeedOfApply ==
  ASSUME DdbIndInv, HistoryInv, setup' = setup, NEW l \in Links, dst(l) # src(l), FeedInv(l),
         apply_one(l) \/ apply_failed(l)
  PROVE  FeedInv(l)'
<1>1. LinkInv(l) /\ StateInv
  BY DEF DdbIndInv
<1>2. /\ dst(l) \in Region /\ applied_at[l] \in Nat
      /\ \A x \in Key : table[dst(l)][x].ts \in Nat
  BY FeedTypes
<1>3. PICK d : d = Head(due[l])
  OBVIOUS
<1>4. PICK k : k = d.event.key
  OBVIOUS
<1>5. pc[l] = "apply" /\ NextDue(l)
  BY DEF apply_one, apply_failed
<1>6. /\ due[l] # <<>> /\ due[l] \in Seq(Delivery) /\ sent[l] \in Seq(Delivery)
      /\ sched[l].pending \in Seq(Delivery) /\ discovered[l] = (sent[l] \o due[l]) \o sched[l].pending
  BY <1>1, <1>5 DEF LinkInv, StateInv, Scheduler
<1>7. /\ d \in Delivery /\ k \in Key /\ d.event.content \in Contents
      /\ Tells(discovered[l], k, d.event.content)
  BY <1>3, <1>4, <1>6, HeadIsTold
<1>8. PICK U, U2, at, lost, lost2 : /\ U = table[dst(l)] /\ U2 = table'[dst(l)] /\ at = applied_at[l]
                                   /\ lost = dropped[l] /\ lost2 = dropped'[l]
  OBVIOUS
<1>9. \/ TargetWrite(l, d)
      \/ /\ dropped' = [dropped EXCEPT ![l] = @ \cup {k}]
         /\ UNCHANGED <<table, had, quiet>>
  BY <1>3, <1>4 DEF apply_one, apply_failed
<1>10. /\ \/ /\ U2[k] = Applied(d, at) /\ \A x \in Key \ {k} : U2[x] = U[x]
             /\ lost2 = lost \ {k}
          \/ /\ U2 = U /\ ~lww_condition(U[k], at)
             /\ lost2 = IF U[k].ts = at THEN lost \cup {k} ELSE lost
          \/ U2 = U /\ lost2 = lost \cup {k}
       /\ \A x \in Key \ {k} : U2[x] = U[x]
       /\ table'[src(l)] = table[src(l)] /\ had'[src(l)] = had[src(l)] /\ (quiet'[l] => quiet[l])
  BY <1>3, <1>4, <1>7, <1>8, <1>9, RequestOutcome
<1>11. TargetInv(U, sent[l], lost, at)
  BY <1>8 DEF FeedInv
<1>12. TargetInv(U2, Append(sent[l], d), lost2, at)
  <2>1. PICK g : g = sent[l]
    OBVIOUS
  <2>2. /\ g \in Seq(Delivery) /\ d \in Delivery /\ at \in Nat /\ k \in Key /\ d.event.key = k
        /\ \A x \in Key : U[x].ts \in Nat
    BY <1>2, <1>4, <1>6, <1>7, <1>8, <2>1
  <2>3. TargetInv(U, g, lost, at)
    BY <1>11, <2>1
  <2>4. \/ /\ U2[k] = Applied(d, at) /\ \A x \in Key \ {k} : U2[x] = U[x]
           /\ lost2 = lost \ {k}
        \/ /\ U2 = U /\ ~lww_condition(U[k], at)
           /\ lost2 = IF U[k].ts = at THEN lost \cup {k} ELSE lost
        \/ U2 = U /\ lost2 = lost \cup {k}
    BY <1>10
  <2>5. TargetInv(U2, Append(g, d), lost2, at)
    BY <2>2, <2>3, <2>4, OneSent
  <2> QED BY <2>1, <2>5
<1>13. /\ now' = now /\ sched' = sched /\ known_live_keys' = known_live_keys /\ scan' = scan
       /\ applied_at' = applied_at /\ discovered' = discovered /\ unseen' = unseen
       /\ sent' = [sent EXCEPT ![l] = Append(@, d)]
       /\ pc' = [pc EXCEPT ![l] = "idle"] \/ pc' = pc
  BY <1>3, <1>5 DEF NextDue
<1>14. sent'[l] = Append(sent[l], d) /\ pc'[l] # "scan"
  BY <1>1, <1>5, <1>13 DEF StateInv
<1>15. GoneInv(U2, discovered[l], known_live_keys[l], unseen[l], scan[l].seen)
  <2>1. GoneInv(U, discovered[l], known_live_keys[l], unseen[l], scan[l].seen)
    BY <1>8 DEF FeedInv
  <2>2. ~Silent(discovered[l], k)
    BY <1>7 DEF Silent
  <2>3. \A x \in Key : Silent(discovered[l], x) => U2[x] = U[x]
    BY <1>10, <2>2
  <2> QED BY <2>1, <2>3 DEF GoneInv
<1>16. scan[l] = NoScan /\ (pc'[l] = "scan") = FALSE /\ (pc[l] = "scan") = FALSE
  BY <1>5, <1>14 DEF FeedInv
<1>17. PICK T, H : T = table[src(l)] /\ H = had[src(l)]
  OBVIOUS
<1>18. /\ Faithful(sched[l], discovered[l])
       /\ SourceInv(T, H, setup.keys) /\ ToldInv(T, H, discovered[l])
       /\ LiveInv(T, H, discovered[l], known_live_keys[l], setup.keys) /\ at <= now
       /\ quiet'[l] => QuietInv(T, discovered[l], known_live_keys[l], setup.keys,
                                scan[l].todo, scan[l].seen, FALSE)
  BY <1>8, <1>10, <1>16, <1>17 DEF FeedInv
<1>19. table'[src(l)] = T /\ had'[src(l)] = H
  BY <1>10, <1>17
<1> QED BY <1>8, <1>12, <1>13, <1>14, <1>15, <1>16, <1>18, <1>19 DEF FeedInv

\* A poller that just started knows nothing, and was told nothing.
LEMMA NothingTold ==
  ASSUME NEW policy \in Nat \cup {Stalled}, NEW k, NEW c
  PROVE  Faithful(new(policy), <<>>) /\ ~Tells(<<>>, k, c) /\ ~SaysLast(<<>>, k, c) /\ Silent(<<>>, k)
<1>1. Len(<<>>) = 0 /\ \A i \in 1..Len(<<>>) : FALSE
  OBVIOUS
<1>2. new(policy).pending = <<>> /\ new(policy).applied = {}
  BY DEF new
<1>3. \A key : ~is_known(new(policy), key)
  BY <1>1, <1>2 DEF is_known, PendingKeys
<1>4. Faithful(new(policy), <<>>)
  BY <1>1, <1>3 DEF Faithful
<1> QED BY <1>1, <1>4 DEF Tells, SaysLast, Silent

\* The process dies: what it told is forgotten with what it knew.
LEMMA FeedOfRestart ==
  ASSUME DdbIndInv, HistoryInv, setup' = setup, NEW l \in Links, FeedInv(l), restart(l)
  PROVE  FeedInv(l)'
<1>1. StateInv
  BY DEF DdbIndInv
<1>2. setup.initial_lag \in Nat \cup {Stalled}
  BY <1>1, SetupParts DEF StateInv
<1>3. /\ sched'[l] = new(setup.initial_lag) /\ known_live_keys'[l] = {} /\ pc'[l] = "idle"
      /\ scan'[l] = NoScan /\ discovered'[l] = <<>> /\ sent'[l] = <<>> /\ unseen'[l] = Key
      /\ quiet'[l] = FALSE
  BY <1>1 DEF StateInv, HistoryInv, restart
<1>4. table' = table /\ now' = now /\ applied_at' = applied_at /\ had' = had /\ dropped' = dropped
  BY DEF restart
<1>5. PICK T, H, U : T = table[src(l)] /\ H = had[src(l)] /\ U = table[dst(l)]
  OBVIOUS
<1>6. \A x \in Key, c \in Contents : ~Tells(<<>>, x, c) /\ ~SaysLast(<<>>, x, c)
  BY <1>2, NothingTold
<1>7. Faithful(new(setup.initial_lag), <<>>)
  BY <1>2, NothingTold
<1>8. /\ ToldInv(T, H, <<>>) /\ LiveInv(T, H, <<>>, {}, setup.keys) /\ GoneInv(U, <<>>, {}, Key, NoScan.seen)
  BY <1>6 DEF ToldInv, LiveInv, GoneInv
<1>9. TargetInv(U, <<>>, dropped[l], applied_at[l])
  BY <1>5, <1>6 DEF FeedInv, TargetInv
<1>10. SourceInv(T, H, setup.keys) /\ applied_at[l] <= now
  BY <1>5 DEF FeedInv
<1> QED BY <1>3, <1>4, <1>5, <1>7, <1>8, <1>9, <1>10 DEF FeedInv

\* A fresh deployment: empty tables and pollers that were told nothing.
LEMMA FeedsInit == Init => FeedsInv
<1> SUFFICES ASSUME Init PROVE FeedsInv
  OBVIOUS
<1>1. setup \in Setups
  BY DEF Init
<1>2. setup.initial_lag \in Nat \cup {Stalled} /\ setup.links \subseteq Links
  BY <1>1, SetupParts
<1>3. HistoryInv
  BY DEF Init, HistoryInv
<1>4. ASSUME NEW l \in Links PROVE FeedInv(l)
  <2>1. src(l) \in Region /\ dst(l) \in Region
    BY DdbLinkAssumption DEF src, dst
  <2>2. PICK T, H, U : T = table[src(l)] /\ H = had[src(l)] /\ U = table[dst(l)]
    OBVIOUS
  <2>3. \A k \in Key : /\ T[k].content = Absent /\ T[k].ts = NoTs /\ H[k] = {}
                       /\ U[k].content = Absent /\ U[k].ts = 0
    BY <2>1, <2>2 DEF Init, NoItem, NoTs
  <2>4. /\ sched[l] = new(setup.initial_lag) /\ known_live_keys[l] = {} /\ pc[l] = "idle"
        /\ scan[l] = NoScan /\ discovered[l] = <<>> /\ sent[l] = <<>> /\ unseen[l] = {}
        /\ quiet[l] = FALSE /\ dropped[l] = {} /\ applied_at[l] = 0 /\ now = 1
    BY DEF Init
  <2>5. \A x \in Key, c \in Contents : ~Tells(<<>>, x, c) /\ ~SaysLast(<<>>, x, c)
    BY <1>2, NothingTold
  <2>6. Faithful(new(setup.initial_lag), <<>>) /\ \A x \in Key : Silent(<<>>, x)
    BY <1>2, NothingTold
  <2>7. /\ SourceInv(T, H, setup.keys) /\ ToldInv(T, H, <<>>) /\ LiveInv(T, H, <<>>, {}, setup.keys)
        /\ GoneInv(U, <<>>, {}, {}, NoScan.seen)
    BY <2>3, <2>5, <2>6 DEF SourceInv, ToldInv, LiveInv, GoneInv
  <2>8. TargetInv(U, <<>>, {}, 0) /\ 0 <= 1
    BY <2>3, <2>5 DEF TargetInv
  <2> QED BY <2>2, <2>4, <2>6, <2>7, <2>8 DEF FeedInv
<1> QED BY <1>2, <1>3, <1>4 DEF FeedsInv

\* In every deployment considered where a link is the only feed of its target,
\* no key returns to a content it had before: what the fingerprint, which knows
\* a content by its value, cannot tell apart (ddb.rs, fingerprint_of).
NoReturns == \A s \in Setups : \A l \in s.links : OnlyFeed(s, l) => s.fresh

\* The steps of a link that is the only feed of its target.
LEMMA FeedOfOwn ==
  ASSUME DdbIndInv, DdbIndInv', HistoryInv, setup' = setup, NEW l \in Links, dst(l) # src(l), FeedInv(l),
         \/ begin_cycle(l) \/ (\E k \in Key : scan_page(l, k)) \/ scan_end(l) \/ scan_error(l)
         \/ apply_one(l) \/ apply_failed(l) \/ restart(l)
  PROVE  FeedInv(l)'
<1>1. CASE begin_cycle(l)
  BY <1>1, FeedOfBegin
<1>2. CASE \E k \in Key : scan_page(l, k)
  BY <1>2, FeedOfPage
<1>3. CASE scan_end(l)
  BY <1>3, FeedOfScan
<1>4. CASE scan_error(l)
  BY <1>4, FeedOfError
<1>5. CASE apply_one(l) \/ apply_failed(l)
  BY <1>5, FeedOfApply
<1>6. CASE restart(l)
  BY <1>6, FeedOfRestart
<1> QED BY <1>1, <1>2, <1>3, <1>4, <1>5, <1>6

\* A step that concerns neither the tables nor the pollers.
LEMMA FeedsOfRest ==
  ASSUME DdbIndInv, DdbIndInv', FeedsInv, setup' = setup, now <= now', table' = table,
         UNCHANGED <<process, had, history, quiet, dropped, unseen>>
  PROVE  FeedsInv'
<1>1. HistoryInv'
  BY DEF FeedsInv, HistoryInv, Contents
<1>2. ASSUME NEW l \in setup.links, OnlyFeed(setup, l) PROVE FeedInv(l)'
  <2>1. l \in Links
    BY <1>2, SetupParts DEF DdbIndInv, StateInv
  <2>2. now \in Nat /\ applied_at[l] \in Nat
    BY <2>1, FeedTypes
  <2>3. now' \in Nat
    <3>1. (now \in 1..setup.max_time)' /\ setup.max_time \in Nat
      BY SetupParts DEF DdbIndInv, StateInv
    <3> QED BY <3>1
  <2>4. Apart(l)
    BY DEF Apart, process, history
  <2>5. FeedInv(l)
    BY <1>2 DEF FeedsInv
  <2> QED BY <2>2, <2>3, <2>4, <2>5, FeedKept
<1> QED BY <1>1, <1>2 DEF FeedsInv

\* Every step keeps what is known of the links that are an only feed.
LEMMA FeedsStep ==
  ASSUME NoReturns, DdbIndInv, FeedsInv, [Next /\ UNCHANGED setup]_vars
  PROVE  FeedsInv'
<1>1. DdbIndInv' /\ HistoryInv /\ setup' = setup /\ StateInv
  BY DdbStep DEF FeedsInv, vars, DdbIndInv
<1>2. setup.links \subseteq Links /\ setup \in Setups /\ now \in Nat
  <2>1. now \in 1..setup.max_time /\ setup.max_time \in Nat
    BY <1>1, SetupParts DEF StateInv
  <2> QED BY <1>1, <2>1, SetupParts DEF StateInv
<1>3. CASE UNCHANGED vars
  <2>1. now <= now' /\ table' = table /\ UNCHANGED <<process, had, history, quiet, dropped, unseen>>
    BY <1>2, <1>3 DEF vars
  <2> QED BY <1>1, <2>1, FeedsOfRest
<1>4. CASE Tick
  <2>1. now <= now' /\ table' = table /\ UNCHANGED <<process, had, history, quiet, dropped, unseen>>
    BY <1>2, <1>4 DEF Tick
  <2> QED BY <1>1, <2>1, FeedsOfRest
<1>5. ASSUME NEW m \in setup.links,
             \/ \E policy \in setup.policies : post_lag(m, policy)
             \/ \E paused \in BOOLEAN : post_pause(m, paused)
      PROVE  FeedsInv'
  <2>1. now <= now' /\ table' = table /\ UNCHANGED <<process, had, history, quiet, dropped, unseen>>
    BY <1>2, <1>5 DEF post_lag, post_pause
  <2> QED BY <1>1, <2>1, FeedsOfRest
<1>6. ASSUME NEW r \in setup.writers, NEW k \in setup.keys, NEW c \in setup.contents \cup {Absent},
             app_write(r, k, c)
      PROVE  FeedsInv'
  <2>1. HistoryInv'
    BY <1>1, <1>6, HistoryOfWrite
  <2>2. ASSUME NEW l \in setup.links, OnlyFeed(setup, l) PROVE FeedInv(l)'
    <3>1. setup.fresh /\ l \in Links /\ FeedInv(l)
      BY <1>2, <2>2 DEF NoReturns, FeedsInv
    <3> QED BY <1>1, <1>6, <2>2, <3>1, FeedOfWrite
  <2> QED BY <1>1, <2>1, <2>2 DEF FeedsInv
<1>7. ASSUME NEW m \in setup.links,
             \/ begin_cycle(m) \/ (\E k \in Key : scan_page(m, k)) \/ scan_end(m) \/ scan_error(m)
             \/ apply_one(m) \/ apply_failed(m) \/ restart(m)
      PROVE  FeedsInv'
  <2>1. m \in Links
    BY <1>2
  <2>2. HistoryInv'
    BY <1>1, <1>7, <2>1, HistoryOfLink
  <2>3. now' = now
    BY <1>7 DEF begin_cycle, scan_page, scan_end, scan_error, apply_one, apply_failed, NextDue, restart
  <2>4. ASSUME NEW l \in setup.links, OnlyFeed(setup, l) PROVE FeedInv(l)'
    <3>1. l \in Links /\ FeedInv(l) /\ dst(l) # src(l) /\ dst(m) # src(l)
      BY <1>2, <2>4 DEF FeedsInv, OnlyFeed
    <3>2. CASE l = m
      BY <1>1, <1>7, <3>1, <3>2, FeedOfOwn
    <3>3. CASE l # m
      <4>1. dst(m) # dst(l)
        BY <2>4, <3>3 DEF OnlyFeed
      <4>2. Apart(l)
        BY <1>1, <1>7, <2>1, <3>1, <3>3, <4>1, OtherLinkApart
      <4>3. applied_at[l] \in Nat
        BY <3>1, FeedTypes
      <4>4. now <= now' /\ now' \in Nat
        BY <1>2, <2>3
      <4> QED BY <1>1, <1>2, <3>1, <4>2, <4>3, <4>4, FeedKept
    <3> QED BY <3>2, <3>3
  <2> QED BY <1>1, <2>2, <2>4 DEF FeedsInv
<1> QED BY <1>3, <1>4, <1>5, <1>6, <1>7 DEF Next

\* The only feed of a target, in a quiet moment: what the target was told last is
\* what the source has.
LEMMA QuietCaughtUp ==
  ASSUME DdbIndInv, FeedsInv PROVE CatchesUp
<1> SUFFICES ASSUME NEW l \in setup.links, OnlyFeed(setup, l), quiet[l], pc[l] = "idle",
                    sched[l].pending = <<>>, NEW k \in Key
             PROVE  \/ table[dst(l)][k].content = table[src(l)][k].content
                    \/ k \in dropped[l]
                    \/ k \in unseen[l] /\ table[src(l)][k].content = Absent
  BY DEF CatchesUp
<1>1. l \in Links
  BY SetupParts DEF DdbIndInv, StateInv
<1>2. FeedInv(l) /\ LinkInv(l)
  BY <1>1 DEF FeedsInv, DdbIndInv
<1>3. PICK T, H, U, q, live : /\ T = table[src(l)] /\ H = had[src(l)] /\ U = table[dst(l)]
                              /\ q = discovered[l] /\ live = known_live_keys[l]
  OBVIOUS
<1>4. q = sent[l]
  <2>1. due[l] = <<>> /\ sent[l] \in Seq(Delivery) /\ q = (sent[l] \o due[l]) \o sched[l].pending
    BY <1>1, <1>2, <1>3 DEF LinkInv, DdbIndInv, StateInv
  <2>2. sent[l] \o <<>> = sent[l]
    BY <2>1, ConcatEmptySeq
  <2> QED BY <2>1, <2>2
<1>5. /\ ToldInv(T, H, q) /\ TargetInv(U, q, dropped[l], applied_at[l])
      /\ GoneInv(U, q, live, unseen[l], scan[l].seen) /\ scan[l] = NoScan
      /\ QuietInv(T, q, live, setup.keys, scan[l].todo, scan[l].seen, FALSE)
  BY <1>2, <1>3, <1>4 DEF FeedInv
<1>6. T[k].content \in Contents /\ Absent \in Contents
  BY <1>1, <1>3, FeedTypes
<1>7. (k \in live <=> T[k].content # Absent) /\ (k \in live => Tells(q, k, T[k].content))
  BY <1>5 DEF QuietInv
<1>8. CASE T[k].content # Absent
  <2>1. SaysLast(q, k, T[k].content)
    BY <1>5, <1>6, <1>7, <1>8 DEF ToldInv
  <2> QED BY <1>3, <1>5, <1>6, <2>1 DEF TargetInv
<1>9. CASE T[k].content = Absent /\ k \notin unseen[l]
  <2>1. NoScan.seen[k].content = Absent
    BY ScanBegins
  <2>2. Silent(q, k) \/ SaysLast(q, k, Absent)
    BY <1>5, <1>7, <1>9, <2>1 DEF GoneInv
  <2>3. CASE Silent(q, k)
    BY <1>3, <1>5, <1>9, <2>3 DEF GoneInv
  <2>4. CASE SaysLast(q, k, Absent)
    BY <1>3, <1>5, <1>6, <1>9, <2>4 DEF TargetInv
  <2> QED BY <2>2, <2>3, <2>4
<1> QED BY <1>3, <1>8, <1>9

\* The link catches up, for any regions, links, keys, contents, lags, pauses,
\* failures and restarts: where it is the only feed of its target and contents
\* do not return, a whole cycle after the last write and with nothing pending
\* the target has the source's contents, but for the three exceptions CatchesUp
\* names (control.rs, "the next discovery pass naturally catches up").
THEOREM LinkCatchesUp == ASSUME NoReturns PROVE Spec => []CatchesUp
<1>1. Init => FeedsInv
  BY FeedsInit
<1>2. DdbIndInv /\ FeedsInv /\ [Next /\ UNCHANGED setup]_vars => FeedsInv'
  BY FeedsStep
<1>3. DdbIndInv /\ FeedsInv => CatchesUp
  BY QuietCaughtUp
<1> QED BY <1>1, <1>2, <1>3, DdbInvariant, PTL DEF Spec
=============================================================================
