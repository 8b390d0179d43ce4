----------------------------- MODULE S3Proofs -----------------------------
(***************************************************************************)
(* Proofs about S3Link, for any keys, lag policies and bounds: S3IndInv is *)
(* about what is listed, queued and put; LocksInv, which rests on it, is   *)
(* about the locks.                                                        *)
(***************************************************************************)
EXTENDS S3Link, TLAPS, SequenceTheorems, WellFoundedInduction

\* What the queue holds: Pending<K, E> of lag.rs.
Change == [key : Key, id : 1..MaxWrites, marker : BOOLEAN]
Delivery == [key : Key \X (1..MaxWrites), event : Change, at : 0..MaxTime]
Scheduler == [policy : Nat \cup {Stalled}, pending : Seq(Delivery), applied : SUBSET (Key \X (1..MaxWrites))]

\* The dedup key belongs to the change, and the change is version v of key k.
IsOf(d, k, v) == d.key = S3Key(k, v) /\ d.event = Event(k, v)

---------------------------------------------------------------------------
(* Induction over the natural numbers, for sets. *)

\* The order on Nat is well founded (the loop over a page of the listing, and
\* the longest due prefix of a queue, rest on it).
LEMMA NatWellFounded ==
  IsWellFoundedOn({ss \in Nat \X Nat : ss[1] < ss[2]}, Nat)
  BY NatLessThanWellFounded DEF OpToRel

\* A set of natural numbers has a least member: where drain_due's prefix ends.
LEMMA LeastNat ==
  ASSUME NEW S \in SUBSET Nat, S # {}
  PROVE  \E x \in S : \A y \in S : x <= y
<1>1. PICK x \in S : \A y \in S : ~ (<<y, x>> \in {ss \in Nat \X Nat : ss[1] < ss[2]})
  BY NatWellFounded, WFMin
<1>2. ASSUME NEW y \in S PROVE x <= y
  <2>1. ~ (<<y, x>> \in {ss \in Nat \X Nat : ss[1] < ss[2]})
    BY <1>1
  <2>2. <<y, x>> \in Nat \X Nat /\ <<y, x>>[1] = y /\ <<y, x>>[2] = x
    OBVIOUS
  <2> QED BY <2>1, <2>2
<1> QED BY <1>2

\* Induction with the hypothesis as a set: the loop over a page in
\* scan_and_discover.
LEMMA SetInduction ==
  ASSUME NEW S, 0 \in S, \A n \in Nat : n \in S => n + 1 \in S
  PROVE  Nat \subseteq S
<1> SUFFICES ASSUME NEW m \in Nat, m \notin S PROVE FALSE
  OBVIOUS
<1>1. PICK x \in Nat \ S : \A y \in Nat \ S : x <= y
  BY LeastNat
<1>2. x # 0 /\ x - 1 \in Nat /\ (x - 1) + 1 = x
  OBVIOUS
<1>3. x - 1 \in S
  BY <1>1, <1>2
<1> QED BY <1>2, <1>3

---------------------------------------------------------------------------
(* The LagScheduler. *)

\* drain_due's prefix exists: it is part of the queue, everything in it is due,
\* and it is empty when the link is stalled.
LEMMA DuePrefix ==
  ASSUME NEW s \in Scheduler, NEW t \in Nat
  PROVE  /\ DueLen(s, t) \in 0..Len(s.pending)
         /\ \A i \in 1..DueLen(s, t) : is_due(s, i, t)
         /\ s.policy = Stalled => DueLen(s, t) = 0
<1> DEFINE L == Len(s.pending)
<1>1. L \in Nat
  BY DEF Scheduler
<1>2. CASE s.policy = Stalled
  BY <1>1, <1>2 DEF DueLen
<1>3. CASE s.policy # Stalled
  <2> DEFINE S == {n \in 0..L : n < L => ~is_due(s, n + 1, t)}
  <2>1. S \in SUBSET Nat /\ L \in S
    BY <1>1
  <2>2. PICK n \in S : \A m \in S : n <= m
    BY <2>1, LeastNat
  <2>3. ASSUME NEW i \in 1..n PROVE is_due(s, i, t)
    <3>1. n \in 0..L
      OBVIOUS
    <3>2. i - 1 \in 0..L /\ i - 1 < n /\ (i - 1) + 1 = i
      BY <1>1, <3>1
    <3>3. ~ (n <= i - 1)
      BY <1>1, <3>1, <3>2
    <3>4. i - 1 \notin S
      BY <2>2, <3>3
    <3> QED BY <3>2, <3>4
  <2>4. \E m \in 0..L : /\ \A i \in 1..m : is_due(s, i, t)
                        /\ m < L => ~is_due(s, m + 1, t)
    BY <2>2, <2>3
  <2> QED BY <1>3, <2>4 DEF DueLen
<1> QED BY <1>2, <1>3

---------------------------------------------------------------------------
(* The pages of a listing. *)

\* A loop over the versions of a page that keeps delete markers, or the others.
KeptLoop(s, marker, f) ==
  /\ f = [n \in 0..Len(s) |->
            IF n = 0 THEN <<>>
            ELSE IF s[n].marker = marker THEN Append(f[n - 1], s[n]) ELSE f[n - 1]]
  /\ Those(s, marker) = f[Len(s)]

\* The recursion of Those has a solution.
LEMMA KeptLoopExists ==
  ASSUME NEW s, Len(s) \in Nat, NEW marker
  PROVE  \E f : KeptLoop(s, marker, f)
<1> DEFINE N == Len(s)
           step(x, i) == IF s[i].marker = marker THEN Append(x, s[i]) ELSE x
           rec(f, m) == [i \in 0..m |-> IF i = 0 THEN <<>> ELSE step(f[i - 1], i)]
           S == {m \in Nat : \E f : f = rec(f, m)}
<1> HIDE DEF step
<1>1. 0 \in S
  <2>1. PICK f : f = [i \in 0..0 |-> <<>>]
    OBVIOUS
  <2>2. f = rec(f, 0)
    BY <2>1
  <2> QED BY <2>2
<1>2. ASSUME NEW m \in Nat, m \in S PROVE m + 1 \in S
  <2>1. PICK f : f = rec(f, m)
    BY <1>2
  <2>2. PICK g : g = [i \in 0..(m + 1) |-> IF i <= m THEN f[i] ELSE step(f[m], m + 1)]
    OBVIOUS
  <2>3. (\A i \in 0..m : g[i] = f[i]) /\ g[m + 1] = step(f[m], m + 1)
    BY <2>2
  <2>4. \A i \in 0..m : f[i] = IF i = 0 THEN <<>> ELSE step(f[i - 1], i)
    BY <2>1
  <2>5. ASSUME NEW i \in 0..(m + 1) PROVE g[i] = IF i = 0 THEN <<>> ELSE step(g[i - 1], i)
    <3>1. CASE i = 0
      <4>1. 0 \in 0..m
        OBVIOUS
      <4>2. g[0] = f[0] /\ f[0] = <<>>
        BY <2>3, <2>4, <4>1
      <4> QED BY <3>1, <4>2
    <3>2. CASE i \in 1..m
      <4>1. i \in 0..m /\ i - 1 \in 0..m /\ i # 0
        BY <3>2
      <4> QED BY <2>3, <2>4, <4>1
    <3>3. CASE i = m + 1
      <4>1. i # 0 /\ i - 1 = m /\ m \in 0..m
        BY <3>3
      <4> QED BY <2>3, <3>3, <4>1
    <3> QED BY <3>1, <3>2, <3>3
  <2>6. g = rec(g, m + 1)
    BY <2>2, <2>5
  <2> QED BY <2>6
<1>3. \E f : f = rec(f, N)
  BY <1>1, <1>2, SetInduction
<1>4. PICK f : f = (CHOOSE f_1 : f_1 = rec(f_1, N))
  OBVIOUS
<1>5. f = rec(f, N)
  BY <1>3, <1>4
<1>6. Those(s, marker) = f[N]
  BY <1>4 DEF Those, step
<1>7. KeptLoop(s, marker, f)
  BY <1>5, <1>6 DEF KeptLoop, step
<1> QED BY <1>7

\* The sequence t has exactly the versions of s up to n of one kind.
Selects(t, s, marker, n) ==
  /\ t \in Seq(Version)
  /\ \A i \in 1..Len(t) : \E j \in 1..n : t[i] = s[j]
  /\ \A j \in 1..n : s[j].marker = marker => \E i \in 1..Len(t) : t[i] = s[j]

\* Those has what it is to have, and nothing else.
LEMMA ThoseSelects ==
  ASSUME NEW s \in Seq(Version), NEW marker
  PROVE  Selects(Those(s, marker), s, marker, Len(s))
<1> DEFINE N == Len(s)
<1>1. N \in Nat
  OBVIOUS
<1>2. PICK f : KeptLoop(s, marker, f)
  BY <1>1, KeptLoopExists
<1>3. /\ f[0] = <<>>
      /\ \A n \in 1..N : f[n] = IF s[n].marker = marker THEN Append(f[n - 1], s[n]) ELSE f[n - 1]
  <2>1. f = [n \in 0..Len(s) |->
               IF n = 0 THEN <<>>
               ELSE IF s[n].marker = marker THEN Append(f[n - 1], s[n]) ELSE f[n - 1]]
    BY <1>2 DEF KeptLoop
  <2>2. 0 \in 0..N /\ \A n \in 1..N : n \in 0..N /\ n # 0
    BY <1>1
  <2> QED BY <2>1, <2>2
<1> DEFINE T == {n \in Nat : n <= N => Selects(f[n], s, marker, n)}
<1>4. 0 \in T
  <2>1. Selects(<<>>, s, marker, 0)
    BY DEF Selects
  <2> QED BY <1>3, <2>1
<1>5. ASSUME NEW n \in Nat, n \in T PROVE n + 1 \in T
  <2> SUFFICES ASSUME n + 1 <= N PROVE Selects(f[n + 1], s, marker, n + 1)
    OBVIOUS
  <2>1. n <= N /\ n + 1 \in 1..N /\ (n + 1) - 1 = n
    BY <1>1
  <2>2. PICK t : t = f[n]
    OBVIOUS
  <2>3. PICK v : v = s[n + 1]
    OBVIOUS
  <2>4. PICK u : u = f[n + 1]
    OBVIOUS
  <2>5. Selects(t, s, marker, n)
    BY <1>5, <2>1, <2>2
  <2>6. v \in Version /\ t \in Seq(Version) /\ Len(t) \in Nat
    BY <2>1, <2>3, <2>5 DEF Selects
  <2>7. u = IF v.marker = marker THEN Append(t, v) ELSE t
    BY <1>3, <2>1, <2>2, <2>3, <2>4
  <2>8. \A j \in 1..(n + 1) : j \in 1..n \/ j = n + 1
    OBVIOUS
  <2>9. CASE v.marker = marker
    <3>1. /\ u \in Seq(Version) /\ Len(u) = Len(t) + 1
          /\ \A i \in 1..Len(t) : u[i] = t[i]
          /\ u[Len(t) + 1] = v
      BY <2>6, <2>7, <2>9, AppendProperties
    <3>2. \A i \in 1..Len(u) : i \in 1..Len(t) \/ i = Len(t) + 1
      BY <2>6, <3>1
    <3>3. ASSUME NEW i \in 1..Len(u) PROVE \E j \in 1..(n + 1) : u[i] = s[j]
      <4>1. CASE i \in 1..Len(t)
        <5>1. PICK j \in 1..n : t[i] = s[j]
          BY <2>5, <4>1 DEF Selects
        <5>2. j \in 1..(n + 1)
          OBVIOUS
        <5> QED BY <3>1, <4>1, <5>1, <5>2
      <4>2. CASE i = Len(t) + 1
        <5>1. n + 1 \in 1..(n + 1)
          OBVIOUS
        <5> QED BY <2>3, <3>1, <4>2, <5>1
      <4> QED BY <3>2, <4>1, <4>2
    <3>4. ASSUME NEW j \in 1..(n + 1), s[j].marker = marker PROVE \E i \in 1..Len(u) : u[i] = s[j]
      <4>1. CASE j \in 1..n
        <5>1. PICK i \in 1..Len(t) : t[i] = s[j]
          BY <2>5, <3>4, <4>1 DEF Selects
        <5>2. i \in 1..Len(u)
          BY <2>6, <3>1
        <5> QED BY <3>1, <5>1, <5>2
      <4>2. CASE j = n + 1
        <5>1. Len(t) + 1 \in 1..Len(u)
          BY <2>6, <3>1
        <5> QED BY <2>3, <3>1, <4>2, <5>1
      <4> QED BY <2>8, <4>1, <4>2
    <3> QED BY <2>4, <3>1, <3>3, <3>4 DEF Selects
  <2>10. CASE v.marker # marker
    <3>1. u = t
      BY <2>7, <2>10
    <3>2. ASSUME NEW i \in 1..Len(u) PROVE \E j \in 1..(n + 1) : u[i] = s[j]
      <4>1. PICK j \in 1..n : t[i] = s[j]
        BY <2>5, <3>1 DEF Selects
      <4>2. j \in 1..(n + 1)
        OBVIOUS
      <4> QED BY <3>1, <4>1, <4>2
    <3>3. ASSUME NEW j \in 1..(n + 1), s[j].marker = marker PROVE \E i \in 1..Len(u) : u[i] = s[j]
      <4>1. j \in 1..n
        BY <2>3, <2>8, <2>10, <3>3
      <4> QED BY <2>5, <3>1, <3>3, <4>1 DEF Selects
    <3> QED BY <2>4, <2>6, <3>1, <3>2, <3>3 DEF Selects
  <2> QED BY <2>9, <2>10
<1>6. N \in T
  BY <1>1, <1>4, <1>5, SetInduction
<1>7. Those(s, marker) = f[N] /\ Selects(f[N], s, marker, N)
  BY <1>1, <1>2, <1>6 DEF KeptLoop
<1> QED BY <1>7

\* The page t holds the versions of s, in whatever order.
Lists(t, s) ==
  /\ t \in Seq(Version)
  /\ \A i \in 1..Len(t) : \E j \in 1..Len(s) : t[i] = s[j]
  /\ \A j \in 1..Len(s) : \E i \in 1..Len(t) : t[i] = s[j]

\* A page of ListObjectVersions, versions first and delete markers after them,
\* leaves none out.
LEMMA ListingLists ==
  ASSUME NEW k, source[k] \in Seq(Version)
  PROVE  Lists(Listing(k), source[k])
<1>1. PICK s : s = source[k]
  OBVIOUS
<1>2. PICK r : r = Reverse(s)
  OBVIOUS
<1>3. s \in Seq(Version) /\ Len(s) \in Nat
  BY <1>1
<1>4. /\ r \in Seq(Version) /\ Len(r) = Len(s)
      /\ \A i \in 1..Len(s) : r[i] = s[(Len(s) - i) + 1]
  BY <1>2, <1>3 DEF Reverse
<1>5. PICK a : a = Those(r, FALSE)
  OBVIOUS
<1>6. PICK b : b = Those(r, TRUE)
  OBVIOUS
<1>7. Selects(a, r, FALSE, Len(r)) /\ Selects(b, r, TRUE, Len(r))
  BY <1>4, <1>5, <1>6, ThoseSelects
<1>8. PICK t : t = a \o b
  OBVIOUS
<1>9. Listing(k) = t
  BY <1>1, <1>2, <1>5, <1>6, <1>8 DEF Listing
<1>10. a \in Seq(Version) /\ b \in Seq(Version) /\ Len(a) \in Nat /\ Len(b) \in Nat
  BY <1>7 DEF Selects
<1>11. /\ t \in Seq(Version) /\ Len(t) = Len(a) + Len(b)
       /\ \A i \in 1..(Len(a) + Len(b)) : t[i] = IF i <= Len(a) THEN a[i] ELSE b[i - Len(a)]
  BY <1>8, <1>10, ConcatProperties
<1>12. \A i \in 1..Len(t) : \E j \in 1..Len(r) : t[i] = r[j]
  <2> SUFFICES ASSUME NEW i \in 1..Len(t) PROVE \E j \in 1..Len(r) : t[i] = r[j]
    OBVIOUS
  <2>1. CASE i <= Len(a)
    <3>1. i \in 1..Len(a) /\ t[i] = a[i]
      BY <1>10, <1>11, <2>1
    <3> QED BY <1>7, <3>1 DEF Selects
  <2>2. CASE ~(i <= Len(a))
    <3>1. i - Len(a) \in 1..Len(b) /\ t[i] = b[i - Len(a)]
      BY <1>10, <1>11, <2>2
    <3> QED BY <1>7, <3>1 DEF Selects
  <2> QED BY <2>1, <2>2
<1>13. \A j \in 1..Len(r) : \E i \in 1..Len(t) : t[i] = r[j]
  <2> SUFFICES ASSUME NEW j \in 1..Len(r) PROVE \E i \in 1..Len(t) : t[i] = r[j]
    OBVIOUS
  <2>1. r[j].marker = FALSE \/ r[j].marker = TRUE
    <3>1. r[j] \in Version
      BY <1>4
    <3> QED BY <3>1 DEF Version
  <2>2. CASE r[j].marker = FALSE
    <3>1. PICK i \in 1..Len(a) : a[i] = r[j]
      BY <1>7, <2>2 DEF Selects
    <3>2. i \in 1..Len(t) /\ t[i] = a[i]
      BY <1>10, <1>11
    <3> QED BY <3>1, <3>2
  <2>3. CASE r[j].marker = TRUE
    <3>1. PICK i \in 1..Len(b) : b[i] = r[j]
      BY <1>7, <2>3 DEF Selects
    <3>2. Len(a) + i \in 1..Len(t) /\ t[Len(a) + i] = b[i]
      <4>1. Len(a) + i \in 1..(Len(a) + Len(b)) /\ ~(Len(a) + i <= Len(a)) /\ (Len(a) + i) - Len(a) = i
        BY <1>10
      <4> QED BY <1>11, <4>1
    <3> QED BY <3>1, <3>2
  <2> QED BY <2>1, <2>2, <2>3
<1>14. \A j \in 1..Len(s) : /\ (Len(s) - j) + 1 \in 1..Len(s)
                            /\ r[j] = s[(Len(s) - j) + 1] /\ s[j] = r[(Len(s) - j) + 1]
  <2> SUFFICES ASSUME NEW j \in 1..Len(s) PROVE /\ (Len(s) - j) + 1 \in 1..Len(s)
                            /\ r[j] = s[(Len(s) - j) + 1] /\ s[j] = r[(Len(s) - j) + 1]
    OBVIOUS
  <2>1. (Len(s) - j) + 1 \in 1..Len(s) /\ (Len(s) - ((Len(s) - j) + 1)) + 1 = j
    BY <1>3
  <2> QED BY <1>4, <2>1
<1>15. ASSUME NEW i \in 1..Len(t) PROVE \E j \in 1..Len(s) : t[i] = s[j]
  <2>1. PICK j \in 1..Len(s) : t[i] = r[j]
    BY <1>4, <1>12
  <2>2. PICK m : m = (Len(s) - j) + 1
    OBVIOUS
  <2>3. m \in 1..Len(s) /\ t[i] = s[m]
    BY <1>14, <2>1, <2>2
  <2> QED BY <2>3
<1>16. ASSUME NEW j \in 1..Len(s) PROVE \E i \in 1..Len(t) : t[i] = s[j]
  <2>1. PICK m : m = (Len(s) - j) + 1
    OBVIOUS
  <2>2. m \in 1..Len(r) /\ s[j] = r[m]
    BY <1>4, <1>14, <2>1
  <2> QED BY <1>13, <2>2
<1>17. Lists(t, s)
  BY <1>11, <1>15, <1>16 DEF Lists
<1> QED BY <1>1, <1>9, <1>17

---------------------------------------------------------------------------
(* The scheduler. *)

\* The loop over a page that tells the scheduler of every version.
DiscoverLoop(k, vs, f) ==
  /\ f = [n \in 0..Len(vs) |->
            IF n = 0 THEN sched
            ELSE discover(f[n - 1], S3Key(k, vs[n]), Event(k, vs[n]), scan.at)]
  /\ DiscoverAll(k, vs) = f[Len(vs)]

\* The recursion of DiscoverAll has a solution.
LEMMA DiscoverLoopExists ==
  ASSUME NEW k, NEW vs, Len(vs) \in Nat
  PROVE  \E f : DiscoverLoop(k, vs, f)
<1> DEFINE N == Len(vs)
           step(x, i) == discover(x, S3Key(k, vs[i]), Event(k, vs[i]), scan.at)
<1>0. PICK x0 : x0 = sched
  OBVIOUS
<1> DEFINE rec(f, m) == [i \in 0..m |-> IF i = 0 THEN x0 ELSE step(f[i - 1], i)]
           S == {m \in Nat : \E f : f = rec(f, m)}
<1> HIDE DEF step
<1>1. 0 \in S
  <2>1. PICK f : f = [i \in 0..0 |-> x0]
    OBVIOUS
  <2>2. f = rec(f, 0)
    BY <2>1
  <2> QED BY <2>2
<1>2. ASSUME NEW m \in Nat, m \in S PROVE m + 1 \in S
  <2>1. PICK f : f = rec(f, m)
    BY <1>2
  <2>2. PICK g : g = [i \in 0..(m + 1) |-> IF i <= m THEN f[i] ELSE step(f[m], m + 1)]
    OBVIOUS
  <2>3. (\A i \in 0..m : g[i] = f[i]) /\ g[m + 1] = step(f[m], m + 1)
    BY <2>2
  <2>4. \A i \in 0..m : f[i] = IF i = 0 THEN x0 ELSE step(f[i - 1], i)
    BY <2>1
  <2>5. ASSUME NEW i \in 0..(m + 1) PROVE g[i] = IF i = 0 THEN x0 ELSE step(g[i - 1], i)
    <3>1. CASE i = 0
      <4>1. 0 \in 0..m
        OBVIOUS
      <4>2. g[0] = f[0] /\ f[0] = x0
        BY <2>3, <2>4, <4>1
      <4> QED BY <3>1, <4>2
    <3>2. CASE i \in 1..m
      <4>1. i \in 0..m /\ i - 1 \in 0..m /\ i # 0
        BY <3>2
      <4> QED BY <2>3, <2>4, <4>1
    <3>3. CASE i = m + 1
      <4>1. i # 0 /\ i - 1 = m /\ m \in 0..m
        BY <3>3
      <4> QED BY <2>3, <3>3, <4>1
    <3> QED BY <3>1, <3>2, <3>3
  <2>6. g = rec(g, m + 1)
    BY <2>2, <2>5
  <2> QED BY <2>6
<1>3. \E f : f = rec(f, N)
  BY <1>1, <1>2, SetInduction
<1>4. PICK f : f = (CHOOSE f_1 : f_1 = rec(f_1, N))
  OBVIOUS
<1>5. f = rec(f, N)
  BY <1>3, <1>4
<1>6. DiscoverAll(k, vs) = f[N]
  BY <1>0, <1>4 DEF DiscoverAll, step
<1>7. DiscoverLoop(k, vs, f)
  BY <1>0, <1>5, <1>6 DEF DiscoverLoop, step
<1> QED BY <1>7

\* The positions of the changes that t has queued and s has not.
Fresh(s, t) == (Len(s.pending) + 1)..Len(t.pending)

\* The scheduler t is s after it was told of the first n versions of the page vs.
Told(t, s, k, vs, n) ==
  /\ t \in Scheduler /\ t.policy = s.policy /\ t.applied = s.applied
  /\ Len(s.pending) <= Len(t.pending)
  /\ \A i \in 1..Len(s.pending) : t.pending[i] = s.pending[i]
  /\ \A i \in Fresh(s, t) : /\ ~is_known(s, t.pending[i].key)
                            /\ \E j \in 1..n : IsOf(t.pending[i], k, vs[j])
  /\ \A i, j \in Fresh(s, t) : t.pending[i].key = t.pending[j].key => i = j
  /\ \A j \in 1..n : is_known(t, S3Key(k, vs[j]))

\* discover, for one more version: it is queued when it is neither queued nor
\* was given away.
LEMMA DiscoverTells ==
  ASSUME NEW s \in Scheduler, NEW t, NEW k \in Key, NEW vs \in Seq(Version), NEW n \in Nat,
         Told(t, s, k, vs, n), n + 1 \in 1..Len(vs), NEW at \in 0..MaxTime
  PROVE  Told(discover(t, S3Key(k, vs[n + 1]), Event(k, vs[n + 1]), at), s, k, vs, n + 1)
<1>1. PICK v : v = vs[n + 1]
  OBVIOUS
<1>2. PICK x : x = S3Key(k, v)
  OBVIOUS
<1>3. PICK d : d = [key |-> x, event |-> Event(k, v), at |-> at]
  OBVIOUS
<1>4. PICK u : u = discover(t, x, Event(k, v), at)
  OBVIOUS
<1>5. v \in Version
  BY <1>1
<1>6. d \in Delivery /\ d.key = x /\ IsOf(d, k, v)
  BY <1>2, <1>3, <1>5 DEF Delivery, Change, Version, Event, S3Key, IsOf
<1>7. \A j \in 1..(n + 1) : j \in 1..n \/ j = n + 1
  OBVIOUS
<1>8. /\ s.pending \in Seq(Delivery) /\ Len(s.pending) \in Nat
      /\ t \in Scheduler /\ t.pending \in Seq(Delivery) /\ Len(t.pending) \in Nat
  BY DEF Told, Scheduler
<1>9. CASE is_known(t, x)
  <2>1. u = t
    BY <1>4, <1>9 DEF discover
  <2>2. \A j \in 1..(n + 1) : is_known(t, S3Key(k, vs[j]))
    BY <1>1, <1>2, <1>7, <1>9 DEF Told
  <2>3. \A i \in Fresh(s, t) : /\ ~is_known(s, t.pending[i].key)
                               /\ \E j \in 1..(n + 1) : IsOf(t.pending[i], k, vs[j])
    <3> SUFFICES ASSUME NEW i \in Fresh(s, t)
                 PROVE  /\ ~is_known(s, t.pending[i].key)
                        /\ \E j \in 1..(n + 1) : IsOf(t.pending[i], k, vs[j])
      OBVIOUS
    <3>1. ~is_known(s, t.pending[i].key)
      BY DEF Told
    <3>2. PICK j \in 1..n : IsOf(t.pending[i], k, vs[j])
      BY DEF Told
    <3>3. j \in 1..(n + 1)
      OBVIOUS
    <3> QED BY <3>1, <3>2, <3>3
  <2>4. Told(t, s, k, vs, n + 1)
    BY <2>2, <2>3 DEF Told
  <2> QED BY <1>1, <1>2, <1>4, <2>1, <2>4
<1>10. CASE ~is_known(t, x)
  <2>1. PICK q : q = Append(t.pending, d)
    OBVIOUS
  <2>2. u = [t EXCEPT !.pending = q]
    BY <1>3, <1>4, <1>10, <2>1 DEF discover
  <2>3. /\ q \in Seq(Delivery) /\ Len(q) = Len(t.pending) + 1
        /\ \A i \in 1..Len(t.pending) : q[i] = t.pending[i]
        /\ q[Len(t.pending) + 1] = d
    BY <1>6, <1>8, <2>1, AppendProperties
  <2>4. u.pending = q /\ u.policy = t.policy /\ u.applied = t.applied /\ u \in Scheduler
    BY <1>8, <2>2, <2>3 DEF Scheduler
  <2>5. u.policy = s.policy /\ u.applied = s.applied /\ Len(s.pending) <= Len(u.pending)
    BY <1>8, <2>3, <2>4 DEF Told
  <2>6. \A i \in 1..Len(s.pending) : u.pending[i] = s.pending[i]
    <3>1. \A i \in 1..Len(s.pending) : i \in 1..Len(t.pending) /\ t.pending[i] = s.pending[i]
      BY <1>8 DEF Told
    <3> QED BY <2>3, <2>4, <3>1
  <2>7. \A i \in Fresh(s, u) : (i \in Fresh(s, t) /\ i \in 1..Len(t.pending)) \/ i = Len(t.pending) + 1
    BY <1>8, <2>3, <2>4 DEF Fresh
  <2>8. \A i \in 1..Len(t.pending) : u.pending[i] = t.pending[i] /\ t.pending[i].key # x
    BY <1>10, <2>3, <2>4 DEF is_known, PendingKeys
  <2>9. u.pending[Len(t.pending) + 1] = d
    BY <2>3, <2>4
  <2>10. ~is_known(s, x)
    <3>1. \A i \in 1..Len(s.pending) : s.pending[i].key # x
      <4>1. \A i \in 1..Len(s.pending) : i \in 1..Len(t.pending) /\ t.pending[i] = s.pending[i]
        BY <1>8 DEF Told
      <4> QED BY <2>8, <4>1
    <3>2. x \notin s.applied
      BY <1>10 DEF Told, is_known
    <3> QED BY <3>1, <3>2 DEF is_known, PendingKeys
  <2>11. ASSUME NEW i \in Fresh(s, u)
         PROVE  /\ ~is_known(s, u.pending[i].key)
                /\ \E j \in 1..(n + 1) : IsOf(u.pending[i], k, vs[j])
    <3>1. CASE i \in Fresh(s, t) /\ i \in 1..Len(t.pending)
      <4>1. ~is_known(s, t.pending[i].key)
        BY <3>1 DEF Told
      <4>2. PICK j \in 1..n : IsOf(t.pending[i], k, vs[j])
        BY <3>1 DEF Told
      <4>3. j \in 1..(n + 1)
        OBVIOUS
      <4> QED BY <2>8, <3>1, <4>1, <4>2, <4>3
    <3>2. CASE i = Len(t.pending) + 1
      <4>1. n + 1 \in 1..(n + 1)
        OBVIOUS
      <4> QED BY <1>1, <1>6, <2>9, <2>10, <3>2, <4>1
    <3> QED BY <2>7, <3>1, <3>2
  <2>12. ASSUME NEW i \in Fresh(s, u), NEW j \in Fresh(s, u), u.pending[i].key = u.pending[j].key
         PROVE  i = j
    <3>1. \A a, b \in Fresh(s, t) : t.pending[a].key = t.pending[b].key => a = b
      BY DEF Told
    <3> QED BY <1>6, <2>7, <2>8, <2>9, <2>12, <3>1
  <2>13. ASSUME NEW j \in 1..(n + 1) PROVE is_known(u, S3Key(k, vs[j]))
    <3>1. PendingKeys(t) \subseteq PendingKeys(u)
      <4> SUFFICES ASSUME NEW i \in 1..Len(t.pending) PROVE t.pending[i].key \in PendingKeys(u)
        BY DEF PendingKeys
      <4>1. i \in 1..Len(u.pending) /\ u.pending[i].key = t.pending[i].key
        BY <1>8, <2>3, <2>4, <2>8
      <4> QED BY <4>1 DEF PendingKeys
    <3>2. CASE j \in 1..n
      BY <2>4, <3>1, <3>2 DEF Told, is_known
    <3>3. CASE j = n + 1
      <4>1. Len(t.pending) + 1 \in 1..Len(u.pending) /\ u.pending[Len(t.pending) + 1].key = x
        BY <1>6, <1>8, <2>3, <2>4
      <4>2. x \in PendingKeys(u)
        BY <4>1 DEF PendingKeys
      <4> QED BY <1>1, <1>2, <3>3, <4>2 DEF is_known
    <3> QED BY <1>7, <3>2, <3>3
  <2>14. Told(u, s, k, vs, n + 1)
    BY <2>4, <2>5, <2>6, <2>11, <2>12, <2>13 DEF Told
  <2> QED BY <1>1, <1>2, <1>4, <2>14
<1> QED BY <1>9, <1>10

\* A page of the listing, discovered version by version (scan_and_discover).
LEMMA PageTells ==
  ASSUME sched \in Scheduler, scan.at \in 0..MaxTime, NEW k \in Key, NEW vs \in Seq(Version)
  PROVE  Told(DiscoverAll(k, vs), sched, k, vs, Len(vs))
<1> DEFINE N == Len(vs)
<1>0. PICK s : s = sched
  OBVIOUS
<1>1. PICK at : at = scan.at
  OBVIOUS
<1>2. N \in Nat
  OBVIOUS
<1>3. PICK f : DiscoverLoop(k, vs, f)
  BY <1>2, DiscoverLoopExists
<1>4. /\ f[0] = s
      /\ \A n \in 1..N : f[n] = discover(f[n - 1], S3Key(k, vs[n]), Event(k, vs[n]), at)
  <2>1. f = [n \in 0..Len(vs) |->
               IF n = 0 THEN s ELSE discover(f[n - 1], S3Key(k, vs[n]), Event(k, vs[n]), at)]
    BY <1>0, <1>1, <1>3 DEF DiscoverLoop
  <2>2. 0 \in 0..N /\ \A n \in 1..N : n \in 0..N /\ n # 0
    BY <1>2
  <2> QED BY <2>1, <2>2
<1> DEFINE T == {n \in Nat : n <= N => Told(f[n], s, k, vs, n)}
<1>5. 0 \in T
  <2>1. s \in Scheduler /\ Len(s.pending) \in Nat
    BY <1>0 DEF Scheduler
  <2>2. Fresh(s, s) = {} /\ 1..0 = {} /\ Len(s.pending) <= Len(s.pending)
    BY <2>1 DEF Fresh
  <2>3. Told(s, s, k, vs, 0)
    BY <2>1, <2>2 DEF Told
  <2> QED BY <1>4, <2>3
<1>6. ASSUME NEW n \in Nat, n \in T PROVE n + 1 \in T
  <2> SUFFICES ASSUME n + 1 <= N PROVE Told(f[n + 1], s, k, vs, n + 1)
    OBVIOUS
  <2>1. n <= N /\ n + 1 \in 1..N /\ (n + 1) - 1 = n
    BY <1>2
  <2>2. Told(f[n], s, k, vs, n)
    BY <1>6, <2>1
  <2>3. f[n + 1] = discover(f[n], S3Key(k, vs[n + 1]), Event(k, vs[n + 1]), at)
    BY <1>4, <2>1
  <2> QED BY <1>0, <1>1, <2>1, <2>2, <2>3, DiscoverTells
<1>7. N \in T
  BY <1>2, <1>5, <1>6, SetInduction
<1>8. DiscoverAll(k, vs) = f[N] /\ Told(f[N], s, k, vs, N)
  BY <1>2, <1>3, <1>7 DEF DiscoverLoop
<1> QED BY <1>0, <1>8

\* The history of what was queued, longer by what t has queued and s has not.
Longer(given, s, t, was, is) ==
  /\ is = given \o t.pending /\ is \in Seq(Delivery)
  /\ Len(was) <= Len(is) /\ \A i \in 1..Len(was) : is[i] = was[i]
  /\ \A i \in (Len(was) + 1)..Len(is) :
       (i - Len(was)) + Len(s.pending) \in Fresh(s, t) /\ is[i] = t.pending[(i - Len(was)) + Len(s.pending)]

\* The record of what was discovered grows by exactly what discover queued.
LEMMA HistoryGrows ==
  ASSUME NEW given \in Seq(Delivery), NEW s \in Scheduler, NEW t \in Scheduler,
         Len(s.pending) <= Len(t.pending),
         \A i \in 1..Len(s.pending) : t.pending[i] = s.pending[i]
  PROVE  Longer(given, s, t, given \o s.pending,
                (given \o s.pending) \o SubSeq(t.pending, Len(s.pending) + 1, Len(t.pending)))
<1>1. PICK p : p = s.pending
  OBVIOUS
<1>2. PICK q : q = t.pending
  OBVIOUS
<1>3. PICK n : n = SubSeq(q, Len(p) + 1, Len(q))
  OBVIOUS
<1>4. p \in Seq(Delivery) /\ q \in Seq(Delivery) /\ Len(p) \in Nat /\ Len(q) \in Nat
      /\ Len(given) \in Nat /\ Len(p) <= Len(q) /\ \A i \in 1..Len(p) : q[i] = p[i]
  BY <1>1, <1>2 DEF Scheduler
<1>5. /\ n \in Seq(Delivery) /\ Len(n) = Len(q) - Len(p)
      /\ \A i \in 1..Len(n) : n[i] = q[Len(p) + i]
  <2>1. \A i \in (Len(p) + 1)..Len(q) : q[i] \in Delivery
    BY <1>4
  <2>2. /\ n \in Seq(Delivery)
        /\ Len(n) = IF Len(p) + 1 <= Len(q) THEN Len(q) - (Len(p) + 1) + 1 ELSE 0
        /\ \A i \in 1..(Len(q) - (Len(p) + 1) + 1) : n[i] = q[(Len(p) + 1) + i - 1]
    BY <1>3, <1>4, <2>1, SubSeqProperties
  <2>3. Len(n) = Len(q) - Len(p) /\ Len(q) - (Len(p) + 1) + 1 = Len(q) - Len(p)
    BY <1>4, <2>2
  <2>4. \A i \in 1..Len(n) : (Len(p) + 1) + i - 1 = Len(p) + i
    BY <1>4, <2>3
  <2> QED BY <2>2, <2>3, <2>4
<1>6. p \o n = q
  <2>1. p \o n \in Seq(Delivery) /\ Len(p \o n) = Len(p) + Len(n)
        /\ \A i \in 1..(Len(p) + Len(n)) : (p \o n)[i] = IF i <= Len(p) THEN p[i] ELSE n[i - Len(p)]
    BY <1>4, <1>5, ConcatProperties
  <2>2. Len(p \o n) = Len(q)
    BY <1>4, <1>5, <2>1
  <2>3. ASSUME NEW i \in 1..Len(q) PROVE (p \o n)[i] = q[i]
    <3>1. CASE i <= Len(p)
      BY <1>4, <2>1, <2>2, <3>1
    <3>2. CASE ~(i <= Len(p))
      <4>1. i - Len(p) \in 1..Len(n) /\ Len(p) + (i - Len(p)) = i
        BY <1>4, <1>5, <3>2
      <4>2. (p \o n)[i] = n[i - Len(p)]
        BY <2>1, <2>2, <3>2
      <4> QED BY <1>5, <4>1, <4>2
    <3> QED BY <3>1, <3>2
  <2> QED BY <1>4, <2>1, <2>2, <2>3, SeqEqual
<1>7. PICK was : was = given \o p
  OBVIOUS
<1>8. PICK is : is = was \o n
  OBVIOUS
<1>9. is = given \o q
  <2>1. given \in Seq(Delivery) /\ p \in Seq(Delivery) /\ n \in Seq(Delivery)
    BY <1>4, <1>5
  <2>2. (given \o p) \o n = given \o (p \o n)
    BY SMTT(30), <2>1, ConcatAssociative
  <2> QED BY <1>6, <1>7, <1>8, <2>2
<1>10. was \in Seq(Delivery) /\ Len(was) \in Nat
  BY <1>4, <1>7, ConcatProperties
<1>11. /\ is \in Seq(Delivery) /\ Len(is) = Len(was) + Len(n)
       /\ \A i \in 1..(Len(was) + Len(n)) : is[i] = IF i <= Len(was) THEN was[i] ELSE n[i - Len(was)]
  BY ZenonT(40), <1>5, <1>8, <1>10, ConcatProperties
<1>12. Len(was) <= Len(is) /\ \A i \in 1..Len(was) : is[i] = was[i]
  <2>1. Len(n) \in Nat
    BY <1>5
  <2>2. Len(was) <= Len(is)
    BY <1>10, <1>11, <2>1
  <2>3. \A i \in 1..Len(was) : i \in 1..(Len(was) + Len(n)) /\ i <= Len(was)
    BY <1>10, <2>1
  <2> QED BY <1>11, <2>2, <2>3
<1>13. ASSUME NEW i \in (Len(was) + 1)..Len(is)
       PROVE  (i - Len(was)) + Len(p) \in (Len(p) + 1)..Len(q) /\ is[i] = q[(i - Len(was)) + Len(p)]
  <2>1. i - Len(was) \in 1..Len(n) /\ ~(i <= Len(was)) /\ i \in 1..(Len(was) + Len(n))
    BY <1>4, <1>5, <1>10, <1>11
  <2>2. is[i] = n[i - Len(was)]
    BY <1>11, <2>1
  <2>3. Len(p) + (i - Len(was)) = (i - Len(was)) + Len(p)
    BY <1>4, <1>10
  <2>4. (i - Len(was)) + Len(p) \in (Len(p) + 1)..Len(q)
    BY <1>4, <1>5, <1>10, <2>1
  <2> QED BY <1>5, <2>1, <2>2, <2>3, <2>4
<1>14. Longer(given, s, t, was, is)
  BY <1>1, <1>2, <1>9, <1>11, <1>12, <1>13 DEF Longer, Fresh
<1> QED BY <1>1, <1>2, <1>3, <1>7, <1>8, <1>14

\* The scheduler e is s without the head d of its queue.
Gave(s, e, d) ==
  /\ e \in Scheduler /\ e.policy = s.policy /\ d \in Seq(Delivery)
  /\ d \o e.pending = s.pending
  /\ \A x : is_known(e, x) <=> is_known(s, x)

\* drain_due takes the due prefix off the queue: nothing is lost, reordered or
\* forgotten.
LEMMA DrainGives ==
  ASSUME NEW s \in Scheduler, NEW t \in Nat
  PROVE  Gave(s, drain_due(s, t), drained(s, t))
<1>1. PICK n : n = DueLen(s, t)
  OBVIOUS
<1>2. PICK p : p = s.pending
  OBVIOUS
<1>3. PICK d : d = drained(s, t)
  OBVIOUS
<1>4. PICK q : q = rest_after(s, n)
  OBVIOUS
<1>5. PICK a : a = {d[i].key : i \in 1..n}
  OBVIOUS
<1>6. PICK e : e = drain_due(s, t)
  OBVIOUS
<1>7. /\ p \in Seq(Delivery) /\ Len(p) \in Nat
      /\ s.policy \in Nat \cup {Stalled} /\ s.applied \in SUBSET (Key \X (1..MaxWrites))
  BY <1>2 DEF Scheduler
<1>8. n \in 0..Len(p)
  BY <1>1, <1>2, <1>7, DuePrefix
<1>9. d = SubSeq(p, 1, n) /\ q = SubSeq(p, n + 1, Len(p))
  BY <1>1, <1>2, <1>3, <1>4 DEF drained, rest_after
<1>10. /\ d \in Seq(Delivery) /\ Len(d) = n /\ \A i \in 1..n : d[i] = p[i]
  <2>1. \A i \in 1..n : p[i] \in Delivery
    BY <1>7, <1>8
  <2>2. /\ d \in Seq(Delivery) /\ Len(d) = IF 1 <= n THEN n - 1 + 1 ELSE 0
        /\ \A i \in 1..(n - 1 + 1) : d[i] = p[1 + i - 1]
    BY <1>8, <1>9, <2>1, SubSeqProperties
  <2> QED BY <1>8, <2>2
<1>11. /\ q \in Seq(Delivery) /\ Len(q) = Len(p) - n /\ \A i \in 1..Len(q) : q[i] = p[n + i]
  <2>1. \A i \in (n + 1)..Len(p) : p[i] \in Delivery
    BY <1>7, <1>8
  <2>2. /\ q \in Seq(Delivery) /\ Len(q) = IF n + 1 <= Len(p) THEN Len(p) - (n + 1) + 1 ELSE 0
        /\ \A i \in 1..(Len(p) - (n + 1) + 1) : q[i] = p[(n + 1) + i - 1]
    BY <1>7, <1>8, <1>9, <2>1, SubSeqProperties
  <2>3. Len(q) = Len(p) - n /\ Len(p) - (n + 1) + 1 = Len(p) - n
    BY <1>7, <1>8, <2>2
  <2>4. \A i \in 1..Len(q) : (n + 1) + i - 1 = n + i
    BY <1>7, <1>8, <2>3
  <2> QED BY <2>2, <2>3, <2>4
<1>12. d \o q = p
  <2>1. n \in (1 - 1)..Len(p) /\ Len(p) \in n..Len(p) /\ 1 \in 1..(Len(p) + 1)
    BY <1>7, <1>8
  <2>2. d \o q = SubSeq(p, 1, Len(p))
    BY <1>7, <1>9, <2>1, ConcatAdjacentSubSeq
  <2> QED BY <1>7, <2>2, SubSeqFull
<1>13. /\ e.policy = s.policy /\ e.pending = q /\ e.applied = s.applied \cup a
       /\ e \in Scheduler
  <2>1. e = [s EXCEPT !.pending = q, !.applied = s.applied \cup a]
    BY <1>1, <1>3, <1>4, <1>5, <1>6 DEF drain_due
  <2>2. a \subseteq Key \X (1..MaxWrites)
    <3>1. \A i \in 1..n : d[i] \in Delivery
      BY <1>7, <1>8, <1>10
    <3> QED BY <1>5, <3>1 DEF Delivery
  <2> QED BY <1>7, <1>11, <2>1, <2>2 DEF Scheduler
<1>14. ASSUME NEW x PROVE is_known(e, x) <=> is_known(s, x)
  <2>1. ASSUME NEW j \in 1..Len(p), x = p[j].key PROVE is_known(e, x)
    <3>1. CASE j <= n
      <4>1. j \in 1..n /\ x = d[j].key
        BY <1>7, <1>8, <1>10, <2>1, <3>1
      <4> QED BY <1>5, <1>13, <4>1 DEF is_known
    <3>2. CASE j > n
      <4>1. j - n \in 1..Len(q) /\ n + (j - n) = j
        BY <1>7, <1>8, <1>11, <3>2
      <4>2. x = q[j - n].key
        BY <1>11, <2>1, <4>1
      <4> QED BY <1>13, <4>1, <4>2 DEF is_known, PendingKeys
    <3> QED BY <1>7, <1>8, <3>1, <3>2
  <2>2. x \in s.applied => is_known(e, x)
    BY <1>13 DEF is_known
  <2>3. is_known(s, x) => is_known(e, x)
    BY <1>2, <2>1, <2>2 DEF is_known, PendingKeys
  <2>4. ASSUME NEW i \in 1..n PROVE d[i].key \in PendingKeys(s)
    <3>1. i \in 1..Len(p) /\ d[i] = p[i]
      BY <1>7, <1>8, <1>10
    <3> QED BY <1>2, <3>1 DEF PendingKeys
  <2>5. ASSUME NEW i \in 1..Len(q) PROVE q[i].key \in PendingKeys(s)
    <3>1. n + i \in 1..Len(p) /\ q[i] = p[n + i]
      BY <1>7, <1>8, <1>11
    <3> QED BY <1>2, <3>1 DEF PendingKeys
  <2>6. is_known(e, x) => is_known(s, x)
    BY <1>5, <1>13, <2>4, <2>5 DEF is_known, PendingKeys
  <2> QED BY <2>3, <2>6
<1> QED BY <1>2, <1>3, <1>6, <1>10, <1>12, <1>13, <1>14 DEF Gave

---------------------------------------------------------------------------
(* The inductive invariant. *)

\* What apply_one knows between two of its requests.
Copying == [next : {"object", "retention", "legal_hold", "put"}, locks : SUBSET LockKind]

StateInv ==
  /\ source \in [Key -> Seq(Version)] /\ target \in [Key -> Seq(Version)]
  /\ now \in 1..MaxTime /\ lag \in Policies /\ sched \in Scheduler /\ sched.policy \in Policies
  /\ pc \in {"idle", "scan", "apply"} /\ (pc = "apply" <=> due # <<>>)
  /\ scan \in [at : 0..MaxTime, todo : SUBSET Key] /\ ended \in 0..MaxTime
  /\ writes \in 0..MaxWrites /\ failures \in 0..MaxFailures /\ paced \in BOOLEAN
  /\ listed \in [Key -> Nat] /\ lockedLate \subseteq Key \X (1..MaxWrites) \X LockKind
  /\ copying \in Copying
  /\ due \in Seq(Delivery) /\ sent \in Seq(Delivery) /\ discovered \in Seq(Delivery)

\* The versions of a key are numbered in the order they were written.
Numbered(k) ==
  /\ listed[k] <= Len(source[k])
  /\ \A i \in 1..Len(source[k]) : source[k][i].id <= writes
  /\ \A i, j \in 1..Len(source[k]) : i < j => source[k][i].id < source[k][j].id

\* The queue holds, and the scheduler knows, exactly what was listed.
Queued ==
  /\ discovered = sent \o due \o sched.pending
  /\ \A i, j \in 1..Len(discovered) : discovered[i].key = discovered[j].key => i = j
  /\ \A x : is_known(sched, x) <=> \E i \in 1..Len(discovered) : discovered[i].key = x

FromListing ==
  \A i \in 1..Len(discovered) :
    \E k \in Key : \E j \in 1..listed[k] : IsOf(discovered[i], k, source[k][j])

AllListed == \A k \in Key : \A j \in 1..listed[k] : is_known(sched, S3Key(k, source[k][j]))

\* Every copy was sent, and without a failure everything that was sent is there.
Copied ==
  /\ \A k \in Key : \A j \in 1..Len(target[k]) :
       \E i \in 1..Len(sent) : sent[i].event = Event(k, target[k][j])
  /\ failures = 0 => \A i \in 1..Len(sent) :
       \E j \in 1..Len(target[sent[i].event.key]) :
         target[sent[i].event.key][j].id = sent[i].event.id

\* With one write between two listings the queue is in the order of the versions.
Ordered ==
  paced =>
    /\ \A k \in Key : Len(source[k]) <= listed[k] + 1 /\ InOrder(k)
    /\ \A i, j \in 1..Len(discovered) :
         i < j /\ discovered[i].event.key = discovered[j].event.key
           => discovered[i].event.id < discovered[j].event.id

S3IndInv ==
  /\ StateInv /\ (\A k \in Key : Numbered(k)) /\ Queued /\ FromListing /\ AllListed
  /\ Copied /\ Ordered

---------------------------------------------------------------------------
(* The steps of clients. *)

\* The parts of the invariant that only look at the queue.
QueueInv == Queued /\ FromListing /\ AllListed

\* A dedup key and a change are determined by number and kind of a version.
LEMMA SameVersion ==
  ASSUME NEW k, NEW v, NEW w, v.id = w.id, v.marker = w.marker
  PROVE  S3Key(k, v) = S3Key(k, w) /\ Event(k, v) = Event(k, w)
BY DEF S3Key, Event

\* A source that only grows: clients never change number or kind of a version.
SourceGrows ==
  \A k \in Key : /\ Len(source[k]) <= Len(source'[k])
                 /\ \A j \in 1..Len(source[k]) : /\ source'[k][j].id = source[k][j].id
                                                 /\ source'[k][j].marker = source[k][j].marker

\* The poller does not notice a write of a client.
LEMMA QueueKept ==
  ASSUME S3IndInv, SourceGrows, UNCHANGED <<sched, due, listed, discovered, sent>>
  PROVE  QueueInv'
<1>1. \A k \in Key : listed[k] \in Nat /\ listed[k] <= Len(source[k]) /\ Len(source[k]) \in Nat
  BY DEF S3IndInv, StateInv, Numbered
<1>2. ASSUME NEW k \in Key, NEW j \in 1..listed[k]
      PROVE  /\ S3Key(k, source'[k][j]) = S3Key(k, source[k][j])
             /\ Event(k, source'[k][j]) = Event(k, source[k][j])
  <2>1. j \in 1..Len(source[k])
    BY <1>1
  <2>2. PICK v : v = source[k][j]
    OBVIOUS
  <2>3. PICK w : w = source'[k][j]
    OBVIOUS
  <2>4. w.id = v.id /\ w.marker = v.marker
    BY <2>1, <2>2, <2>3 DEF SourceGrows
  <2> QED BY <2>2, <2>3, <2>4, SameVersion
<1>3. Queued'
  BY DEF S3IndInv, Queued
<1>4. FromListing'
  <2> SUFFICES ASSUME NEW i \in 1..Len(discovered)
               PROVE  \E k \in Key : \E j \in 1..listed[k] : IsOf(discovered[i], k, source'[k][j])
    BY DEF FromListing
  <2>0. PICK k \in Key : \E j \in 1..listed[k] : IsOf(discovered[i], k, source[k][j])
    BY DEF S3IndInv, FromListing
  <2>1. PICK j \in 1..listed[k] : IsOf(discovered[i], k, source[k][j])
    BY <2>0
  <2>2. IsOf(discovered[i], k, source'[k][j])
    BY <1>2, <2>1 DEF IsOf
  <2> QED BY <2>2
<1>5. AllListed'
  <2> SUFFICES ASSUME NEW k \in Key, NEW j \in 1..listed[k]
               PROVE  is_known(sched, S3Key(k, source'[k][j]))
    BY DEF AllListed
  <2> QED BY <1>2 DEF S3IndInv, AllListed
<1> QED BY <1>3, <1>4, <1>5 DEF QueueInv

\* What was sent is the head of what was discovered, and what is applied next
\* comes after it.
LEMMA SentIsHead ==
  ASSUME S3IndInv
  PROVE  /\ Len(sent) \in Nat /\ Len(discovered) \in Nat /\ Len(sent) <= Len(discovered)
         /\ \A i \in 1..Len(sent) : sent[i] = discovered[i]
         /\ due # <<>> => /\ Len(sent) + 1 \in 1..Len(discovered)
                          /\ Head(due) = discovered[Len(sent) + 1]
<1>1. PICK a : a = sent
  OBVIOUS
<1>2. PICK b : b = due
  OBVIOUS
<1>3. PICK p : p = sched.pending
  OBVIOUS
<1>4. PICK d : d = discovered
  OBVIOUS
<1>5. a \in Seq(Delivery) /\ b \in Seq(Delivery) /\ p \in Seq(Delivery) /\ d = a \o b \o p
  BY <1>1, <1>2, <1>3, <1>4 DEF S3IndInv, StateInv, Queued, Scheduler
<1>6. Len(a) \in Nat /\ Len(b) \in Nat /\ Len(p) \in Nat
  BY <1>5
<1>7. /\ a \o b \in Seq(Delivery) /\ Len(a \o b) = Len(a) + Len(b)
      /\ \A i \in 1..(Len(a) + Len(b)) : (a \o b)[i] = IF i <= Len(a) THEN a[i] ELSE b[i - Len(a)]
  BY <1>5, ConcatProperties
<1>8. /\ Len(d) = (Len(a) + Len(b)) + Len(p)
      /\ \A i \in 1..((Len(a) + Len(b)) + Len(p)) :
           d[i] = IF i <= Len(a) + Len(b) THEN (a \o b)[i] ELSE p[i - (Len(a) + Len(b))]
  BY <1>5, <1>7, ConcatProperties
<1>9. Len(d) \in Nat /\ Len(a) <= Len(d)
  BY <1>6, <1>8
<1>10. ASSUME NEW i \in 1..Len(a) PROVE a[i] = d[i]
  <2>1. i \in 1..(Len(a) + Len(b)) /\ i \in 1..((Len(a) + Len(b)) + Len(p)) /\ i <= Len(a) /\ i <= Len(a) + Len(b)
    BY <1>6
  <2> QED BY <1>7, <1>8, <2>1
<1>11. ASSUME b # <<>> PROVE Len(a) + 1 \in 1..Len(d) /\ Head(b) = d[Len(a) + 1]
  <2>1. Len(b) > 0 /\ Head(b) = b[1]
    BY <1>5, <1>11
  <2>2. /\ Len(a) + 1 \in 1..(Len(a) + Len(b)) /\ Len(a) + 1 \in 1..((Len(a) + Len(b)) + Len(p))
        /\ ~(Len(a) + 1 <= Len(a)) /\ Len(a) + 1 <= Len(a) + Len(b) /\ (Len(a) + 1) - Len(a) = 1
    BY <1>6, <2>1
  <2> QED BY <1>7, <1>8, <2>1, <2>2
<1> QED BY <1>1, <1>2, <1>4, <1>6, <1>9, <1>10, <1>11

\* The change d is the version j of key k, which was listed.
ListedAs(d, k, j) ==
  /\ j \in 1..Len(source[k]) /\ j \in 1..listed[k]
  /\ IsOf(d, k, source[k][j])

\* A change that was discovered is a version that was listed.
LEMMA DiscoveredIs ==
  ASSUME S3IndInv, NEW i \in 1..Len(discovered)
  PROVE  /\ discovered[i].event.key \in Key
         /\ \E j \in Nat : ListedAs(discovered[i], discovered[i].event.key, j)
<1>0. PICK k \in Key : \E j \in 1..listed[k] : IsOf(discovered[i], k, source[k][j])
  BY DEF S3IndInv, FromListing
<1>1. PICK j \in 1..listed[k] : IsOf(discovered[i], k, source[k][j])
  BY <1>0
<1>2. listed[k] \in Nat /\ listed[k] <= Len(source[k]) /\ Len(source[k]) \in Nat
  BY DEF S3IndInv, StateInv, Numbered
<1>3. j \in 1..Len(source[k]) /\ j \in Nat
  BY <1>2
<1>4. discovered[i].event.key = k
  BY <1>1 DEF IsOf, Event
<1> QED BY <1>1, <1>3, <1>4 DEF ListedAs

\* A copy has the number and the kind of a version that was listed, and was sent.
CopyOf(v, k, i, j) ==
  /\ sent[i].event = Event(k, v)
  /\ j \in 1..Len(source[k]) /\ j \in 1..listed[k]
  /\ source[k][j].id = v.id /\ source[k][j].marker = v.marker

\* Every copy of the target is one.
LEMMA CopyIs ==
  ASSUME S3IndInv, NEW k \in Key, NEW n \in 1..Len(target[k])
  PROVE  \E i \in 1..Len(sent), j \in Nat : CopyOf(target[k][n], k, i, j)
<1>1. PICK i \in 1..Len(sent) : sent[i].event = Event(k, target[k][n])
  BY DEF S3IndInv, Copied
<1>2. i \in 1..Len(discovered) /\ discovered[i] = sent[i]
  BY SentIsHead
<1>3. discovered[i].event = Event(k, target[k][n]) /\ discovered[i].event.key = k
  BY <1>1, <1>2 DEF Event
<1>4. PICK j \in Nat : ListedAs(discovered[i], k, j)
  BY <1>2, <1>3, DiscoveredIs
<1>5. Event(k, target[k][n]) = Event(k, source[k][j])
  BY <1>3, <1>4 DEF ListedAs, IsOf
<1>6. source[k][j].id = target[k][n].id /\ source[k][j].marker = target[k][n].marker
  BY <1>5 DEF Event
<1> QED BY <1>1, <1>4, <1>6 DEF ListedAs, CopyOf

\* Versions are numbered from one.
LEMMA Ids ==
  ASSUME NEW s \in Seq(Version)
  PROVE  \A i \in 1..Len(s) : s[i] \in Version /\ s[i].id \in Nat
<1>1. \A i \in 1..Len(s) : s[i] \in Version
  OBVIOUS
<1>2. \A v \in Version : v.id \in 1..MaxWrites
  BY DEF Version
<1> QED BY <1>1, <1>2

\* Steps that leave both buckets and the queue as they are.
LEMMA LinkKept ==
  ASSUME S3IndInv, StateInv', sched'.pending = sched.pending, sched'.applied = sched.applied,
         UNCHANGED <<source, target, due, writes, failures, paced, listed, lockedLate, discovered, sent>>
  PROVE  S3IndInv'
<1>1. ASSUME NEW x PROVE is_known(sched', x) <=> is_known(sched, x)
  BY DEF is_known, PendingKeys
<1>2. (\A k \in Key : Numbered(k))'
  BY DEF S3IndInv, Numbered
<1>3. Queued'
  BY ZenonT(40), <1>1 DEF S3IndInv, Queued
<1>4. FromListing'
  BY DEF S3IndInv, FromListing
<1>5. AllListed'
  BY <1>1 DEF S3IndInv, AllListed
<1>6. Copied'
  BY DEF S3IndInv, Copied
<1>7. Ordered'
  BY DEF S3IndInv, Ordered, InOrder
<1> QED BY <1>2, <1>3, <1>4, <1>5, <1>6, <1>7 DEF S3IndInv

\* Time, the lag policy and the beginning of a cycle.
LEMMA ClockStep ==
  ASSUME S3IndInv, Tick \/ begin_cycle \/ (\E policy \in Policies : post_lag(policy))
  PROVE  S3IndInv'
<1>1. CASE Tick
  <2>1. StateInv'
    BY <1>1, S3LinkAssumption DEF Tick, S3IndInv, StateInv
  <2> QED BY <1>1, <2>1, LinkKept DEF Tick
<1>2. CASE begin_cycle
  <2>1. PICK s : s = sched
    OBVIOUS
  <2>2. PICK t : t = sched'
    OBVIOUS
  <2>3. s \in Scheduler /\ lag \in Policies /\ now \in 1..MaxTime
    BY <2>1 DEF S3IndInv, StateInv
  <2>4. t = [s EXCEPT !.policy = lag]
    BY <1>2, <2>1, <2>2 DEF begin_cycle, set_policy
  <2>5. t \in Scheduler /\ t.policy \in Policies /\ t.pending = s.pending /\ t.applied = s.applied
    BY <2>3, <2>4, S3LinkAssumption DEF Scheduler
  <2>6. scan' \in [at : 0..MaxTime, todo : SUBSET Key]
    BY <1>2, <2>3, S3LinkAssumption DEF begin_cycle
  <2>7. pc' = "scan" /\ due = <<>> /\ due' = due
    BY <1>2 DEF begin_cycle, S3IndInv, StateInv
  <2>8. StateInv'
    BY <1>2, <2>2, <2>5, <2>6, <2>7 DEF begin_cycle, S3IndInv, StateInv
  <2> QED BY <1>2, <2>1, <2>2, <2>5, <2>8, LinkKept DEF begin_cycle
<1>3. CASE \E policy \in Policies : post_lag(policy)
  <2>1. PICK policy \in Policies : post_lag(policy)
    BY <1>3
  <2>2. StateInv'
    BY <2>1 DEF post_lag, S3IndInv, StateInv
  <2> QED BY <2>1, <2>2, LinkKept DEF post_lag
<1> QED BY <1>1, <1>2, <1>3

\* A put or a delete: the new version is the newest, no copy has its number,
\* and a key that changes once between two listings has only this one unlisted.
LEMMA WriteStep ==
  ASSUME S3IndInv, NEW k \in Key, NEW marker \in BOOLEAN, NEW locks \in SUBSET LockKind,
         client_write(k, marker, locks)
  PROVE  S3IndInv'
<1>1. PICK s : s = source[k]
  OBVIOUS
<1>2. PICK w : w = writes
  OBVIOUS
<1>3. PICK v : v = [id |-> w + 1, marker |-> marker, locks |-> locks]
  OBVIOUS
<1>4. PICK t : t = Append(s, v)
  OBVIOUS
<1>5. /\ s \in Seq(Version) /\ Len(s) \in Nat /\ w \in Nat /\ w < MaxWrites
      /\ source \in [Key -> Seq(Version)]
  BY <1>1, <1>2, S3LinkAssumption DEF S3IndInv, StateInv, client_write
<1>6. v \in Version /\ v.id = w + 1
  BY <1>3, <1>5, S3LinkAssumption DEF Version
<1>7. /\ t \in Seq(Version) /\ Len(t) = Len(s) + 1
      /\ \A i \in 1..Len(s) : t[i] = s[i]
      /\ t[Len(s) + 1] = v
  BY <1>4, <1>5, <1>6, AppendProperties
<1>8. \A i \in 1..Len(t) : i \in 1..Len(s) \/ i = Len(s) + 1
  BY <1>5, <1>7
<1>9. writes' = w + 1 /\ source' = [source EXCEPT ![k] = t]
  BY <1>1, <1>2, <1>3, <1>4 DEF client_write
<1>10. source'[k] = t /\ \A m \in Key : m # k => source'[m] = source[m]
  BY <1>5, <1>9
<1>11. SourceGrows
  <2> SUFFICES ASSUME NEW m \in Key
               PROVE  /\ Len(source[m]) <= Len(source'[m])
                      /\ \A j \in 1..Len(source[m]) : /\ source'[m][j].id = source[m][j].id
                                                      /\ source'[m][j].marker = source[m][j].marker
    BY DEF SourceGrows
  <2>1. CASE m = k
    BY <1>1, <1>5, <1>7, <1>10, <2>1
  <2>2. CASE m # k
    <3>1. Len(source[m]) \in Nat
      BY <1>5
    <3> QED BY <1>10, <2>2, <3>1
  <2> QED BY <2>1, <2>2
<1>12. QueueInv'
  BY <1>11, QueueKept DEF client_write
<1>13. StateInv'
  <2>1. source' \in [Key -> Seq(Version)] /\ writes' \in 0..MaxWrites
    BY <1>5, <1>7, <1>9, S3LinkAssumption
  <2> QED BY <2>1 DEF client_write, S3IndInv, StateInv
<1>14. ASSUME NEW m \in Key PROVE Numbered(m)'
  <2>1. /\ listed[m] \in Nat /\ listed[m] <= Len(source[m]) /\ listed' = listed
        /\ \A i \in 1..Len(source[m]) : source[m][i].id <= w
        /\ \A i, j \in 1..Len(source[m]) : i < j => source[m][i].id < source[m][j].id
    BY <1>2 DEF S3IndInv, StateInv, Numbered, client_write
  <2>2. \A i \in 1..Len(source[m]) : source[m][i].id \in Nat
    <3>1. source[m] \in Seq(Version)
      BY <1>5
    <3> QED BY <3>1, Ids
  <2>3. CASE m # k
    <3>1. \A i \in 1..Len(source[m]) : source[m][i].id <= w + 1
      BY <1>5, <2>1, <2>2
    <3> QED BY <1>9, <1>10, <2>1, <2>3, <3>1 DEF Numbered
  <2>4. CASE m = k
    <3>1. listed'[m] <= Len(t)
      BY <1>1, <1>5, <1>7, <2>1, <2>4
    <3>2. \A i \in 1..Len(t) : t[i].id \in Nat /\ t[i].id <= w + 1
      BY SMTT(30), <1>1, <1>5, <1>6, <1>7, <1>8, <2>1, <2>2, <2>4
    <3>3. ASSUME NEW i \in 1..Len(t), NEW j \in 1..Len(t), i < j PROVE t[i].id < t[j].id
      <4>1. i \in 1..Len(s)
        BY <1>5, <1>7, <3>3
      <4>2. CASE j \in 1..Len(s)
        BY <1>1, <1>7, <2>1, <2>4, <3>3, <4>1, <4>2
      <4>3. CASE j = Len(s) + 1
        <5>1. t[i].id \in Nat /\ t[i].id <= w
          BY <1>1, <1>7, <2>1, <2>2, <2>4, <4>1
        <5>2. t[j].id = w + 1
          BY <1>6, <1>7, <4>3
        <5> QED BY <1>5, <5>1, <5>2
      <4> QED BY <1>8, <4>2, <4>3
    <3> QED BY <1>9, <1>10, <2>4, <3>1, <3>2, <3>3 DEF Numbered
  <2> QED BY <2>3, <2>4
<1>15. Copied'
  BY DEF S3IndInv, Copied, client_write
<1>16. Ordered'
  <2> SUFFICES ASSUME paced'
               PROVE  /\ \A m \in Key : Len(source'[m]) <= listed[m] + 1 /\ InOrder(m)
                      /\ \A i, j \in 1..Len(discovered) :
                           i < j /\ discovered[i].event.key = discovered[j].event.key
                             => discovered[i].event.id < discovered[j].event.id
    BY DEF Ordered, InOrder, client_write
  <2>1. paced
    BY DEF client_write
  <2>2. listed[k] = Len(s)
    BY <1>1, <2>1 DEF client_write
  <2>3. \A m \in Key : Len(source[m]) <= listed[m] + 1
    BY <2>1 DEF S3IndInv, Ordered
  <2>4. \A m \in Key : Len(source'[m]) <= listed[m] + 1
    BY SMTT(30), <1>5, <1>7, <1>10, <2>2, <2>3
  <2> QED BY <2>1, <2>4 DEF S3IndInv, Ordered
<1> QED BY <1>12, <1>13, <1>14, <1>15, <1>16 DEF S3IndInv, QueueInv

\* A retention or a hold on the newest version changes neither number nor kind.
LEMMA LockStep ==
  ASSUME S3IndInv, NEW k \in Key, NEW kind \in LockKind, client_lock(k, kind)
  PROVE  S3IndInv'
<1>1. PICK s : s = source[k]
  OBVIOUS
<1>2. PICK w : w = writes
  OBVIOUS
<1>3. PICK L : L = Len(s)
  OBVIOUS
<1>4. PICK v : v = WithLock(s[L], kind)
  OBVIOUS
<1>5. PICK t : t = [s EXCEPT ![L] = v]
  OBVIOUS
<1>6. /\ s \in Seq(Version) /\ L \in Nat /\ w \in Nat /\ w < MaxWrites
      /\ source \in [Key -> Seq(Version)] /\ s # <<>>
  BY <1>1, <1>2, <1>3, S3LinkAssumption DEF S3IndInv, StateInv, client_lock
<1>7. L \in 1..L /\ Last(source[k]) = s[L] /\ s[L] \in Version
  BY <1>1, <1>3, <1>6 DEF Last
<1>8. v \in Version /\ v.id = s[L].id /\ v.marker = s[L].marker
  BY <1>4, <1>7 DEF WithLock, Version
<1>9. /\ t \in Seq(Version) /\ Len(t) = L /\ t[L] = v
      /\ \A i \in 1..L : i # L => t[i] = s[i]
  BY <1>3, <1>5, <1>6, <1>7, <1>8, ExceptSeq
<1>10. \A i \in 1..L : t[i].id = s[i].id /\ t[i].marker = s[i].marker
  BY <1>8, <1>9
<1>11. writes' = w + 1 /\ source' = [source EXCEPT ![k] = t]
  <2>1. source' = [source EXCEPT ![k] = [source[k] EXCEPT ![Len(source[k])] = WithLock(Last(source[k]), kind)]]
    BY Zenon DEF client_lock
  <2>2. writes' = w + 1
    BY <1>2 DEF client_lock
  <2> QED BY <1>1, <1>3, <1>4, <1>5, <1>7, <2>1, <2>2
<1>12. source'[k] = t /\ \A m \in Key : m # k => source'[m] = source[m]
  BY <1>6, <1>11
<1>13. \A m \in Key : Len(source'[m]) = Len(source[m]) /\ Len(source[m]) \in Nat
  BY <1>1, <1>3, <1>6, <1>9, <1>12
<1>14. \A m \in Key : \A j \in 1..Len(source[m]) : /\ source'[m][j].id = source[m][j].id
                                                   /\ source'[m][j].marker = source[m][j].marker
  BY <1>1, <1>3, <1>10, <1>12
<1>15. SourceGrows
  BY <1>13, <1>14 DEF SourceGrows
<1>16. QueueInv'
  BY <1>15, QueueKept DEF client_lock
<1>17. StateInv'
  <2>1. source' \in [Key -> Seq(Version)] /\ writes' \in 0..MaxWrites
    BY <1>6, <1>9, <1>11, S3LinkAssumption
  <2>2. lockedLate' \subseteq Key \X (1..MaxWrites) \X LockKind
    <3>1. <<k, Last(source[k]).id, kind>> \in Key \X (1..MaxWrites) \X LockKind
      BY <1>7 DEF Version
    <3> QED BY <3>1 DEF client_lock, S3IndInv, StateInv
  <2> QED BY <2>1, <2>2 DEF client_lock, S3IndInv, StateInv
<1>18. ASSUME NEW m \in Key PROVE Numbered(m)'
  <2>1. /\ listed[m] \in Nat /\ listed[m] <= Len(source[m]) /\ listed' = listed
        /\ \A i \in 1..Len(source[m]) : source[m][i].id <= w
        /\ \A i, j \in 1..Len(source[m]) : i < j => source[m][i].id < source[m][j].id
    BY <1>2 DEF S3IndInv, StateInv, Numbered, client_lock
  <2>2. \A i \in 1..Len(source[m]) : source[m][i].id \in Nat
    <3>1. source[m] \in Seq(Version)
      BY <1>6
    <3> QED BY <3>1, Ids
  <2>3. \A i \in 1..Len(source[m]) : source[m][i].id <= w + 1
    BY <1>6, <2>1, <2>2
  <2> QED BY <1>11, <1>13, <1>14, <2>1, <2>3 DEF Numbered
<1>19. Copied'
  BY DEF S3IndInv, Copied, client_lock
<1>20. Ordered'
  BY <1>13 DEF S3IndInv, Ordered, InOrder, client_lock
<1> QED BY <1>16, <1>17, <1>18, <1>19, <1>20 DEF S3IndInv, QueueInv

---------------------------------------------------------------------------
(* The steps of the poller. *)

\* A page of the listing: what it brings was not known and lies beyond what
\* was listed, so it comes after everything of its key.
LEMMA PageStep ==
  ASSUME S3IndInv, NEW k \in Key, list_page(k)
  PROVE  S3IndInv'
<1>1. PICK s : s = sched
  OBVIOUS
<1>2. PICK vs : vs = Listing(k)
  OBVIOUS
<1>3. PICK t : t = DiscoverAll(k, vs)
  OBVIOUS
<1>4. PICK given : given = sent \o due
  OBVIOUS
<1>5. PICK was : was = discovered
  OBVIOUS
<1>6. PICK is : is = discovered'
  OBVIOUS
<1>7. PICK src : src = source[k]
  OBVIOUS
<1>8. PICK n : n = listed[k]
  OBVIOUS
<1>9. /\ s \in Scheduler /\ src \in Seq(Version) /\ Len(src) \in Nat /\ n \in Nat /\ n <= Len(src)
      /\ sent \in Seq(Delivery) /\ due \in Seq(Delivery) /\ listed \in [Key -> Nat]
      /\ \A m \in Key : listed[m] <= Len(source[m])
      /\ was \in Seq(Delivery) /\ Len(was) \in Nat /\ Len(s.pending) \in Nat
  BY <1>1, <1>5, <1>7, <1>8 DEF S3IndInv, StateInv, Numbered, Scheduler
<1>10. given \in Seq(Delivery) /\ was = given \o s.pending
  BY <1>1, <1>4, <1>5, <1>9 DEF S3IndInv, Queued
<1>11. Lists(vs, src)
  BY <1>2, <1>7, <1>9, ListingLists
<1>12. vs \in Seq(Version)
  BY <1>11 DEF Lists
<1>13. Told(t, s, k, vs, Len(vs))
  BY <1>1, <1>3, <1>9, <1>12, PageTells DEF S3IndInv, StateInv
<1>14. t \in Scheduler /\ t.policy = s.policy /\ t.applied = s.applied /\ Len(s.pending) <= Len(t.pending)
       /\ \A i \in 1..Len(s.pending) : t.pending[i] = s.pending[i]
  BY <1>13 DEF Told
<1>15. Len(t.pending) \in Nat
  BY <1>14 DEF Scheduler
<1>16. sched' = t /\ listed' = [listed EXCEPT ![k] = Len(src)]
       /\ UNCHANGED <<source, target, now, lag, pc, due, ended, copying, writes, failures, lockedLate, sent, paced>>
  BY <1>2, <1>3, <1>7 DEF list_page
<1>17. is = was \o SubSeq(t.pending, Len(s.pending) + 1, Len(t.pending))
  BY <1>1, <1>2, <1>3, <1>5, <1>6 DEF list_page, NewlyQueued
<1>18. Longer(given, s, t, was, is)
  BY <1>9, <1>10, <1>14, <1>17, HistoryGrows
<1>19. /\ is = given \o t.pending /\ is \in Seq(Delivery) /\ Len(is) \in Nat
       /\ Len(was) <= Len(is) /\ \A i \in 1..Len(was) : is[i] = was[i]
  <2>1. /\ is = given \o t.pending /\ is \in Seq(Delivery)
        /\ Len(was) <= Len(is) /\ \A i \in 1..Len(was) : is[i] = was[i]
    BY <1>18, Zenon DEF Longer
  <2>2. Len(is) \in Nat
    BY <2>1, LenProperties
  <2> QED BY <2>1, <2>2, Zenon
<1>20. \A i \in 1..Len(is) : i \in 1..Len(was) \/ i \in (Len(was) + 1)..Len(is)
  <2>1. \A a, b \in Nat : a <= b => \A i \in 1..b : i \in 1..a \/ i \in (a + 1)..b
    OBVIOUS
  <2>2. Len(was) \in Nat /\ Len(is) \in Nat /\ Len(was) <= Len(is)
    BY <1>9, <1>19
  <2> QED BY <2>1, <2>2
<1>21. \A i \in (Len(was) + 1)..Len(is) : i \in 1..Len(is)
  BY <1>9, <1>19
<1>22. ASSUME NEW i \in (Len(was) + 1)..Len(is)
       PROVE  ~is_known(s, is[i].key) /\ \E m \in 1..Len(src) : IsOf(is[i], k, src[m])
  <2>1. PICK j : j = (i - Len(was)) + Len(s.pending)
    OBVIOUS
  <2>2. j \in Fresh(s, t) /\ is[i] = t.pending[j]
    BY <1>18, <2>1 DEF Longer
  <2>3. ~is_known(s, is[i].key) /\ \E a \in 1..Len(vs) : IsOf(is[i], k, vs[a])
    BY <1>13, <2>2 DEF Told
  <2>4. PICK a \in 1..Len(vs) : IsOf(is[i], k, vs[a])
    BY <2>3
  <2>5. PICK m \in 1..Len(src) : vs[a] = src[m]
    BY <1>11 DEF Lists
  <2> QED BY <2>3, <2>4, <2>5
<1>23. \A x : is_known(s, x) <=> \E i \in 1..Len(was) : was[i].key = x
  BY <1>1, <1>5 DEF S3IndInv, Queued
<1>24. ASSUME NEW x, is_known(t, x) PROVE is_known(s, x) \/ \E i \in (Len(was) + 1)..Len(is) : is[i].key = x
  <2>1. CASE x \in t.applied
    BY <1>14, <2>1 DEF is_known
  <2>2. CASE \E i \in 1..Len(t.pending) : t.pending[i].key = x
    <3>1. PICK i \in 1..Len(t.pending) : t.pending[i].key = x
      BY <2>2
    <3>2. CASE i <= Len(s.pending)
      <4>1. i \in 1..Len(s.pending)
        BY <1>9, <3>2
      <4>2. s.pending[i].key = x
        BY <1>14, <3>1, <4>1
      <4> QED BY <4>1, <4>2 DEF is_known, PendingKeys
    <3>3. CASE ~(i <= Len(s.pending))
      <4>1. PICK j : j = (i - Len(s.pending)) + Len(was)
        OBVIOUS
      <4>2. Len(was) = Len(given) + Len(s.pending) /\ Len(is) = Len(given) + Len(t.pending) /\ Len(given) \in Nat
        <5>1. s.pending \in Seq(Delivery) /\ t.pending \in Seq(Delivery)
          BY <1>9, <1>14 DEF Scheduler
        <5> QED BY <1>10, <1>19, <5>1, ConcatProperties
      <4>3. j \in (Len(was) + 1)..Len(is) /\ (j - Len(was)) + Len(s.pending) = i
        <5>1. \A g, p, q \in Nat : \A z \in 1..q : ~(z <= p) =>
                /\ (z - p) + (g + p) \in ((g + p) + 1)..(g + q)
                /\ (((z - p) + (g + p)) - (g + p)) + p = z
          OBVIOUS
        <5>2. PICK g \in Nat, p \in Nat, q \in Nat :
                g = Len(given) /\ p = Len(s.pending) /\ q = Len(t.pending)
          BY <1>9, <1>15, <4>2
        <5>3. i \in 1..q /\ ~(i <= p) /\ Len(was) = g + p /\ Len(is) = g + q
          BY <3>3, <4>2, <5>2
        <5>4. /\ (i - p) + (g + p) \in ((g + p) + 1)..(g + q)
              /\ (((i - p) + (g + p)) - (g + p)) + p = i
          BY <5>1, <5>3
        <5> QED BY <4>1, <5>2, <5>3, <5>4
      <4>4. is[j] = t.pending[i]
        BY <1>18, <4>3 DEF Longer
      <4> QED BY <3>1, <4>3, <4>4
    <3> QED BY <3>2, <3>3
  <2> QED BY <1>24, <2>1, <2>2 DEF is_known, PendingKeys
<1>25. ASSUME NEW x, is_known(s, x) PROVE is_known(t, x)
  <2>1. \A i \in 1..Len(s.pending) : i \in 1..Len(t.pending)
    BY <1>9, <1>14, <1>15
  <2> QED BY <1>14, <1>25, <2>1 DEF is_known, PendingKeys
<1>26. ASSUME NEW i \in (Len(was) + 1)..Len(is) PROVE is_known(t, is[i].key)
  <2>1. PICK j : j = (i - Len(was)) + Len(s.pending)
    OBVIOUS
  <2>2. j \in Fresh(s, t) /\ is[i] = t.pending[j]
    BY <1>18, <2>1 DEF Longer
  <2>3. j \in 1..Len(t.pending)
    BY <1>9, <2>2 DEF Fresh
  <2> QED BY <2>2, <2>3 DEF is_known, PendingKeys
<1>27. ASSUME NEW i \in (Len(was) + 1)..Len(is), NEW j \in (Len(was) + 1)..Len(is), is[i].key = is[j].key
       PROVE  i = j
  <2>1. PICK a : a = (i - Len(was)) + Len(s.pending)
    OBVIOUS
  <2>2. PICK b : b = (j - Len(was)) + Len(s.pending)
    OBVIOUS
  <2>3. a \in Fresh(s, t) /\ is[i] = t.pending[a] /\ b \in Fresh(s, t) /\ is[j] = t.pending[b]
    BY <1>18, <2>1, <2>2 DEF Longer
  <2>4. a = b
    BY <1>13, <1>27, <2>3 DEF Told
  <2> QED BY <1>9, <2>1, <2>2, <2>4
<1>28. Queued'
  <2>1. discovered' = sent' \o due' \o sched'.pending
    BY <1>4, <1>6, <1>16, <1>19
  <2>2. ASSUME NEW i \in 1..Len(is), NEW j \in 1..Len(is), is[i].key = is[j].key PROVE i = j
    <3>1. CASE i \in 1..Len(was) /\ j \in 1..Len(was)
      BY ZenonT(40), <1>5, <1>19, <2>2, <3>1 DEF S3IndInv, Queued
    <3>2. CASE i \in 1..Len(was) /\ j \in (Len(was) + 1)..Len(is)
      BY <1>19, <1>22, <1>23, <2>2, <3>2
    <3>3. CASE j \in 1..Len(was) /\ i \in (Len(was) + 1)..Len(is)
      BY <1>19, <1>22, <1>23, <2>2, <3>3
    <3>4. CASE i \in (Len(was) + 1)..Len(is) /\ j \in (Len(was) + 1)..Len(is)
      BY <1>27, <2>2, <3>4
    <3> QED BY <1>20, <3>1, <3>2, <3>3, <3>4
  <2>3. ASSUME NEW x PROVE is_known(t, x) <=> \E i \in 1..Len(is) : is[i].key = x
    <3>1. \A i \in 1..Len(was) : i \in 1..Len(is)
      BY <1>9, <1>19
    <3>2. is_known(s, x) => \E i \in 1..Len(is) : is[i].key = x
      BY <1>19, <1>23, <3>1
    <3>3. is_known(t, x) => \E i \in 1..Len(is) : is[i].key = x
      BY <1>21, <1>24, <3>2
    <3>4. ASSUME NEW i \in 1..Len(is), is[i].key = x PROVE is_known(t, x)
      <4>1. CASE i \in 1..Len(was)
        BY <1>19, <1>23, <1>25, <3>4, <4>1
      <4>2. CASE i \in (Len(was) + 1)..Len(is)
        BY <1>26, <3>4, <4>2
      <4> QED BY <1>20, <4>1, <4>2
    <3> QED BY <3>3, <3>4
  <2>4. \A i, j \in 1..Len(discovered') : discovered'[i].key = discovered'[j].key => i = j
    BY <1>6, <2>2
  <2>5. \A x : is_known(sched', x) <=> \E i \in 1..Len(discovered') : discovered'[i].key = x
    BY <1>6, <1>16, <2>3
  <2> QED BY <2>1, <2>4, <2>5 DEF Queued
<1>29. \A m \in Key : listed'[m] \in Nat /\ listed[m] <= listed'[m] /\ listed'[m] <= Len(source[m])
  BY <1>7, <1>8, <1>9, <1>16
<1>30. listed'[k] = Len(src) /\ \A m \in Key : m # k => listed'[m] = listed[m]
  BY <1>9, <1>16
<1>31. FromListing'
  <2> SUFFICES ASSUME NEW i \in 1..Len(is)
               PROVE  \E m \in Key : \E j \in 1..listed'[m] : IsOf(is[i], m, source[m][j])
    BY <1>6, <1>16 DEF FromListing
  <2>1. CASE i \in 1..Len(was)
    <3>0. PICK m \in Key : \E j \in 1..listed[m] : IsOf(was[i], m, source[m][j])
      BY <1>5, <2>1 DEF S3IndInv, FromListing
    <3>1. PICK j \in 1..listed[m] : IsOf(was[i], m, source[m][j])
      BY <3>0
    <3>2. j \in 1..listed'[m]
      BY <1>9, <1>29
    <3> QED BY <1>19, <2>1, <3>1, <3>2
  <2>2. CASE i \in (Len(was) + 1)..Len(is)
    BY <1>7, <1>22, <1>30, <2>2
  <2> QED BY <1>20, <2>1, <2>2
<1>32. AllListed'
  <2> SUFFICES ASSUME NEW m \in Key, NEW j \in 1..listed'[m] PROVE is_known(t, S3Key(m, source[m][j]))
    BY <1>16 DEF AllListed
  <2>1. CASE m # k
    <3>1. is_known(s, S3Key(m, source[m][j]))
      BY <1>1, <1>30, <2>1 DEF S3IndInv, AllListed
    <3> QED BY <1>25, <3>1
  <2>2. CASE m = k
    <3>1. PICK i \in 1..Len(vs) : vs[i] = src[j]
      BY <1>11, <1>30, <2>2 DEF Lists
    <3> QED BY <1>7, <1>13, <2>2, <3>1 DEF Told
  <2> QED BY <2>1, <2>2
<1>33. StateInv'
  <2>1. scan' \in [at : 0..MaxTime, todo : SUBSET Key]
    <3>1. PICK c : c = scan
      OBVIOUS
    <3>2. c \in [at : 0..MaxTime, todo : SUBSET Key]
      BY <3>1 DEF S3IndInv, StateInv
    <3>3. scan' = [c EXCEPT !.todo = c.todo \ {k}]
      BY <3>1 DEF list_page
    <3> QED BY <3>2, <3>3
  <2>2. listed' \in [Key -> Nat] /\ sched' \in Scheduler /\ sched'.policy \in Policies
    BY <1>1, <1>9, <1>14, <1>16 DEF S3IndInv, StateInv
  <2> QED BY <1>6, <1>16, <1>19, <2>1, <2>2 DEF S3IndInv, StateInv
<1>34. ASSUME NEW m \in Key PROVE Numbered(m)'
  BY <1>16, <1>29 DEF S3IndInv, Numbered
<1>35. Copied'
  BY <1>16 DEF S3IndInv, Copied
<1>36. Ordered'
  <2> SUFFICES ASSUME paced'
               PROVE  /\ \A m \in Key : Len(source[m]) <= listed'[m] + 1 /\ InOrder(m)
                      /\ \A i, j \in 1..Len(is) : i < j /\ is[i].event.key = is[j].event.key
                                                  => is[i].event.id < is[j].event.id
    BY <1>6, <1>16 DEF Ordered, InOrder
  <2>1. /\ \A m \in Key : Len(source[m]) <= listed[m] + 1 /\ InOrder(m)
        /\ \A i, j \in 1..Len(was) : i < j /\ was[i].event.key = was[j].event.key
                                     => was[i].event.id < was[j].event.id
    BY <1>5, <1>16 DEF S3IndInv, Ordered
  <2>2. ASSUME NEW m \in Key PROVE Len(source[m]) <= listed'[m] + 1
    <3>1. listed[m] \in Nat /\ listed'[m] \in Nat /\ Len(source[m]) \in Nat
      BY SMTT(30), <1>9, <1>29 DEF S3IndInv, StateInv
    <3> QED BY <1>29, <2>1, <3>1
  <2>3. ASSUME NEW i \in (Len(was) + 1)..Len(is) PROVE IsOf(is[i], k, src[Len(src)]) /\ n < Len(src)
    <3>1. PICK m \in 1..Len(src) : IsOf(is[i], k, src[m])
      BY <1>22
    <3>2. ~(m \in 1..n)
      <4>1. ~is_known(s, S3Key(k, src[m]))
        BY <1>22, <3>1 DEF IsOf
      <4> QED BY <1>1, <1>7, <1>8, <4>1 DEF S3IndInv, AllListed
    <3>3. Len(src) <= n + 1
      BY <1>7, <1>8, <2>1
    <3>4. m = Len(src) /\ n < Len(src)
      BY <1>9, <3>2, <3>3
    <3> QED BY <3>1, <3>4
  <2>4. ASSUME NEW i \in 1..Len(is), NEW j \in 1..Len(is), i < j, is[i].event.key = is[j].event.key
        PROVE  is[i].event.id < is[j].event.id
    <3>1. CASE j \in 1..Len(was)
      <4>1. i \in 1..Len(was)
        BY <1>9, <2>4, <3>1
      <4> QED BY <1>19, <2>1, <2>4, <3>1, <4>1
    <3>2. CASE j \in (Len(was) + 1)..Len(is) /\ i \in 1..Len(was)
      <4>1. is[i] = was[i] /\ is[j].event.key = k /\ is[j].event.id = src[Len(src)].id /\ n < Len(src)
        BY SMTT(30), <1>19, <2>3, <3>2 DEF IsOf, Event
      <4>2. PICK a \in Nat : ListedAs(was[i], k, a)
        BY <1>5, <2>4, <3>2, <4>1, DiscoveredIs
      <4>3. a \in 1..Len(src) /\ a \in 1..n /\ is[i].event.id = src[a].id
        BY <1>7, <1>8, <4>1, <4>2 DEF ListedAs, IsOf, Event
      <4>4. a < Len(src) /\ Len(src) \in 1..Len(src)
        BY <1>9, <4>1, <4>3
      <4> QED BY <1>7, <4>1, <4>3, <4>4 DEF S3IndInv, Numbered
    <3>3. CASE j \in (Len(was) + 1)..Len(is) /\ i \in (Len(was) + 1)..Len(is)
      <4>1. is[i].key = is[j].key
        BY <2>3, <3>3 DEF IsOf
      <4>2. i = j
        BY <1>27, <3>3, <4>1
      <4> QED BY <1>9, <1>19, <2>4, <4>2
    <3> QED BY <1>20, <3>1, <3>2, <3>3
  <2> QED BY <2>1, <2>2, <2>4
<1> QED BY <1>28, <1>31, <1>32, <1>33, <1>34, <1>35, <1>36 DEF S3IndInv

\* The end of a listing, complete or not, and the changes that are due after it.
LEMMA DrainStep ==
  ASSUME S3IndInv, list_end \/ list_error
  PROVE  S3IndInv'
<1>1. /\ pc = "scan" /\ Drain /\ failures' \in 0..MaxFailures /\ (failures' = 0 => failures = 0)
  BY S3LinkAssumption DEF list_end, list_error, S3IndInv, StateInv
<1>2. PICK s : s = sched
  OBVIOUS
<1>3. PICK e : e = drain_due(s, now)
  OBVIOUS
<1>4. PICK d : d = drained(s, now)
  OBVIOUS
<1>5. s \in Scheduler /\ now \in Nat /\ s.policy \in Policies /\ due = <<>> /\ sent \in Seq(Delivery)
  BY <1>1, <1>2, S3LinkAssumption DEF S3IndInv, StateInv
<1>6. Gave(s, e, d)
  BY <1>3, <1>4, <1>5, DrainGives
<1>7. sched' = e /\ due' = d
  BY <1>1, <1>2, <1>3, <1>4 DEF Drain
<1>8. UNCHANGED <<source, target, now, lag, copying, writes, listed, lockedLate, discovered, sent, paced>>
  BY <1>1 DEF Drain
<1>9. StateInv'
  <2>1. scan' \in [at : 0..MaxTime, todo : SUBSET Key]
    BY <1>1, S3LinkAssumption DEF Drain, NoScan
  <2>2. e \in Scheduler /\ e.policy \in Policies /\ d \in Seq(Delivery)
    BY <1>5, <1>6 DEF Gave
  <2>3. ended' \in 0..MaxTime
    BY <1>1, S3LinkAssumption DEF Drain, S3IndInv, StateInv
  <2>4. pc' \in {"idle", "scan", "apply"} /\ (pc' = "apply" <=> due' # <<>>)
    <3>1. IF d = <<>> THEN pc' = "idle" ELSE pc' = "apply"
      BY <1>1, <1>2, <1>4 DEF Drain
    <3> QED BY <1>7, <3>1
  <2> QED BY <1>1, <1>7, <1>8, <2>1, <2>2, <2>3, <2>4 DEF S3IndInv, StateInv
<1>10. Queued'
  <2>1. discovered = sent \o s.pending
    <3>1. sent \o <<>> = sent
      BY <1>5, ConcatEmptySeq
    <3> QED BY <1>2, <1>5, <3>1 DEF S3IndInv, Queued
  <2>2. (sent \o d) \o e.pending = sent \o (d \o e.pending)
    <3>1. d \in Seq(Delivery) /\ e.pending \in Seq(Delivery)
      BY <1>6 DEF Gave, Scheduler
    <3>2. PICK a \in Seq(Delivery) : a = sent
      BY <1>5
    <3>3. PICK b \in Seq(Delivery) : b = e.pending
      BY <3>1
    <3>4. (a \o d) \o b = a \o (d \o b)
      BY SMTT(30), <3>1, ConcatAssociative
    <3> QED BY <3>2, <3>3, <3>4
  <2>3. discovered' = sent' \o due' \o sched'.pending
    BY <1>6, <1>7, <1>8, <2>1, <2>2 DEF Gave
  <2>4. \A x : is_known(sched', x) <=> \E i \in 1..Len(discovered) : discovered[i].key = x
    BY <1>2, <1>6, <1>7 DEF S3IndInv, Queued, Gave
  <2>5. \A i, j \in 1..Len(discovered) : discovered[i].key = discovered[j].key => i = j
    BY DEF S3IndInv, Queued
  <2> QED BY <1>8, <2>3, <2>4, <2>5 DEF Queued
<1>11. FromListing'
  BY <1>8 DEF S3IndInv, FromListing
<1>12. AllListed'
  <2> SUFFICES ASSUME NEW k \in Key, NEW j \in 1..listed[k] PROVE is_known(e, S3Key(k, source[k][j]))
    BY <1>7, <1>8 DEF AllListed
  <2>1. is_known(s, S3Key(k, source[k][j]))
    BY <1>2 DEF S3IndInv, AllListed
  <2> QED BY <1>6, <2>1 DEF Gave
<1>13. (\A k \in Key : Numbered(k))'
  BY <1>8 DEF S3IndInv, Numbered
<1>14. Copied'
  BY <1>1, <1>8 DEF S3IndInv, Copied
<1>15. Ordered'
  BY <1>8 DEF S3IndInv, Ordered, InOrder
<1> QED BY <1>9, <1>10, <1>11, <1>12, <1>13, <1>14, <1>15 DEF S3IndInv

\* A batch with its head handed over is the same batch.
LEMMA HandOver ==
  ASSUME NEW a \in Seq(Delivery), NEW b \in Seq(Delivery), b # <<>>
  PROVE  Append(a, Head(b)) \o Tail(b) = a \o b
<1>1. PICK h : h = Head(b)
  OBVIOUS
<1>2. PICK r : r = Tail(b)
  OBVIOUS
<1>3. PICK x : x = Append(a, h)
  OBVIOUS
<1>4. /\ Len(a) \in Nat /\ Len(b) \in Nat /\ Len(b) > 0 /\ h \in Delivery /\ h = b[1]
      /\ r \in Seq(Delivery) /\ Len(r) = Len(b) - 1 /\ \A i \in 1..Len(r) : r[i] = b[i + 1]
  BY <1>1, <1>2, HeadTailProperties
<1>5. /\ x \in Seq(Delivery) /\ Len(x) = Len(a) + 1
      /\ \A i \in 1..Len(a) : x[i] = a[i]
      /\ x[Len(a) + 1] = h
  BY <1>3, <1>4, AppendProperties
<1>6. PICK y : y = x \o r
  OBVIOUS
<1>7. PICK z : z = a \o b
  OBVIOUS
<1>8. /\ y \in Seq(Delivery) /\ Len(y) = Len(x) + Len(r)
      /\ \A i \in 1..(Len(x) + Len(r)) : y[i] = IF i <= Len(x) THEN x[i] ELSE r[i - Len(x)]
  BY <1>4, <1>5, <1>6, ConcatProperties
<1>9. /\ z \in Seq(Delivery) /\ Len(z) = Len(a) + Len(b)
      /\ \A i \in 1..(Len(a) + Len(b)) : z[i] = IF i <= Len(a) THEN a[i] ELSE b[i - Len(a)]
  BY <1>7, ConcatProperties
<1>10. Len(y) = Len(z) /\ Len(x) + Len(r) = Len(a) + Len(b)
  BY <1>4, <1>5, <1>8, <1>9
<1>11. ASSUME NEW i \in 1..Len(z) PROVE y[i] = z[i]
  <2>0. i \in 1..(Len(a) + Len(b)) /\ i \in 1..(Len(x) + Len(r))
    BY <1>9, <1>10
  <2>1. CASE i <= Len(a)
    <3>1. i \in 1..Len(a) /\ i <= Len(x)
      BY <1>4, <1>5, <2>0, <2>1
    <3> QED BY <1>5, <1>8, <1>9, <2>0, <2>1, <3>1
  <2>2. CASE i = Len(a) + 1
    <3>1. i <= Len(x) /\ ~(i <= Len(a)) /\ i - Len(a) = 1
      BY <1>4, <1>5, <2>2
    <3> QED BY <1>4, <1>5, <1>8, <1>9, <2>0, <2>2, <3>1
  <2>3. CASE i > Len(a) + 1
    <3>1. /\ ~(i <= Len(x)) /\ ~(i <= Len(a)) /\ i - Len(x) \in 1..Len(r) /\ (i - Len(x)) + 1 = i - Len(a)
      BY <1>4, <1>5, <2>0, <2>3
    <3>2. y[i] = r[i - Len(x)] /\ z[i] = b[i - Len(a)]
      BY <1>8, <1>9, <2>0, <3>1
    <3>3. r[i - Len(x)] = b[(i - Len(x)) + 1]
      BY <1>4, <3>1
    <3> QED BY <3>1, <3>2, <3>3
  <2> QED BY <1>4, <2>1, <2>2, <2>3
<1>12. y = z
  BY <1>8, <1>9, <1>10, <1>11, SeqEqual
<1> QED BY <1>1, <1>2, <1>3, <1>6, <1>7, <1>12

\* The part of the invariant that a change handed over does not touch the target for.
HandedInv ==
  /\ (\A k \in Key : Numbered(k)) /\ QueueInv
  /\ now \in 1..MaxTime /\ lag \in Policies /\ sched \in Scheduler /\ sched.policy \in Policies
  /\ source \in [Key -> Seq(Version)]
  /\ pc \in {"idle", "scan", "apply"} /\ (pc = "apply" <=> due # <<>>)
  /\ scan \in [at : 0..MaxTime, todo : SUBSET Key] /\ ended \in 0..MaxTime
  /\ writes \in 0..MaxWrites /\ paced \in BOOLEAN
  /\ listed \in [Key -> Nat] /\ lockedLate \subseteq Key \X (1..MaxWrites) \X LockKind
  /\ copying \in Copying
  /\ due \in Seq(Delivery) /\ sent \in Seq(Delivery) /\ discovered \in Seq(Delivery)

\* The rest of the batch, after its head was handed over.
LEMMA NextDueKeeps ==
  ASSUME S3IndInv, pc = "apply", NextDue
  PROVE  HandedInv'
<1>1. PICK a : a = sent
  OBVIOUS
<1>2. PICK b : b = due
  OBVIOUS
<1>3. PICK h : h = Head(b)
  OBVIOUS
<1>4. PICK r : r = Tail(b)
  OBVIOUS
<1>5. a \in Seq(Delivery) /\ b \in Seq(Delivery) /\ b # <<>>
  BY <1>1, <1>2 DEF S3IndInv, StateInv
<1>6. /\ h \in Delivery /\ r \in Seq(Delivery) /\ Len(r) = Len(b) - 1 /\ Len(b) \in Nat /\ Len(b) > 0
  BY <1>3, <1>4, <1>5, HeadTailProperties
<1>7. sent' = Append(a, h) /\ due' = r
      /\ UNCHANGED <<source, now, lag, sched, scan, writes, listed, lockedLate, discovered, paced>>
  BY <1>1, <1>2, <1>3, <1>4 DEF NextDue
<1>8. sent' \in Seq(Delivery) /\ due' \in Seq(Delivery)
  BY <1>5, <1>6, <1>7
<1>9. pc' \in {"idle", "scan", "apply"} /\ (pc' = "apply" <=> due' # <<>>)
  <2>1. Len(r) = 0 <=> r = <<>>
    BY <1>6, EmptySeq
  <2>2. CASE Len(b) = 1
    BY <1>2, <1>6, <1>7, <2>1, <2>2 DEF NextDue
  <2>3. CASE Len(b) # 1
    <3>1. r # <<>>
      BY <1>6, <2>1, <2>3
    <3>2. pc' = "apply"
      BY <1>2, <2>3 DEF NextDue
    <3> QED BY <1>7, <3>1, <3>2
  <2> QED BY <2>2, <2>3
<1>10. ended' \in 0..MaxTime
  BY S3LinkAssumption DEF NextDue, S3IndInv, StateInv
<1>11. Queued'
  <2>1. Append(a, h) \o r = a \o b
    BY <1>3, <1>4, <1>5, HandOver
  <2>2. discovered' = sent' \o due' \o sched'.pending
    BY <1>1, <1>2, <1>7, <2>1 DEF S3IndInv, Queued
  <2>3. /\ \A i, j \in 1..Len(discovered) : discovered[i].key = discovered[j].key => i = j
        /\ \A x : is_known(sched, x) <=> \E i \in 1..Len(discovered) : discovered[i].key = x
    BY DEF S3IndInv, Queued
  <2> QED BY <1>7, <2>2, <2>3 DEF Queued
<1>12. FromListing'
  BY <1>7 DEF S3IndInv, FromListing
<1>13. AllListed'
  BY <1>7 DEF S3IndInv, AllListed
<1>14. (\A k \in Key : Numbered(k))'
  BY <1>7 DEF S3IndInv, Numbered
<1>15. copying' \in Copying
  BY DEF NextDue, NoCopy, Copying
<1> QED BY <1>7, <1>8, <1>9, <1>10, <1>11, <1>12, <1>13, <1>14, <1>15 DEF HandedInv, QueueInv, S3IndInv, StateInv

\* The change that is handed over comes after all that were.
LEMMA HandedOver ==
  ASSUME S3IndInv, pc = "apply", NextDue
  PROVE  /\ Head(due) \in Delivery /\ Len(sent) \in Nat
         /\ Head(due) = discovered[Len(sent) + 1] /\ Len(sent) + 1 \in 1..Len(discovered)
         /\ sent' \in Seq(Delivery) /\ Len(sent') = Len(sent) + 1
         /\ \A i \in 1..Len(sent) : sent'[i] = sent[i] /\ sent[i] = discovered[i]
         /\ sent'[Len(sent) + 1] = Head(due)
<1>1. sent \in Seq(Delivery) /\ due \in Seq(Delivery) /\ due # <<>>
  BY DEF S3IndInv, StateInv
<1>2. PICK a : a = sent
  OBVIOUS
<1>3. PICK h : h = Head(due)
  OBVIOUS
<1>4. h \in Delivery /\ a \in Seq(Delivery)
  BY <1>1, <1>2, <1>3, HeadTailProperties
<1>5. sent' = Append(a, h)
  BY <1>2, <1>3 DEF NextDue
<1>6. /\ sent' \in Seq(Delivery) /\ Len(sent') = Len(a) + 1
      /\ \A i \in 1..Len(a) : sent'[i] = a[i]
      /\ sent'[Len(a) + 1] = h
  BY <1>4, <1>5, AppendProperties
<1> QED BY <1>1, <1>2, <1>3, <1>4, <1>6, SentIsHead

\* A change that is put: the copy has the number of the change, which is the
\* highest of its key when changes are paced.
LEMMA PutKeeps ==
  ASSUME S3IndInv, pc = "apply", NextDue, failures' \in 0..MaxFailures, failures' = 0 => failures = 0,
         NEW b \in SUBSET LockKind, Put(b)
  PROVE  S3IndInv'
<1>1. PICK e : e = Head(due).event
  OBVIOUS
<1>2. PICK k : k = e.key
  OBVIOUS
<1>3. PICK c : c = [id |-> e.id, marker |-> e.marker, locks |-> b]
  OBVIOUS
<1>4. PICK t : t = target[k]
  OBVIOUS
<1>5. PICK u : u = Append(t, c)
  OBVIOUS
<1>6. PICK n : n = Len(sent)
  OBVIOUS
<1>7. e \in Change /\ k \in Key
  BY <1>1, <1>2, HandedOver DEF Delivery, Change
<1>8. target \in [Key -> Seq(Version)] /\ source \in [Key -> Seq(Version)]
  BY DEF S3IndInv, StateInv
<1>9. t \in Seq(Version) /\ Len(t) \in Nat
  BY <1>4, <1>7, <1>8
<1>10. c \in Version /\ c.id = e.id /\ c.marker = e.marker /\ c.id \in Nat
  BY <1>3, <1>7, S3LinkAssumption DEF Change, Version
<1>11. /\ u \in Seq(Version) /\ Len(u) = Len(t) + 1
       /\ \A i \in 1..Len(t) : u[i] = t[i]
       /\ u[Len(t) + 1] = c
  BY <1>5, <1>9, <1>10, AppendProperties
<1>12. \A i \in 1..Len(u) : i \in 1..Len(t) \/ i = Len(t) + 1
  BY <1>9, <1>11
<1>13. target' = [target EXCEPT ![k] = u]
  BY <1>1, <1>2, <1>3, <1>4, <1>5 DEF Put
<1>14. target'[k] = u /\ \A m \in Key : m # k => target'[m] = target[m]
  BY <1>7, <1>8, <1>13
<1>15. HandedInv'
  BY NextDueKeeps
<1>16. UNCHANGED <<source, now, lag, sched, scan, writes, listed, lockedLate, discovered, paced>>
  BY DEF NextDue
<1>17. /\ n \in Nat /\ Len(sent') = n + 1 /\ sent'[n + 1].event = e /\ discovered[n + 1].event = e
       /\ n + 1 \in 1..Len(discovered)
       /\ \A i \in 1..n : sent'[i] = sent[i] /\ sent[i] = discovered[i]
  BY <1>1, <1>6, HandedOver
<1>18. \A i \in 1..n : i \in 1..Len(sent') /\ i \in 1..Len(discovered) /\ i < n + 1
  BY <1>17, HandedOver, SentIsHead
<1>19. StateInv'
  <2>1. target' \in [Key -> Seq(Version)]
    BY <1>8, <1>11, <1>13
  <2> QED BY <1>15, <2>1 DEF HandedInv, StateInv
<1>20. Event(k, c) = e
  BY <1>2, <1>7, <1>10 DEF Event, Change
<1>21. ASSUME NEW m \in Key, NEW j \in 1..Len(target'[m])
       PROVE  \E i \in 1..Len(sent') : sent'[i].event = Event(m, target'[m][j])
  <2>1. CASE m # k
    <3>1. target'[m] = target[m] /\ j \in 1..Len(target[m])
      BY <1>14, <2>1
    <3>2. PICK i \in 1..n : sent[i].event = Event(m, target[m][j])
      BY <1>6, <3>1 DEF S3IndInv, Copied
    <3> QED BY <1>17, <1>18, <3>1, <3>2
  <2>2. CASE m = k /\ j \in 1..Len(t)
    <3>1. target'[m][j] = target[k][j]
      BY <1>4, <1>11, <1>14, <2>2
    <3>2. PICK i \in 1..n : sent[i].event = Event(k, target[k][j])
      BY <1>4, <1>6, <1>7, <2>2 DEF S3IndInv, Copied
    <3> QED BY <1>17, <1>18, <2>2, <3>1, <3>2
  <2>3. CASE m = k /\ j = Len(t) + 1
    <3>1. target'[m][j] = c /\ n + 1 \in 1..Len(sent')
      BY <1>11, <1>14, <1>17, <2>3
    <3> QED BY <1>17, <1>20, <2>3, <3>1
  <2> QED BY <1>12, <1>14, <2>1, <2>2, <2>3
<1>22. ASSUME failures' = 0, NEW i \in 1..Len(sent')
       PROVE  \E j \in 1..Len(target'[sent'[i].event.key]) :
                target'[sent'[i].event.key][j].id = sent'[i].event.id
  <2>1. failures = 0
    BY <1>22
  <2>2. i \in 1..n \/ i = n + 1
    BY <1>17
  <2>3. CASE i \in 1..n
    <3>1. PICK m : m = sent[i].event.key
      OBVIOUS
    <3>2. m \in Key
      <4>1. discovered[i].event.key \in Key
        BY <1>18, <2>3, DiscoveredIs
      <4> QED BY <1>17, <2>3, <3>1, <4>1
    <3>3. PICK j \in 1..Len(target[m]) : target[m][j].id = sent[i].event.id
      BY <1>6, <2>1, <2>3, <3>1 DEF S3IndInv, Copied
    <3>4. j \in 1..Len(target'[m]) /\ target'[m][j] = target[m][j]
      <4>1. CASE m = k
        BY <1>4, <1>9, <1>11, <1>14, <4>1
      <4>2. CASE m # k
        BY <1>14, <3>2, <4>2
      <4> QED BY <4>1, <4>2
    <3>5. sent'[i] = sent[i]
      BY <1>17, <2>3
    <3> QED BY <3>1, <3>3, <3>4, <3>5
  <2>4. CASE i = n + 1
    <3>1. Len(t) + 1 \in 1..Len(u) /\ u[Len(t) + 1].id = e.id
      BY <1>9, <1>10, <1>11
    <3>2. sent'[i].event = e /\ sent'[i].event.key = k
      BY <1>2, <1>17, <2>4
    <3> QED BY <1>14, <3>1, <3>2
  <2> QED BY <2>2, <2>3, <2>4
<1>23. Copied'
  BY <1>21, <1>22 DEF Copied
<1>24. Ordered'
  <2> SUFFICES ASSUME paced'
               PROVE  /\ \A m \in Key : /\ Len(source[m]) <= listed[m] + 1
                                        /\ \A i, j \in 1..Len(target'[m]) :
                                             i < j => target'[m][i].id < target'[m][j].id
                      /\ \A i, j \in 1..Len(discovered) :
                           i < j /\ discovered[i].event.key = discovered[j].event.key
                             => discovered[i].event.id < discovered[j].event.id
    BY <1>16 DEF Ordered, InOrder
  <2>1. /\ \A m \in Key : Len(source[m]) <= listed[m] + 1
        /\ \A m \in Key : \A i, j \in 1..Len(target[m]) : i < j => target[m][i].id < target[m][j].id
        /\ \A i, j \in 1..Len(discovered) :
             i < j /\ discovered[i].event.key = discovered[j].event.key
               => discovered[i].event.id < discovered[j].event.id
    BY <1>16 DEF S3IndInv, Ordered, InOrder
  <2>2. ASSUME NEW i \in 1..Len(t) PROVE t[i].id < c.id
    <3>1. PICK a \in 1..n : sent[a].event = Event(k, t[i])
      BY <1>4, <1>6, <1>7 DEF S3IndInv, Copied
    <3>2. discovered[a].event.key = k /\ discovered[a].event.id = t[i].id
      BY <1>17, <3>1 DEF Event
    <3> QED BY <1>2, <1>10, <1>17, <1>18, <2>1, <3>2
  <2>3. ASSUME NEW m \in Key, NEW i \in 1..Len(target'[m]), NEW j \in 1..Len(target'[m]), i < j
        PROVE  target'[m][i].id < target'[m][j].id
    <3>1. CASE m # k
      BY <1>14, <2>1, <2>3, <3>1
    <3>2. CASE m = k
      <4>1. target'[m] = u /\ i \in 1..Len(t)
        BY <1>9, <1>11, <1>14, <2>3, <3>2
      <4>2. CASE j \in 1..Len(t)
        BY <1>4, <1>11, <2>1, <2>3, <3>2, <4>1, <4>2
      <4>3. CASE j = Len(t) + 1
        BY <1>11, <2>2, <4>1, <4>3
      <4> QED BY <1>12, <4>1, <4>2, <4>3
    <3> QED BY <3>1, <3>2
  <2> QED BY <2>1, <2>3
<1> QED BY <1>15, <1>19, <1>23, <1>24 DEF S3IndInv, HandedInv, QueueInv

\* A change whose put failed is counted, and that is all.
LEMMA LostKeeps ==
  ASSUME S3IndInv, pc = "apply", NextDue, failures' \in 0..MaxFailures, failures' # 0, UNCHANGED target
  PROVE  S3IndInv'
<1>1. HandedInv'
  BY NextDueKeeps
<1>2. UNCHANGED <<source, lockedLate, paced, discovered, listed, target>>
  BY DEF NextDue
<1>3. StateInv'
  BY <1>1, <1>2 DEF HandedInv, StateInv, S3IndInv
<1>4. Copied'
  <2> SUFFICES ASSUME NEW k \in Key, NEW j \in 1..Len(target[k])
               PROVE  \E i \in 1..Len(sent') : sent'[i].event = Event(k, target[k][j])
    BY <1>2 DEF Copied
  <2>1. PICK i \in 1..Len(sent) : sent[i].event = Event(k, target[k][j])
    BY DEF S3IndInv, Copied
  <2>2. i \in 1..Len(sent') /\ sent'[i] = sent[i]
    BY HandedOver
  <2> QED BY <2>1, <2>2
<1>5. Ordered'
  BY <1>2 DEF S3IndInv, Ordered, InOrder
<1> QED BY <1>1, <1>3, <1>4, <1>5 DEF S3IndInv, HandedInv, QueueInv

\* The steps that hand a change over.
LEMMA ApplyStep ==
  ASSUME S3IndInv, delete_object \/ put_object \/ apply_failed
  PROVE  S3IndInv'
<1>1. PICK b : b = copying.locks
  OBVIOUS
<1>2. failures \in 0..MaxFailures /\ MaxFailures \in Nat /\ b \in SUBSET LockKind
  BY <1>1, S3LinkAssumption DEF S3IndInv, StateInv, Copying
<1>3. CASE delete_object
  <2>1. pc = "apply" /\ NextDue /\ Put({}) /\ failures' = failures
    BY <1>3, Zenon DEF delete_object
  <2> QED BY <1>2, <2>1, PutKeeps
<1>4. CASE put_object
  <2>1. pc = "apply" /\ NextDue /\ Put(b) /\ failures' = failures
    BY <1>1, <1>4, Zenon DEF put_object
  <2> QED BY <1>2, <2>1, PutKeeps
<1>5. CASE apply_failed
  <2>1. /\ pc = "apply" /\ NextDue /\ (Put({}) \/ Put(b) \/ UNCHANGED target)
    BY <1>1, <1>5, Zenon DEF apply_failed
  <2>2. failures' \in 0..MaxFailures /\ failures' # 0
    BY <1>2, <1>5 DEF apply_failed
  <2>3. CASE Put({})
    BY <2>1, <2>2, <2>3, PutKeeps
  <2>4. CASE Put(b)
    BY <1>2, <2>1, <2>2, <2>4, PutKeeps
  <2>5. CASE UNCHANGED target
    BY <2>1, <2>2, <2>5, LostKeeps
  <2> QED BY <2>1, <2>3, <2>4, <2>5
<1> QED BY <1>3, <1>4, <1>5

\* What a request to the source may do: it is answered, or fails.
Asks(next, locks) ==
  /\ pc = "apply" /\ next \in {"retention", "legal_hold", "put"} /\ locks \subseteq LockKind
  /\ Answered(next, locks)
  /\ failures' \in 0..MaxFailures /\ (failures' = 0 => failures = 0)

\* The three requests to the source.
LEMMA AskSteps ==
  ASSUME S3IndInv, get_object \/ get_object_retention \/ get_object_legal_hold
  PROVE  \E next, locks : Asks(next, locks)
<1>1. failures \in 0..MaxFailures /\ MaxFailures \in Nat
  BY S3LinkAssumption DEF S3IndInv, StateInv
<1>2. CASE get_object
  <2>1. Asks("retention", {})
    BY <1>1, <1>2 DEF get_object, Asks
  <2> QED BY <2>1
<1>3. ASSUME NEW kind \in LockKind, NEW next \in {"legal_hold", "put"}, pc = "apply", LockAnswer(kind, next)
      PROVE  \E locks : Asks(next, locks)
  <2>1. PICK a : a = {x \in {kind} : HasLock(Head(due).event, x)}
    OBVIOUS
  <2>2. a \subseteq LockKind
    BY <2>1
  <2>3. CASE Answered(next, a) /\ UNCHANGED failures
    BY <1>1, <1>3, <2>2, <2>3 DEF Asks
  <2>4. CASE failures < MaxFailures /\ failures' = failures + 1 /\ Answered(next, {})
    <3>1. failures' \in 0..MaxFailures /\ failures' # 0
      BY <1>1, <2>4
    <3> QED BY <1>3, <2>4, <3>1 DEF Asks
  <2> QED BY <1>3, <2>1, <2>3, <2>4, Zenon DEF LockAnswer
<1>4. CASE get_object_retention
  BY <1>3, <1>4 DEF get_object_retention, LockKind
<1>5. CASE get_object_legal_hold
  BY <1>3, <1>5 DEF get_object_legal_hold, LockKind
<1> QED BY <1>2, <1>4, <1>5

\* A request to the source changes nothing but what apply_one knows.
LEMMA AskStep ==
  ASSUME S3IndInv, NEW next, NEW locks, Asks(next, locks)
  PROVE  S3IndInv'
<1>1. PICK c : c = copying
  OBVIOUS
<1>2. PICK d : d = copying'
  OBVIOUS
<1>3. c \in Copying
  BY <1>1 DEF S3IndInv, StateInv
<1>4. d = [next |-> next, locks |-> c.locks \cup locks]
  BY <1>1, <1>2 DEF Asks, Answered
<1>5. d \in Copying
  BY <1>3, <1>4 DEF Asks, Copying
<1>6. StateInv'
  BY <1>2, <1>5 DEF Asks, Answered, S3IndInv, StateInv
<1>7. \A k \in Key : Numbered(k)'
  BY DEF Asks, Answered, S3IndInv, Numbered
<1>8. Queued' /\ FromListing' /\ AllListed' /\ Ordered'
  BY DEF Asks, Answered, S3IndInv, Queued, FromListing, AllListed, Ordered, InOrder
<1>9. Copied'
  BY DEF Asks, Answered, S3IndInv, Copied
<1> QED BY <1>6, <1>7, <1>8, <1>9 DEF S3IndInv

---------------------------------------------------------------------------
(* The locks: a second invariant, which rests on the first. *)

\* The version with number id has the lock x in s.
LockedIn(s, id, x) == \E i \in 1..Len(s) : s[i].id = id /\ x \in s[i].locks

\* What LocksCarried says of the lock x of version id of key k, when its versions
\* are s and the copy has the locks in has.
Kept(x, k, id, s, has, late, failed) ==
  /\ x \in has => LockedIn(s, id, x)
  /\ failed = 0 /\ LockedIn(s, id, x) => x \in has \/ <<k, id, x>> \in late

\* It holds of every copy.
CopiesKept ==
  \A k \in Key : \A n \in 1..Len(target[k]) : \A x \in LockKind :
    Kept(x, k, target[k][n].id, source[k], target[k][n].locks, lockedLate, failures)

\* It holds of the version that is being copied, for each lock that was asked for.
UnderWay ==
  pc = "apply" => \A x \in LockKind :
    IF Asked(x)
    THEN Kept(x, Head(due).event.key, Head(due).event.id, source[Head(due).event.key],
              copying.locks, lockedLate, failures)
    ELSE x \notin copying.locks

\* A delete marker has no lock.
Bare == \A k \in Key : \A i \in 1..Len(source[k]) : source[k][i].marker => source[k][i].locks = {}

LocksInv == CopiesKept /\ UnderWay /\ Bare /\ (pc # "apply" => copying = NoCopy)

\* The change at the head of the batch is a version of its key.
LEMMA HeadIs ==
  ASSUME S3IndInv, pc = "apply"
  PROVE  /\ Head(due).event.key \in Key
         /\ \E j \in 1..Len(source[Head(due).event.key]) :
              /\ source[Head(due).event.key][j].id = Head(due).event.id
              /\ source[Head(due).event.key][j].marker = Head(due).event.marker
<1>1. PICK i : i = Len(sent) + 1
  OBVIOUS
<1>2. due # <<>>
  BY DEF S3IndInv, StateInv
<1>3. i \in 1..Len(discovered) /\ Head(due) = discovered[i]
  BY <1>1, <1>2, SentIsHead
<1>4. PICK e : e = discovered[i].event
  OBVIOUS
<1>5. PICK j \in Nat : ListedAs(discovered[i], e.key, j)
  BY <1>3, <1>4, DiscoveredIs
<1>6. e.key \in Key
  BY <1>3, <1>4, DiscoveredIs
<1>7. j \in 1..Len(source[e.key]) /\ e = Event(e.key, source[e.key][j])
  BY <1>4, <1>5 DEF ListedAs, IsOf
<1>8. source[e.key][j].id = e.id /\ source[e.key][j].marker = e.marker
  BY <1>7 DEF Event
<1> QED BY <1>3, <1>4, <1>6, <1>7, <1>8

\* HasLock looks for the version with the number of the change.
LEMMA HasLockMeans ==
  ASSUME NEW e, NEW x, source[e.key] \in Seq(Version)
  PROVE  HasLock(e, x) <=> LockedIn(source[e.key], e.id, x)
<1>1. DOMAIN source[e.key] = 1..Len(source[e.key])
  OBVIOUS
<1> QED BY <1>1 DEF HasLock, LockedIn

\* A write leaves the locks of the versions that are there as they are.
LEMMA WriteKeeps ==
  ASSUME S3IndInv, NEW k \in Key, NEW marker \in BOOLEAN, NEW locks \in SUBSET LockKind,
         client_write(k, marker, locks),
         NEW m \in Key, NEW j \in 1..Len(source[m]), NEW x, NEW has, NEW id, id = source[m][j].id,
         Kept(x, m, id, source[m], has, lockedLate, failures)
  PROVE  Kept(x, m, id, source'[m], has, lockedLate', failures')
<1>1. PICK s : s = source[k]
  OBVIOUS
<1>2. PICK v : v = [id |-> writes + 1, marker |-> marker, locks |-> locks]
  OBVIOUS
<1>3. PICK t : t = Append(s, v)
  OBVIOUS
<1>4. source \in [Key -> Seq(Version)] /\ s \in Seq(Version) /\ Len(s) \in Nat /\ writes \in Nat
  BY <1>1, S3LinkAssumption DEF S3IndInv, StateInv
<1>5. /\ Len(t) = Len(s) + 1
      /\ \A i \in 1..Len(s) : t[i] = s[i]
      /\ t[Len(s) + 1] = v
  BY <1>3, <1>4
<1>6. source' = [source EXCEPT ![k] = t] /\ lockedLate' = lockedLate /\ failures' = failures
  BY <1>1, <1>2, <1>3 DEF client_write
<1>7. CASE m # k
  <2>1. source'[m] = source[m]
    BY <1>4, <1>6, <1>7
  <2> QED BY <1>6, <2>1
<1>8. CASE m = k
  <2>1. id \in Nat /\ id <= writes
    <3>1. source[m] \in Seq(Version)
      BY <1>4
    <3>2. source[m][j].id \in Nat
      BY <3>1, Ids
    <3> QED BY <3>2 DEF S3IndInv, Numbered
  <2>2. v.id # id
    BY <1>2, <1>4, <2>1
  <2>3. \A i \in 1..Len(t) : i \in 1..Len(s) \/ i = Len(s) + 1
    BY <1>4, <1>5
  <2>4. \A i \in 1..Len(s) : i \in 1..Len(t)
    BY <1>4, <1>5
  <2>5. LockedIn(t, id, x) <=> LockedIn(s, id, x)
    BY <1>5, <2>2, <2>3, <2>4 DEF LockedIn
  <2>6. source'[m] = t /\ source[m] = s
    BY <1>1, <1>4, <1>6, <1>8
  <2> QED BY <1>6, <2>5, <2>6 DEF Kept
<1> QED BY <1>7, <1>8

\* A lock on a version that was asked for already is one of the late ones.
LEMMA LockKeeps ==
  ASSUME S3IndInv, NEW k \in Key, NEW kind \in LockKind, client_lock(k, kind),
         NEW m \in Key, NEW id, NEW x, NEW has, AskedOf(m, id, x),
         Kept(x, m, id, source[m], has, lockedLate, failures)
  PROVE  Kept(x, m, id, source'[m], has, lockedLate', failures')
<1>1. PICK s : s = source[k]
  OBVIOUS
<1>2. PICK L : L = Len(s)
  OBVIOUS
<1>3. PICK v : v = WithLock(s[L], kind)
  OBVIOUS
<1>4. PICK t : t = [s EXCEPT ![L] = v]
  OBVIOUS
<1>5. source \in [Key -> Seq(Version)] /\ s \in Seq(Version) /\ L \in Nat /\ s # <<>>
  BY <1>1, <1>2 DEF S3IndInv, StateInv, client_lock
<1>6. L \in 1..L /\ Last(source[k]) = s[L] /\ s[L] \in Version
  BY <1>1, <1>2, <1>5 DEF Last
<1>7. v \in Version /\ v.id = s[L].id /\ v.locks = s[L].locks \cup {kind}
  BY <1>3, <1>6 DEF WithLock, Version
<1>8. /\ Len(t) = L /\ t[L] = v
      /\ \A i \in 1..L : i # L => t[i] = s[i]
  BY <1>2, <1>4, <1>5, <1>6, <1>7, ExceptSeq
<1>9. source' = [source EXCEPT ![k] = t]
  <2>1. source' = [source EXCEPT ![k] = [source[k] EXCEPT ![Len(source[k])] = WithLock(Last(source[k]), kind)]]
    BY Zenon DEF client_lock
  <2> QED BY <1>1, <1>2, <1>3, <1>4, <1>6, <2>1
<1>10. lockedLate \subseteq lockedLate' /\ failures' = failures
  BY DEF client_lock
<1>11. CASE m # k
  <2>1. source'[m] = source[m]
    BY <1>5, <1>9, <1>11
  <2> QED BY <1>10, <2>1 DEF Kept
<1>12. CASE m = k
  <2>1. source'[m] = t /\ source[m] = s
    BY <1>1, <1>5, <1>9, <1>12
  <2>2. LockedIn(s, id, x) => LockedIn(t, id, x)
    <3> SUFFICES ASSUME NEW i \in 1..L, s[i].id = id, x \in s[i].locks
                 PROVE  t[i].id = id /\ x \in t[i].locks
      BY <1>2, <1>8 DEF LockedIn
    <3> QED BY <1>7, <1>8
  <2>3. ASSUME LockedIn(t, id, x), ~LockedIn(s, id, x) PROVE <<k, id, x>> \in lockedLate'
    <3>1. PICK i \in 1..L : t[i].id = id /\ x \in t[i].locks
      BY <1>8, <2>3 DEF LockedIn
    <3>2. i = L
      BY <1>2, <1>8, <2>3, <3>1 DEF LockedIn
    <3>3. id = s[L].id /\ x = kind
      BY <1>2, <1>6, <1>7, <1>8, <2>3, <3>1, <3>2 DEF LockedIn
    <3>4. AskedOf(k, Last(source[k]).id, kind)
      BY <1>6, <1>12, <3>3
    <3>5. <<k, Last(source[k]).id, kind>> \in lockedLate'
      BY <3>4 DEF client_lock
    <3> QED BY <1>6, <3>3, <3>5
  <2> QED BY <1>10, <1>12, <2>1, <2>2, <2>3 DEF Kept
<1> QED BY <1>11, <1>12

\* A client does not touch the link, and what it does to a version that was asked
\* for is kept.
LEMMA ClientLocks ==
  ASSUME S3IndInv, LocksInv, Bare', UNCHANGED <<target, pc, due, copying>>,
         \A m \in Key : \A id, x, has :
           /\ AskedOf(m, id, x) /\ (\E j \in 1..Len(source[m]) : source[m][j].id = id)
           /\ Kept(x, m, id, source[m], has, lockedLate, failures)
           => Kept(x, m, id, source'[m], has, lockedLate', failures')
  PROVE  LocksInv'
<1>1. CopiesKept'
  <2> SUFFICES ASSUME NEW k \in Key, NEW n \in 1..Len(target[k]), NEW x \in LockKind
               PROVE  Kept(x, k, target[k][n].id, source'[k], target[k][n].locks, lockedLate', failures')
    BY DEF CopiesKept
  <2>1. PICK c : c = target[k][n]
    OBVIOUS
  <2>2. PICK i \in 1..Len(sent), j \in Nat : CopyOf(c, k, i, j)
    BY <2>1, CopyIs
  <2>3. j \in 1..Len(source[k]) /\ source[k][j].id = c.id
    BY <2>2 DEF CopyOf
  <2>4. AskedOf(k, c.id, x)
    <3>1. sent[i].event.key = k /\ sent[i].event.id = c.id
      BY <2>2 DEF CopyOf, Event
    <3>2. DOMAIN sent = 1..Len(sent)
      BY DEF S3IndInv, StateInv
    <3> QED BY <3>1, <3>2 DEF AskedOf, Sent
  <2>5. Kept(x, k, c.id, source[k], c.locks, lockedLate, failures)
    BY <2>1 DEF LocksInv, CopiesKept
  <2> QED BY <2>1, <2>3, <2>4, <2>5
<1>2. UnderWay'
  <2> SUFFICES ASSUME pc = "apply", NEW x \in LockKind
               PROVE  IF Asked(x)
                      THEN Kept(x, Head(due).event.key, Head(due).event.id, source'[Head(due).event.key],
                                copying.locks, lockedLate', failures')
                      ELSE x \notin copying.locks
    BY DEF UnderWay, Asked
  <2>1. CASE ~Asked(x)
    BY <2>1 DEF LocksInv, UnderWay
  <2>2. CASE Asked(x)
    <3>1. PICK e : e = Head(due).event
      OBVIOUS
    <3>2. e.key \in Key /\ \E j \in 1..Len(source[e.key]) : source[e.key][j].id = e.id
      BY <3>1, HeadIs
    <3>3. AskedOf(e.key, e.id, x)
      BY <2>2, <3>1 DEF AskedOf
    <3>4. Kept(x, e.key, e.id, source[e.key], copying.locks, lockedLate, failures)
      BY <2>2, <3>1 DEF LocksInv, UnderWay
    <3>5. Kept(x, e.key, e.id, source'[e.key], copying.locks, lockedLate', failures')
      BY <3>2, <3>3, <3>4
    <3> QED BY <2>2, <3>1, <3>5
  <2> QED BY <2>1, <2>2
<1> QED BY <1>1, <1>2 DEF LocksInv

\* A lock that is kept without a failure is kept after one.
LEMMA KeptAfter ==
  ASSUME NEW x, NEW k, NEW id, NEW s, NEW has, NEW late, NEW failed, NEW after, after = 0 => failed = 0,
         Kept(x, k, id, s, has, late, failed)
  PROVE  Kept(x, k, id, s, has, late, after)
BY DEF Kept

\* The head of the batch was handed over: nothing is known of the next one yet.
LEMMA HandedLocks ==
  ASSUME LocksInv, NextDue, CopiesKept'
  PROVE  LocksInv'
<1>1. copying' = NoCopy /\ source' = source
  BY DEF NextDue
<1>2. UnderWay'
  BY <1>1 DEF UnderWay, Asked, NoCopy, LockKind
<1>3. Bare'
  BY <1>1 DEF LocksInv, Bare
<1> QED BY <1>1, <1>2, <1>3 DEF LocksInv

\* A copy that is put has the locks that were kept.
LEMMA PutLocks ==
  ASSUME S3IndInv, LocksInv, pc = "apply", NextDue, failures' = 0 => failures = 0,
         NEW b \in SUBSET LockKind, Put(b),
         \A x \in LockKind : Kept(x, Head(due).event.key, Head(due).event.id,
                                  source[Head(due).event.key], b, lockedLate, failures)
  PROVE  LocksInv'
<1>1. PICK e : e = Head(due).event
  OBVIOUS
<1>2. PICK k : k = e.key
  OBVIOUS
<1>3. PICK c : c = [id |-> e.id, marker |-> e.marker, locks |-> b]
  OBVIOUS
<1>4. PICK t : t = target[k]
  OBVIOUS
<1>5. PICK u : u = Append(t, c)
  OBVIOUS
<1>6. k \in Key /\ target \in [Key -> Seq(Version)] /\ t \in Seq(Version) /\ Len(t) \in Nat
  BY <1>1, <1>2, <1>4, HeadIs DEF S3IndInv, StateInv
<1>7. c.id = e.id /\ c.locks = b
  BY <1>3
<1>8. /\ \A i \in 1..Len(t) : u[i] = t[i]
      /\ u[Len(t) + 1] = c
      /\ \A i \in 1..Len(u) : i \in 1..Len(t) \/ i = Len(t) + 1
  BY <1>5, <1>6
<1>9. target' = [target EXCEPT ![k] = u]
  BY <1>1, <1>2, <1>3, <1>4, <1>5 DEF Put
<1>10. target'[k] = u /\ \A m \in Key : m # k => target'[m] = target[m]
  BY <1>6, <1>9
<1>11. UNCHANGED <<source, lockedLate>>
  BY DEF NextDue
<1>12. CopiesKept'
  <2> SUFFICES ASSUME NEW m \in Key, NEW n \in 1..Len(target'[m]), NEW x \in LockKind
               PROVE  Kept(x, m, target'[m][n].id, source[m], target'[m][n].locks, lockedLate, failures')
    BY <1>11 DEF CopiesKept
  <2>1. ASSUME n \in 1..Len(target[m]), target'[m][n] = target[m][n]
        PROVE  Kept(x, m, target'[m][n].id, source[m], target'[m][n].locks, lockedLate, failures')
    <3>1. Kept(x, m, target[m][n].id, source[m], target[m][n].locks, lockedLate, failures)
      BY <2>1 DEF LocksInv, CopiesKept
    <3>2. Kept(x, m, target[m][n].id, source[m], target[m][n].locks, lockedLate, failures')
      BY <3>1, KeptAfter
    <3> QED BY <2>1, <3>2
  <2>2. CASE m # k
    BY <1>10, <2>1, <2>2
  <2>3. CASE m = k /\ n \in 1..Len(t)
    BY <1>4, <1>8, <1>10, <2>1, <2>3
  <2>4. CASE m = k /\ n = Len(t) + 1
    <3>1. target'[m][n] = c
      BY <1>8, <1>10, <2>4
    <3>2. Kept(x, k, e.id, source[k], b, lockedLate, failures)
      BY <1>1, <1>2
    <3>3. Kept(x, k, e.id, source[k], b, lockedLate, failures')
      BY <3>2, KeptAfter
    <3> QED BY <1>7, <2>4, <3>1, <3>3
  <2> QED BY <1>8, <1>10, <2>2, <2>3, <2>4
<1> QED BY <1>12, HandedLocks

\* The steps that hand a change over.
LEMMA ApplyLocks ==
  ASSUME S3IndInv, LocksInv, delete_object \/ put_object \/ apply_failed
  PROVE  LocksInv'
<1>1. PICK e : e = Head(due).event
  OBVIOUS
<1>2. PICK b : b = copying.locks
  OBVIOUS
<1>3. b \in SUBSET LockKind /\ failures \in 0..MaxFailures /\ MaxFailures \in Nat
  BY <1>2, S3LinkAssumption DEF S3IndInv, StateInv, Copying
<1>4. pc = "apply" /\ NextDue /\ (failures' = 0 => failures = 0)
  <2>1. pc = "apply" /\ NextDue
    BY Zenon DEF delete_object, put_object, apply_failed
  <2>2. failures' = failures \/ failures' = failures + 1
    BY Zenon DEF delete_object, put_object, apply_failed
  <2> QED BY <1>3, <2>1, <2>2
<1>5. e.key \in Key /\ \E j \in 1..Len(source[e.key]) :
                         source[e.key][j].id = e.id /\ source[e.key][j].marker = e.marker
  BY <1>1, <1>4, HeadIs
<1>6. ASSUME e.marker, Put({}) PROVE LocksInv'
  <2>1. ASSUME NEW x \in LockKind, LockedIn(source[e.key], e.id, x) PROVE FALSE
    <3>1. PICK s : s = source[e.key]
      OBVIOUS
    <3>2. s \in Seq(Version) /\ Len(s) \in Nat
      BY <1>5, <3>1 DEF S3IndInv, StateInv
    <3>3. PICK i \in 1..Len(s) : s[i].id = e.id /\ x \in s[i].locks
      BY <2>1, <3>1 DEF LockedIn
    <3>4. PICK j \in 1..Len(s) : s[j].id = e.id /\ s[j].marker = e.marker
      BY <1>5, <3>1
    <3>5. \A p, q \in 1..Len(s) : p < q => s[p].id < s[q].id
      BY <1>5, <3>1 DEF S3IndInv, Numbered
    <3>6. s[i].id \in Nat /\ s[j].id \in Nat
      BY <3>2, Ids
    <3>7. i = j
      BY <3>2, <3>3, <3>4, <3>5, <3>6
    <3>8. s[j].locks = {}
      BY <1>5, <1>6, <3>1, <3>4 DEF LocksInv, Bare
    <3> QED BY <3>3, <3>7, <3>8
  <2>2. \A x \in LockKind : Kept(x, e.key, e.id, source[e.key], {}, lockedLate, failures)
    BY <2>1 DEF Kept
  <2> QED BY <1>1, <1>4, <1>6, <2>2, PutLocks
<1>7. ASSUME copying.next = "put", Put(b) PROVE LocksInv'
  <2>1. \A x \in LockKind : Asked(x)
    BY <1>7 DEF Asked, LockKind
  <2>2. \A x \in LockKind : Kept(x, e.key, e.id, source[e.key], b, lockedLate, failures)
    BY <1>1, <1>2, <1>4, <2>1 DEF LocksInv, UnderWay
  <2> QED BY <1>1, <1>3, <1>4, <1>7, <2>2, PutLocks
<1>8. ASSUME UNCHANGED target PROVE LocksInv'
  <2>1. UNCHANGED <<source, lockedLate>>
    BY <1>4 DEF NextDue
  <2>2. CopiesKept'
    <3> SUFFICES ASSUME NEW m \in Key, NEW n \in 1..Len(target[m]), NEW x \in LockKind
                 PROVE  Kept(x, m, target[m][n].id, source[m], target[m][n].locks, lockedLate, failures')
      BY <1>8, <2>1 DEF CopiesKept
    <3>1. Kept(x, m, target[m][n].id, source[m], target[m][n].locks, lockedLate, failures)
      BY DEF LocksInv, CopiesKept
    <3> QED BY <1>4, <3>1, KeptAfter
  <2> QED BY <1>4, <2>2, HandedLocks
<1>9. \/ e.marker /\ Put({})
      \/ copying.next = "put" /\ Put(b)
      \/ UNCHANGED target
  BY <1>1, <1>2, Zenon DEF delete_object, put_object, apply_failed
<1> QED BY <1>6, <1>7, <1>8, <1>9

\* An answer of the source about the lock that was asked for, or about the object.
LEMMA AskLocks ==
  ASSUME S3IndInv, LocksInv, get_object \/ get_object_retention \/ get_object_legal_hold
  PROVE  LocksInv'
<1>1. PICK e : e = Head(due).event
  OBVIOUS
<1>2. PICK c : c = copying
  OBVIOUS
<1>3. PICK d : d = copying'
  OBVIOUS
<1>4. c \in Copying /\ failures \in 0..MaxFailures /\ MaxFailures \in Nat
  BY <1>2, S3LinkAssumption DEF S3IndInv, StateInv
<1>5. PICK next, given : Asks(next, given)
  BY AskSteps
<1>6. /\ pc = "apply" /\ UNCHANGED <<source, target, pc, due, lockedLate>> /\ (failures' = 0 => failures = 0)
  BY <1>5 DEF Asks, Answered
<1>7. CopiesKept'
  <2> SUFFICES ASSUME NEW m \in Key, NEW n \in 1..Len(target[m]), NEW x \in LockKind
               PROVE  Kept(x, m, target[m][n].id, source[m], target[m][n].locks, lockedLate, failures')
    BY <1>6 DEF CopiesKept
  <2>1. Kept(x, m, target[m][n].id, source[m], target[m][n].locks, lockedLate, failures)
    BY DEF LocksInv, CopiesKept
  <2> QED BY <1>6, <2>1, KeptAfter
<1>8. ASSUME NEW x \in LockKind
      PROVE  IF Asked(x) THEN Kept(x, e.key, e.id, source[e.key], c.locks, lockedLate, failures)
             ELSE x \notin c.locks
  BY <1>1, <1>2, <1>6 DEF LocksInv, UnderWay
<1>9. e.key \in Key /\ source[e.key] \in Seq(Version)
  BY <1>1, <1>6, HeadIs DEF S3IndInv, StateInv
<1>10. SUFFICES ASSUME NEW x \in LockKind
                PROVE  IF Asked(x)' THEN Kept(x, e.key, e.id, source[e.key], d.locks, lockedLate, failures')
                       ELSE x \notin d.locks
  <2>1. UnderWay'
    BY <1>1, <1>3, <1>6, <1>10 DEF UnderWay
  <2> QED BY <1>6, <1>7, <2>1 DEF LocksInv, Bare
<1>11. ASSUME NEW after, NEW kind, NEW got, d = [next |-> after, locks |-> c.locks \cup got],
              x # kind => (Asked(x)' <=> Asked(x)), x # kind => x \notin got
       PROVE  x # kind => IF Asked(x)' THEN Kept(x, e.key, e.id, source[e.key], d.locks, lockedLate, failures')
                          ELSE x \notin d.locks
  <2> SUFFICES ASSUME x # kind
               PROVE  IF Asked(x) THEN Kept(x, e.key, e.id, source[e.key], d.locks, lockedLate, failures')
                      ELSE x \notin d.locks
    BY <1>11
  <2>1. d.locks = c.locks \cup got
    BY <1>11
  <2>2. x \in d.locks <=> x \in c.locks
    BY <1>11, <2>1
  <2>3. CASE Asked(x)
    BY <1>6, <1>8, <2>2, <2>3 DEF Kept
  <2>4. CASE ~Asked(x)
    BY <1>8, <2>2, <2>4
  <2> QED BY <2>3, <2>4
<1>12. CASE get_object
  <2>1. d = [next |-> "retention", locks |-> c.locks \cup {}] /\ c.next = "object"
    BY <1>2, <1>3, <1>12 DEF get_object, Answered
  <2>2. d.next = "retention"
    BY <2>1
  <2>3. Asked(x)' <=> Asked(x)
    BY <1>2, <1>3, <2>1, <2>2 DEF Asked
  <2>4. CASE Asked(x)
    <3>1. Kept(x, e.key, e.id, source[e.key], c.locks, lockedLate, failures')
      BY <1>6, <1>8, <2>4, KeptAfter
    <3>2. d.locks = c.locks
      BY <2>1
    <3> QED BY <2>3, <2>4, <3>1, <3>2
  <2>5. CASE ~Asked(x)
    BY <1>8, <2>1, <2>3, <2>5
  <2> QED BY <2>4, <2>5
<1>13. ASSUME NEW kind \in LockKind, NEW after \in {"legal_hold", "put"}, LockAnswer(kind, after),
              x # kind => (Asked(x)' <=> Asked(x)), Asked(kind)', ~Asked(kind)
       PROVE  IF Asked(x)' THEN Kept(x, e.key, e.id, source[e.key], d.locks, lockedLate, failures')
              ELSE x \notin d.locks
  <2>1. PICK a : a = {y \in {kind} : HasLock(e, y)}
    OBVIOUS
  <2>2. PICK got : /\ d = [next |-> after, locks |-> c.locks \cup got]
                   /\ \/ got = a
                      \/ got = {} /\ failures' = failures + 1
    BY <1>1, <1>2, <1>3, <1>13, <2>1, Zenon DEF LockAnswer, Answered
  <2>3. x # kind => x \notin got
    BY <2>1, <2>2
  <2>4. CASE x # kind
    BY <1>11, <1>13, <2>2, <2>3, <2>4
  <2>5. CASE x = kind
    <3>1. x \notin c.locks /\ d.locks = c.locks \cup got
      BY <1>8, <1>13, <2>2, <2>5
    <3>2. HasLock(e, x) <=> LockedIn(source[e.key], e.id, x)
      BY <1>9, HasLockMeans
    <3>3. x \in a <=> LockedIn(source[e.key], e.id, x)
      BY <2>1, <2>5, <3>2
    <3>4. CASE got = a
      BY <1>13, <2>5, <3>1, <3>3, <3>4 DEF Kept
    <3>5. CASE got = {} /\ failures' = failures + 1
      <4>1. failures' # 0
        BY <1>4, <3>5
      <4> QED BY <1>13, <2>5, <3>1, <3>5, <4>1 DEF Kept
    <3> QED BY <2>2, <3>4, <3>5
  <2> QED BY <2>4, <2>5
<1>14. CASE get_object_retention
  <2>1. LockAnswer("retention", "legal_hold") /\ c.next = "retention"
    BY <1>2, <1>14 DEF get_object_retention
  <2>2. d.next = "legal_hold"
    BY <1>3, <2>1 DEF LockAnswer, Answered
  <2>3. (x # "retention" => (Asked(x)' <=> Asked(x))) /\ Asked("retention")' /\ ~Asked("retention")
    BY <1>2, <1>3, <2>1, <2>2 DEF Asked
  <2> QED BY <1>13, <2>1, <2>3 DEF LockKind
<1>15. CASE get_object_legal_hold
  <2>1. LockAnswer("legal_hold", "put") /\ c.next = "legal_hold"
    BY <1>2, <1>15 DEF get_object_legal_hold
  <2>2. d.next = "put"
    BY <1>3, <2>1 DEF LockAnswer, Answered
  <2>3. (x # "legal_hold" => (Asked(x)' <=> Asked(x))) /\ Asked("legal_hold")' /\ ~Asked("legal_hold")
    BY <1>2, <1>3, <2>1, <2>2 DEF Asked
  <2> QED BY <1>13, <2>1, <2>3 DEF LockKind
<1> QED BY <1>12, <1>14, <1>15

\* Every step keeps what is known of the locks.
LEMMA LocksStep == S3IndInv /\ LocksInv /\ [Next]_vars => LocksInv'
<1> SUFFICES ASSUME S3IndInv, LocksInv, [Next]_vars PROVE LocksInv'
  OBVIOUS
<1>1. ASSUME UNCHANGED <<source, target, due, copying, lockedLate, failures>>, (pc' = "apply") <=> (pc = "apply")
      PROVE  LocksInv'
  BY <1>1 DEF LocksInv, CopiesKept, UnderWay, Bare, Asked
<1>2. CASE \/ UNCHANGED vars \/ Tick \/ begin_cycle \/ (\E policy \in Policies : post_lag(policy))
           \/ (\E k \in Key : list_page(k))
  <2>1. /\ UNCHANGED <<source, target, due, copying, lockedLate, failures>>
        /\ pc' = pc \/ (pc = "idle" /\ pc' = "scan")
    BY <1>2, Zenon DEF vars, Tick, begin_cycle, post_lag, list_page
  <2> QED BY <1>1, <2>1
<1>3. CASE \E k \in Key, marker \in BOOLEAN, locks \in SUBSET LockKind : client_write(k, marker, locks)
  <2>1. PICK k \in Key, marker \in BOOLEAN, locks \in SUBSET LockKind : client_write(k, marker, locks)
    BY <1>3
  <2>2. Bare'
    <3>1. PICK v : v = [id |-> writes + 1, marker |-> marker, locks |-> locks]
      OBVIOUS
    <3>2. source \in [Key -> Seq(Version)] /\ source' = [source EXCEPT ![k] = Append(source[k], v)]
      BY <2>1, <3>1 DEF client_write, S3IndInv, StateInv
    <3>3. v.marker => v.locks = {}
      BY <2>1, <3>1 DEF client_write
    <3> SUFFICES ASSUME NEW m \in Key, NEW i \in 1..Len(source'[m]), source'[m][i].marker
                 PROVE  source'[m][i].locks = {}
      BY DEF Bare
    <3>4. PICK s : s = source[m]
      OBVIOUS
    <3>5. s \in Seq(Version) /\ Len(s) \in Nat /\ \A j \in 1..Len(s) : s[j].marker => s[j].locks = {}
      BY <3>2, <3>4 DEF LocksInv, Bare
    <3>6. CASE m # k
      BY <3>2, <3>4, <3>5, <3>6
    <3>7. CASE m = k
      <4>1. source'[m] = Append(s, v)
        BY <3>2, <3>4, <3>7
      <4>2. i \in 1..Len(s) \/ i = Len(s) + 1
        BY <3>5, <4>1
      <4>3. CASE i \in 1..Len(s)
        BY <3>5, <4>1, <4>3
      <4>4. CASE i = Len(s) + 1
        BY <3>3, <3>5, <4>1, <4>4
      <4> QED BY <4>2, <4>3, <4>4
    <3> QED BY <3>6, <3>7
  <2>3. ASSUME NEW m \in Key, NEW id, NEW x, NEW has, \E j \in 1..Len(source[m]) : source[m][j].id = id,
               Kept(x, m, id, source[m], has, lockedLate, failures)
        PROVE  Kept(x, m, id, source'[m], has, lockedLate', failures')
    <3>1. PICK j \in 1..Len(source[m]) : source[m][j].id = id
      BY <2>3
    <3> QED BY <2>1, <2>3, <3>1, WriteKeeps
  <2>4. UNCHANGED <<target, pc, due, copying>>
    BY <2>1 DEF client_write
  <2> QED BY <2>2, <2>3, <2>4, ClientLocks
<1>4. CASE \E k \in Key, kind \in LockKind : client_lock(k, kind)
  <2>1. PICK k \in Key, kind \in LockKind : client_lock(k, kind)
    BY <1>4
  <2>2. Bare'
    <3>1. PICK s : s = source[k]
      OBVIOUS
    <3>2. PICK v : v = WithLock(Last(s), kind)
      OBVIOUS
    <3>3. /\ source \in [Key -> Seq(Version)] /\ s \in Seq(Version) /\ s # <<>> /\ ~Last(s).marker
      BY <2>1, <3>1 DEF client_lock, S3IndInv, StateInv
    <3>4. source' = [source EXCEPT ![k] = [s EXCEPT ![Len(s)] = v]]
      <4>1. source' = [source EXCEPT ![k] = [source[k] EXCEPT ![Len(source[k])] = WithLock(Last(source[k]), kind)]]
        BY <2>1, Zenon DEF client_lock
      <4> QED BY <3>1, <3>2, <4>1
    <3>5. ~v.marker
      BY <3>2, <3>3 DEF WithLock
    <3> SUFFICES ASSUME NEW m \in Key, NEW i \in 1..Len(source'[m]), source'[m][i].marker
                 PROVE  source'[m][i].locks = {}
      BY DEF Bare
    <3>6. CASE m # k
      BY <3>3, <3>4, <3>6 DEF LocksInv, Bare
    <3>7. CASE m = k
      <4>1. PICK t : t = [s EXCEPT ![Len(s)] = v]
        OBVIOUS
      <4>2. source'[m] = t /\ i \in 1..Len(t) /\ Len(s) \in Nat /\ DOMAIN s = 1..Len(s)
        BY <3>3, <3>4, <3>7, <4>1
      <4>3. Len(s) \in 1..Len(s) /\ v \in Version
        <5>1. Len(s) \in 1..Len(s) /\ Last(s) = s[Len(s)]
          BY <3>3, <4>2 DEF Last
        <5>2. PICK w \in Version : w = Last(s)
          BY <3>3, <5>1
        <5>3. v = WithLock(w, kind)
          BY <3>2, <5>2
        <5> QED BY <5>1, <5>3 DEF WithLock, Version
      <4>4. /\ Len(t) = Len(s) /\ t[Len(s)] = v
            /\ \A j \in 1..Len(s) : j # Len(s) => t[j] = s[j]
        BY <3>3, <4>1, <4>3, ExceptSeq
      <4>5. i # Len(s)
        BY <3>5, <4>2, <4>4
      <4> QED BY <3>1, <3>7, <4>2, <4>4, <4>5 DEF LocksInv, Bare
    <3> QED BY <3>6, <3>7
  <2>3. ASSUME NEW m \in Key, NEW id, NEW x, NEW has, AskedOf(m, id, x),
               Kept(x, m, id, source[m], has, lockedLate, failures)
        PROVE  Kept(x, m, id, source'[m], has, lockedLate', failures')
    BY <2>1, <2>3, LockKeeps
  <2>4. UNCHANGED <<target, pc, due, copying>>
    BY <2>1 DEF client_lock
  <2> QED BY <2>2, <2>3, <2>4, ClientLocks
<1>5. CASE list_end \/ list_error
  <2>1. pc = "scan" /\ Drain
    BY <1>5 DEF list_end, list_error
  <2>2. failures' = 0 => failures = 0
    BY <1>5, S3LinkAssumption DEF list_end, list_error, S3IndInv, StateInv
  <2>3. UNCHANGED <<source, target, copying, lockedLate>> /\ copying = NoCopy
    BY <2>1 DEF Drain, LocksInv
  <2>4. CopiesKept'
    <3> SUFFICES ASSUME NEW m \in Key, NEW n \in 1..Len(target[m]), NEW x \in LockKind
                 PROVE  Kept(x, m, target[m][n].id, source[m], target[m][n].locks, lockedLate, failures')
      BY <2>3 DEF CopiesKept
    <3>1. Kept(x, m, target[m][n].id, source[m], target[m][n].locks, lockedLate, failures)
      BY DEF LocksInv, CopiesKept
    <3> QED BY <2>2, <3>1, KeptAfter
  <2>5. UnderWay'
    BY <2>3 DEF UnderWay, Asked, NoCopy, LockKind
  <2> QED BY <2>3, <2>4, <2>5 DEF LocksInv, Bare
<1>6. CASE delete_object \/ put_object \/ apply_failed
  BY <1>6, ApplyLocks
<1>7. CASE get_object \/ get_object_retention \/ get_object_legal_hold
  BY <1>7, AskLocks
<1> QED BY <1>2, <1>3, <1>4, <1>5, <1>6, <1>7 DEF Next

---------------------------------------------------------------------------
(* The theorems. *)

\* The invariant holds for empty buckets and a poller that has not begun.
LEMMA S3Init == Init => S3IndInv
<1> SUFFICES ASSUME Init PROVE S3IndInv
  OBVIOUS
<1>1. PICK s : s = sched
  OBVIOUS
<1>2. s = [policy |-> InitialLag, pending |-> <<>>, applied |-> {}]
  BY <1>1 DEF Init, new
<1>3. s \in Scheduler /\ s.pending = <<>> /\ s.applied = {} /\ s.policy \in Policies
  BY <1>2, S3LinkAssumption DEF Scheduler
<1>4. \A k \in Key : source[k] = <<>> /\ target[k] = <<>> /\ listed[k] = 0
  BY DEF Init
<1>5. StateInv
  <2>1. scan \in [at : 0..MaxTime, todo : SUBSET Key]
    BY S3LinkAssumption DEF Init, NoScan
  <2>2. pc \in {"idle", "scan", "apply"} /\ (pc = "apply" <=> due # <<>>)
    BY DEF Init
  <2>3. copying \in Copying
    BY DEF Init, NoCopy, Copying
  <2> QED BY <1>1, <1>3, <2>1, <2>2, <2>3, S3LinkAssumption DEF Init, StateInv
<1>6. \A k \in Key : Numbered(k)
  BY <1>4 DEF Numbered
<1>7. Queued
  <2>1. discovered = <<>> /\ sent = <<>> /\ due = <<>>
    BY DEF Init
  <2>2. <<>> \o <<>> \o <<>> = <<>>
    OBVIOUS
  <2>3. \A x : ~is_known(s, x)
    BY <1>3 DEF is_known, PendingKeys
  <2> QED BY <1>1, <1>3, <2>1, <2>2, <2>3 DEF Queued
<1>8. FromListing
  BY DEF Init, FromListing
<1>9. AllListed
  BY <1>4 DEF AllListed
<1>10. Copied
  BY <1>4 DEF Init, Copied
<1>11. Ordered
  BY <1>4 DEF Init, Ordered, InOrder
<1> QED BY <1>5, <1>6, <1>7, <1>8, <1>9, <1>10, <1>11 DEF S3IndInv

\* Every step of the link and of its clients keeps the invariant.
LEMMA S3Step == S3IndInv /\ [Next]_vars => S3IndInv'
<1> SUFFICES ASSUME S3IndInv, [Next]_vars PROVE S3IndInv'
  OBVIOUS
<1>1. CASE UNCHANGED vars
  <2>1. StateInv'
    BY <1>1 DEF vars, S3IndInv, StateInv
  <2> QED BY <1>1, <2>1, LinkKept DEF vars
<1>2. CASE \E k \in Key, marker \in BOOLEAN, locks \in SUBSET LockKind : client_write(k, marker, locks)
  BY <1>2, WriteStep
<1>3. CASE \E k \in Key, kind \in LockKind : client_lock(k, kind)
  BY <1>3, LockStep
<1>4. CASE Tick \/ begin_cycle \/ (\E policy \in Policies : post_lag(policy))
  BY <1>4, ClockStep
<1>5. CASE \E k \in Key : list_page(k)
  BY <1>5, PageStep
<1>6. CASE list_end \/ list_error
  BY <1>6, DrainStep
<1>7. CASE delete_object \/ put_object \/ apply_failed
  BY <1>7, ApplyStep
<1>8. CASE get_object \/ get_object_retention \/ get_object_legal_hold
  BY <1>8, AskSteps, AskStep
<1> QED BY <1>1, <1>2, <1>3, <1>4, <1>5, <1>6, <1>7, <1>8 DEF Next

\* What the S3 poller keeps true: what is listed, queued, drained and put hangs
\* together (scan_and_discover, apply_due and apply_one of s3.rs).
THEOREM S3Invariant == Spec => []S3IndInv
<1>1. Init => S3IndInv
  BY S3Init
<1>2. S3IndInv /\ [Next]_vars => S3IndInv'
  BY S3Step
<1> QED BY <1>1, <1>2, PTL DEF Spec

\* A version is handed to the target once and in discovery order, for any keys,
\* policies and failures: the dedup keys of LagScheduler keep a version that is
\* listed again from being put again.
THEOREM VersionsOnce == Spec => []DeliveryInv
<1>1. S3IndInv => DeliveryInv
  <2> SUFFICES ASSUME S3IndInv PROVE DeliveryInv
    OBVIOUS
  <2>1. TypeOK
    <3>1. PICK c : c = scan
      OBVIOUS
    <3>2. c \in [at : 0..MaxTime, todo : SUBSET Key]
      BY <3>1 DEF S3IndInv, StateInv
    <3>3. scan.at \in 0..MaxTime /\ scan.todo \subseteq Key
      BY <3>1, <3>2
    <3>4. copying.next \in {"object", "retention", "legal_hold", "put"}
      BY DEF S3IndInv, StateInv, Copying
    <3> QED BY <3>3, <3>4 DEF S3IndInv, StateInv, TypeOK
  <2>2. ASSUME NEW i \in 1..Len(discovered), NEW j \in 1..Len(discovered),
               discovered[i].event = discovered[j].event
        PROVE  i = j
    <3>1. PICK k : k = discovered[i].event.key
      OBVIOUS
    <3>2. PICK a \in Nat : ListedAs(discovered[i], k, a)
      BY <3>1, DiscoveredIs
    <3>3. PICK b \in Nat : ListedAs(discovered[j], k, b)
      BY <2>2, <3>1, DiscoveredIs
    <3>4. source[k][a].id = source[k][b].id
      <4>1. Event(k, source[k][a]) = Event(k, source[k][b])
        BY <2>2, <3>2, <3>3 DEF ListedAs, IsOf
      <4>2. Event(k, source[k][a]).id = source[k][a].id /\ Event(k, source[k][b]).id = source[k][b].id
        BY DEF Event
      <4> QED BY <4>1, <4>2
    <3>5. discovered[i].key = discovered[j].key
      BY <3>2, <3>3, <3>4 DEF ListedAs, IsOf, S3Key
    <3> QED BY <3>5 DEF S3IndInv, Queued
  <2>3. EachVersionOnce
    BY <2>2 DEF S3IndInv, Queued, EachVersionOnce
  <2> QED BY <2>1, <2>3 DEF DeliveryInv
<1> QED BY <1>1, S3Invariant, PTL

\* A copy has the locks its original had when get_object_retention and
\* get_object_legal_hold asked for them, and of the locks placed since then it is
\* without exactly those that the request of their kind came too early for.
THEOREM LocksFollow == Spec => []LocksCarried
<1>1. Init => LocksInv
  <2> SUFFICES ASSUME Init PROVE LocksInv
    OBVIOUS
  <2>1. \A k \in Key : source[k] = <<>> /\ target[k] = <<>>
    BY DEF Init
  <2>2. pc = "idle" /\ copying = NoCopy
    BY DEF Init
  <2> QED BY <2>1, <2>2 DEF LocksInv, CopiesKept, UnderWay, Bare
<1>2. S3IndInv /\ LocksInv /\ [Next]_vars => LocksInv'
  BY LocksStep
<1>3. S3IndInv /\ LocksInv => LocksCarried
  <2> SUFFICES ASSUME S3IndInv, LocksInv, NEW k \in Key, NEW i \in DOMAIN target[k], NEW x \in LockKind
               PROVE  /\ x \in target[k][i].locks => HasLock(Event(k, target[k][i]), x)
                      /\ failures = 0 /\ HasLock(Event(k, target[k][i]), x) =>
                           x \in target[k][i].locks \/ <<k, target[k][i].id, x>> \in lockedLate
    BY DEF LocksCarried
  <2>1. target[k] \in Seq(Version) /\ source[k] \in Seq(Version)
    BY DEF S3IndInv, StateInv
  <2>2. i \in 1..Len(target[k])
    BY <2>1
  <2>3. PICK c : c = target[k][i]
    OBVIOUS
  <2>4. PICK e : e = Event(k, c)
    OBVIOUS
  <2>5. e.key = k /\ e.id = c.id
    BY <2>4 DEF Event
  <2>6. HasLock(e, x) <=> LockedIn(source[k], c.id, x)
    BY <2>1, <2>5, HasLockMeans
  <2>7. Kept(x, k, c.id, source[k], c.locks, lockedLate, failures)
    BY <2>2, <2>3 DEF LocksInv, CopiesKept
  <2> QED BY <2>3, <2>4, <2>6, <2>7 DEF Kept
<1> QED BY <1>1, <1>2, <1>3, S3Invariant, PTL DEF Spec

\* A key that changes at most once between two listings keeps its order, and
\* a link that caught up without a failure has its current object.
THEOREM PacedHistory == Spec => []PacedHistoryReplicated
<1>1. S3IndInv => PacedHistoryReplicated
  <2> SUFFICES ASSUME S3IndInv, paced, NEW k \in Key
               PROVE  /\ InOrder(k)
                      /\ failures = 0 /\ CaughtUp(k) /\ source[k] # <<>> =>
                           target[k] # <<>> /\ Last(target[k]).id = Last(source[k]).id
    BY DEF PacedHistoryReplicated
  <2>1. InOrder(k)
    BY DEF S3IndInv, Ordered
  <2>2. ASSUME failures = 0, CaughtUp(k), source[k] # <<>>
        PROVE  target[k] # <<>> /\ Last(target[k]).id = Last(source[k]).id
    <3>1. PICK s : s = source[k]
      OBVIOUS
    <3>2. PICK t : t = target[k]
      OBVIOUS
    <3>3. s \in Seq(Version) /\ t \in Seq(Version) /\ Len(s) \in Nat /\ Len(t) \in Nat
      BY <3>1, <3>2 DEF S3IndInv, StateInv
    <3>4. Len(s) \in 1..Len(s) /\ listed[k] = Len(s) /\ Last(source[k]) = s[Len(s)]
      BY <2>2, <3>1, <3>3 DEF CaughtUp, Last
    <3>5. discovered = sent
      <4>1. due = <<>> /\ sched.pending = <<>> /\ sent \in Seq(Delivery)
        BY <2>2 DEF CaughtUp, S3IndInv, StateInv
      <4>2. sent \o <<>> = sent
        BY <4>1, ConcatEmptySeq
      <4>3. discovered = sent \o due \o sched.pending
        BY DEF S3IndInv, Queued
      <4> QED BY <4>1, <4>2, <4>3
    <3>6. PICK i \in 1..Len(discovered) : discovered[i].key = S3Key(k, s[Len(s)])
      <4>1. is_known(sched, S3Key(k, s[Len(s)]))
        BY <3>1, <3>4 DEF S3IndInv, AllListed
      <4> QED BY <4>1 DEF S3IndInv, Queued
    <3>7. sent[i].event.key = k /\ sent[i].event.id = s[Len(s)].id
      <4>1. PICK m : m = discovered[i].event.key
        OBVIOUS
      <4>2. PICK a \in Nat : ListedAs(discovered[i], m, a)
        BY <4>1, DiscoveredIs
      <4>3. S3Key(m, source[m][a]) = S3Key(k, s[Len(s)])
        BY <3>6, <4>2 DEF ListedAs, IsOf
      <4>4. m = k /\ source[m][a].id = s[Len(s)].id
        BY <4>3 DEF S3Key
      <4>5. discovered[i].event.id = s[Len(s)].id
        BY <4>2, <4>4 DEF ListedAs, IsOf, Event
      <4> QED BY <3>5, <4>1, <4>4, <4>5
    <3>8. PICK j \in 1..Len(t) : t[j].id = s[Len(s)].id
      BY <2>2, <3>2, <3>5, <3>7 DEF S3IndInv, Copied
    <3>9. Len(t) \in 1..Len(t) /\ t # <<>> /\ Last(target[k]) = t[Len(t)]
      <4>1. Len(t) \in 1..Len(t)
        BY <3>3
      <4>2. t # <<>>
        BY <3>3, <4>1
      <4> QED BY <3>2, <3>3, <4>1, <4>2 DEF Last
    <3>10. t[Len(t)].id <= s[Len(s)].id
      <4>1. PICK a \in 1..Len(sent), b \in Nat : CopyOf(target[k][Len(t)], k, a, b)
        BY <3>2, <3>9, CopyIs
      <4>2. b \in 1..Len(s) /\ s[b].id = t[Len(t)].id
        BY <3>1, <3>2, <4>1 DEF CopyOf
      <4>3. s[b].id \in Nat /\ s[Len(s)].id \in Nat
        BY <3>3, <3>4, <4>2, Ids
      <4>4. b < Len(s) => s[b].id < s[Len(s)].id
        BY <3>1, <3>4, <4>2 DEF S3IndInv, Numbered
      <4>5. b < Len(s) \/ b = Len(s)
        BY <3>3, <4>2
      <4> QED BY <4>2, <4>3, <4>4, <4>5
    <3>11. j < Len(t) => t[j].id < t[Len(t)].id
      BY <2>1, <3>2, <3>9 DEF InOrder
    <3>12. t[Len(t)].id \in Nat /\ s[Len(s)].id \in Nat
      BY <3>3, <3>4, <3>9, Ids
    <3>13. j < Len(t) \/ j = Len(t)
      BY <3>3
    <3>14. t[Len(t)].id = s[Len(s)].id
      BY <3>8, <3>10, <3>11, <3>12, <3>13
    <3> QED BY <3>2, <3>4, <3>9, <3>14
  <2> QED BY <2>1, <2>2
<1> QED BY <1>1, S3Invariant, PTL
=============================================================================
