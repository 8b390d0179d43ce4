------------------------------- MODULE S3Link -------------------------------
(***************************************************************************)
(* One directed S3 replication link: discovery by ListObjectVersions, lag, *)
(* and the replication of versions, delete markers and their Object Lock   *)
(* metadata (crates/dev-replicator/src: s3.rs, link.rs).                   *)
(*                                                                         *)
(* A bucket maps each key to its versions, oldest first.  A version is the *)
(* number of the write that made it, whether it is a delete marker and     *)
(* which locks it carries; the target's version IDs are its own, so a copy *)
(* keeps the number of its original.  The listing is read a key at a time; *)
(* S3 lists the versions of a key newest first, its delete markers apart   *)
(* from them.  A version is copied in four requests (the object, its       *)
(* retention, its legal hold, the put), and its locks change in between.   *)
(***************************************************************************)
EXTENDS LagScheduler, SequencesExt

CONSTANTS Key,
          Policies, InitialLag,
          MaxTime, MaxWrites, MaxFailures

ASSUME S3LinkAssumption ==
  /\ Policies \subseteq Nat \cup {Stalled} /\ InitialLag \in Policies
  /\ Stalled \notin Nat
  /\ MaxTime \in Nat \ {0} /\ MaxWrites \in Nat /\ MaxFailures \in Nat

VARIABLES source, target,  \* the versions of each key, oldest first
          now, lag,        \* the clock; the lag policy posted last
          sched, pc, scan, \* the poller: scheduler, place, listing under way
          due, ended,      \* drained events; when the last cycle ended
          copying,         \* apply_one: its next request, the locks it was told
          writes, failures,
          paced,           \* one write per key between two listings of it;
                           \* never changes
          listed,          \* history: listed[k], source versions listed so far
          lockedLate,      \* history: locks placed after the link asked for them
          discovered, sent \* history: events queued; events handed over

vars == <<source, target, now, lag, sched, pc, scan, due, ended, copying, writes,
          failures, paced, listed, lockedLate, discovered, sent>>

\* An Object Lock retention and a legal hold are apart, and asked for apart.
LockKind == {"retention", "legal_hold"}

Version == [id : 1..MaxWrites, marker : BOOLEAN, locks : SUBSET LockKind]

S3Key(k, v) == <<k, v.id>>

\* S3VersionEvent: which version, not what is in it.
Event(k, v) == [key |-> k, id |-> v.id, marker |-> v.marker]

NoScan == [at |-> 0, todo |-> {}]

\* apply_one before its first request.
NoCopy == [next |-> "object", locks |-> {}]

Init ==
  /\ source = [k \in Key |-> <<>>] /\ target = [k \in Key |-> <<>>]
  /\ now = 1 /\ lag = InitialLag
  /\ sched = new(InitialLag) /\ pc = "idle" /\ scan = NoScan
  /\ due = <<>> /\ ended = 0 /\ copying = NoCopy
  /\ writes = 0 /\ failures = 0
  /\ paced \in BOOLEAN
  /\ listed = [k \in Key |-> 0] /\ lockedLate = {}
  /\ discovered = <<>> /\ sent = <<>>

---------------------------------------------------------------------------
\* A client puts an object, locked or not, or deletes one.
client_write(k, marker, locks) ==
  /\ writes < MaxWrites
  /\ marker => locks = {} /\ source[k] # <<>> /\ ~Last(source[k]).marker
  /\ paced => listed[k] = Len(source[k]) /\ pc # "scan"
  /\ writes' = writes + 1
  /\ source' = [source EXCEPT
       ![k] = Append(@, [id |-> writes + 1, marker |-> marker, locks |-> locks])]
  /\ UNCHANGED <<target, now, lag, sched, pc, scan, due, ended, copying, failures,
                 listed, lockedLate, discovered, sent, paced>>

Sent(k, id) == \E i \in DOMAIN sent : sent[i].event.key = k /\ sent[i].event.id = id

\* apply_one has asked for the lock kind of the version it is copying.
Asked(kind) == \/ kind = "retention" /\ copying.next \in {"legal_hold", "put"}
               \/ kind = "legal_hold" /\ copying.next = "put"

\* The link is done with the lock kind of version id of k.
AskedOf(k, id, kind) ==
  \/ Sent(k, id)
  \/ /\ pc = "apply" /\ Asked(kind)
     /\ Head(due).event.key = k /\ Head(due).event.id = id

\* The version v with one more lock.
WithLock(v, kind) == [id |-> v.id, marker |-> v.marker, locks |-> v.locks \cup {kind}]

\* A client puts a retention or a hold on a current object that has none.  None is
\* lifted: the CA locks in COMPLIANCE mode.
client_lock(k, kind) ==
  /\ writes < MaxWrites
  /\ source[k] # <<>> /\ ~Last(source[k]).marker /\ kind \notin Last(source[k]).locks
  /\ writes' = writes + 1
  /\ source' = [source EXCEPT
       ![k] = [@ EXCEPT ![Len(source[k])] = WithLock(Last(source[k]), kind)]]
  /\ lockedLate' = lockedLate \cup
       IF AskedOf(k, Last(source[k]).id, kind) THEN {<<k, Last(source[k]).id, kind>>} ELSE {}
  /\ UNCHANGED <<target, now, lag, sched, pc, scan, due, ended, copying, failures,
                 listed, discovered, sent, paced>>

post_lag(policy) ==
  /\ lag # policy
  /\ lag' = policy
  /\ UNCHANGED <<source, target, now, sched, pc, scan, due, ended, copying, writes,
                 failures, listed, lockedLate, discovered, sent, paced>>

begin_cycle ==
  /\ pc = "idle" /\ now > ended
  /\ sched' = set_policy(sched, lag)
  /\ pc' = "scan"
  /\ scan' = [at |-> now, todo |-> Key]
  /\ UNCHANGED <<source, target, now, lag, due, ended, copying, writes, failures,
                 listed, lockedLate, discovered, sent, paced>>

\* The versions of s that are delete markers, or those that are not.
Those(s, marker) ==
  LET kept[n \in 0..Len(s)] ==
        IF n = 0 THEN <<>>
        ELSE IF s[n].marker = marker THEN Append(kept[n - 1], s[n]) ELSE kept[n - 1]
  IN  kept[Len(s)]

\* A listing that skips the delete markers.
Listing_versions_only(k) == Those(Reverse(source[k]), FALSE)

\* The versions of a page, newest first, then its delete markers.
Listing(k) == Those(Reverse(source[k]), FALSE) \o Those(Reverse(source[k]), TRUE)

\* The scheduler once every element of page vs of key k was discovered.
DiscoverAll(k, vs) ==
  LET after[n \in 0..Len(vs)] ==
        IF n = 0 THEN sched
        ELSE discover(after[n - 1], S3Key(k, vs[n]), Event(k, vs[n]), scan.at)
  IN  after[Len(vs)]

NewlyQueued(s) == SubSeq(s.pending, Len(sched.pending) + 1, Len(s.pending))

\* One page of ListObjectVersions, here one key.
list_page(k) ==
  /\ pc = "scan" /\ k \in scan.todo
  /\ sched' = DiscoverAll(k, Listing(k))
  /\ discovered' = discovered \o NewlyQueued(DiscoverAll(k, Listing(k)))
  /\ listed' = [listed EXCEPT ![k] = Len(source[k])]
  /\ scan' = [scan EXCEPT !.todo = @ \ {k}]
  /\ UNCHANGED <<source, target, now, lag, pc, due, ended, copying, writes, failures,
                 lockedLate, sent, paced>>

\* apply_due: the cycle goes on to it after a complete or a failed listing.
Drain ==
  /\ sched' = drain_due(sched, now)
  /\ due' = drained(sched, now)
  /\ scan' = NoScan
  /\ IF drained(sched, now) = <<>> THEN pc' = "idle" /\ ended' = now
     ELSE pc' = "apply" /\ UNCHANGED ended
  /\ UNCHANGED <<source, target, now, lag, copying, writes, listed, lockedLate, discovered, sent, paced>>

list_end == pc = "scan" /\ scan.todo = {} /\ Drain /\ UNCHANGED failures

list_error ==
  /\ pc = "scan" /\ failures < MaxFailures
  /\ failures' = failures + 1
  /\ Drain

\* The source has a lock of this kind on the version now.
HasLock(e, kind) ==
  \E i \in DOMAIN source[e.key] : source[e.key][i].id = e.id /\ kind \in source[e.key][i].locks

\* PutObject or DeleteObject of the head of the batch, with the locks given.
Put(locks) ==
  LET e == Head(due).event
  IN  target' = [target EXCEPT
                   ![e.key] = Append(@, [id |-> e.id, marker |-> e.marker, locks |-> locks])]

\* The rest of the batch; the cycle ends after its last change.
NextDue ==
  /\ due' = Tail(due)
  /\ sent' = Append(sent, Head(due))
  /\ copying' = NoCopy
  /\ IF Len(due) = 1 THEN pc' = "idle" /\ ended' = now ELSE UNCHANGED <<pc, ended>>
  /\ UNCHANGED <<source, now, lag, sched, scan, writes, listed, lockedLate, discovered, paced>>

\* A request of apply_one to the source is answered, and the next one is due.
Answered(next, locks) ==
  /\ copying' = [next |-> next, locks |-> copying.locks \cup locks]
  /\ UNCHANGED <<source, target, now, lag, sched, pc, scan, due, ended, writes, listed,
                 lockedLate, discovered, sent, paced>>

\* apply_one of a delete marker is one request.
delete_object ==
  /\ pc = "apply" /\ Head(due).event.marker
  /\ Put({})
  /\ NextDue
  /\ UNCHANGED failures

\* The bytes of a version never change.
get_object ==
  /\ pc = "apply" /\ ~Head(due).event.marker /\ copying.next = "object"
  /\ Answered("retention", {})
  /\ UNCHANGED failures

\* Either answer of the source, or an error: .ok() turns it into "nothing to
\* carry over".
LockAnswer(kind, next) ==
  \/ /\ Answered(next, {x \in {kind} : HasLock(Head(due).event, x)})
     /\ UNCHANGED failures
  \/ /\ failures < MaxFailures
     /\ failures' = failures + 1
     /\ Answered(next, {})

get_object_retention ==
  pc = "apply" /\ copying.next = "retention" /\ LockAnswer("retention", "legal_hold")

\* The hold is not asked for.
get_object_legal_hold_skipped ==
  /\ pc = "apply" /\ copying.next = "legal_hold"
  /\ Answered("put", {})
  /\ UNCHANGED failures

get_object_legal_hold ==
  pc = "apply" /\ copying.next = "legal_hold" /\ LockAnswer("legal_hold", "put")

\* The copy is put with the locks the source told of.
put_object ==
  /\ pc = "apply" /\ copying.next = "put"
  /\ Put(copying.locks)
  /\ NextDue
  /\ UNCHANGED failures

\* get_object, put_object or delete_object fails: counted and not retried; a
\* write may have taken effect.
apply_failed ==
  /\ pc = "apply" /\ failures < MaxFailures
  /\ failures' = failures + 1
  /\ \/ copying.next = "object" /\ UNCHANGED target
     \/ Head(due).event.marker /\ Put({})
     \/ copying.next = "put" /\ (Put(copying.locks) \/ UNCHANGED target)
  /\ NextDue

Tick ==
  /\ now < MaxTime
  /\ now' = now + 1
  /\ UNCHANGED <<source, target, lag, sched, pc, scan, due, ended, copying, writes,
                 failures, listed, lockedLate, discovered, sent, paced>>

Next ==
  \/ \E k \in Key, marker \in BOOLEAN, locks \in SUBSET LockKind : client_write(k, marker, locks)
  \/ \E k \in Key, kind \in LockKind : client_lock(k, kind)
  \/ \E policy \in Policies : post_lag(policy)
  \/ begin_cycle \/ (\E k \in Key : list_page(k)) \/ list_end \/ list_error
  \/ delete_object \/ get_object \/ get_object_retention \/ get_object_legal_hold
  \/ put_object \/ apply_failed
  \/ Tick

Spec == Init /\ [][Next]_vars

---------------------------------------------------------------------------
(* Properties *)

\* Every variable keeps its type, and the poller is applying exactly while
\* drained events are left.
TypeOK ==
  /\ source \in [Key -> Seq(Version)] /\ target \in [Key -> Seq(Version)]
  /\ now \in 1..MaxTime /\ lag \in Policies /\ sched.policy \in Policies
  /\ pc \in {"idle", "scan", "apply"}
  /\ pc = "apply" <=> due # <<>>
  /\ scan.at \in 0..MaxTime /\ scan.todo \subseteq Key
  /\ ended \in 0..MaxTime
  /\ copying.next \in {"object", "retention", "legal_hold", "put"}
  /\ writes \in 0..MaxWrites /\ failures \in 0..MaxFailures
  /\ lockedLate \subseteq Key \X (1..MaxWrites) \X LockKind

\* A version is handed to the target once, in discovery order, however often
\* it is listed: what was sent, what is drained and what is pending is together
\* what was discovered, without a version twice.
EachVersionOnce ==
  /\ discovered = sent \o due \o sched.pending
  /\ \A i, j \in 1..Len(discovered) :
       discovered[i].event = discovered[j].event => i = j

\* What the link delivers: well-formed versions, each once and in order.
DeliveryInv == TypeOK /\ EachVersionOnce

CaughtUp(k) == pc # "scan" /\ due = <<>> /\ sched.pending = <<>> /\ listed[k] = Len(source[k])

InOrder(k) == \A i, j \in 1..Len(target[k]) : i < j => target[k][i].id < target[k][j].id

\* A key that changes at most once between two listings keeps its history:
\* through lag changes and stalls its copies are in the order of its versions
\* and, once the link caught up without a failure, the current object of the
\* source, delete markers included, is the current one of the target.
PacedHistoryReplicated ==
  paced => \A k \in Key :
    /\ InOrder(k)
    /\ failures = 0 /\ CaughtUp(k) /\ source[k] # <<>> =>
         target[k] # <<>> /\ Last(target[k]).id = Last(source[k]).id

\* A copy has the locks that its original had when the link asked for them, each
\* in a request of its own before the copy is put: without a failed request a
\* lock is missing from a copy only when it was placed after that request, and no
\* copy has a lock that its original has not.
LocksCarried ==
  \A k \in Key : \A i \in DOMAIN target[k] : \A kind \in LockKind :
    LET copy == target[k][i]
    IN  /\ kind \in copy.locks => HasLock(Event(k, copy), kind)
        /\ failures = 0 /\ HasLock(Event(k, copy), kind) =>
             kind \in copy.locks \/ <<k, copy.id, kind>> \in lockedLate

=============================================================================
