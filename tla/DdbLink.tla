------------------------------ MODULE DdbLink ------------------------------
(***************************************************************************)
(* Directed replication links between copies of one DynamoDB table, with   *)
(* scan-diff discovery, configurable lag and last-writer-wins apply        *)
(* (crates/dev-replicator/src: ddb.rs, link.rs, control.rs).               *)
(*                                                                         *)
(* One process runs each link <<src, dst>>; the application writes the     *)
(* tables of some regions.  Scan reads the source a page at a time and     *)
(* apply_due writes one change at a time, each request a step of its own.  *)
(* An item is its content and the timestamp attribute of the replicator.   *)
(* What disturbs a deployment is its setup.  The S3 half of a cycle is in  *)
(* S3Link.                                                                 *)
(***************************************************************************)
EXTENDS LagScheduler, FiniteSets

CONSTANTS Region, Links, Key, Content,
          Absent,        \* no item: also the fingerprint of a deletion
          Setups         \* the deployments considered, see Setup

NoTs == 0   \* the item has no timestamp attribute

\* links: those that run; writers: the regions the application writes; keys,
\* contents: what it writes; policies: the lag policies the control endpoint may
\* post; fresh: no key returns to a content it had before; pauses: links are
\* paused and resumed.  The bounds: max_time, max_writes, max_failures.
Setup ==
  [links : SUBSET Links, writers : SUBSET Region, keys : SUBSET Key, contents : SUBSET Content,
   policies : SUBSET (Nat \cup {Stalled}), initial_lag : Nat \cup {Stalled},
   fresh : BOOLEAN, pauses : BOOLEAN,
   max_time : Nat \ {0}, max_writes : Nat, max_failures : Nat]

ASSUME DdbLinkAssumption ==
  /\ Links \subseteq Region \X Region
  /\ IsFiniteSet(Key) /\ Absent \notin Content
  /\ Stalled \notin Nat
  /\ Setups \subseteq Setup /\ \A s \in Setups : s.initial_lag \in s.policies

VARIABLES setup,       \* the deployment of this behaviour
          table,       \* table[r][k]: the item of key k in region r
          now,         \* the clock, shared by the processes
          control,     \* control[l]: the posted lag and the pause flag
          sched,       \* sched[l]: the LagScheduler of the link's poller
          known_live_keys,  \* known_live_keys[l]: the keys of the last full scan
          pc,          \* pc[l]: "idle" | "scan" | "apply"
          scan,        \* scan[l]: the discovery time, keys to read, items read
          due,         \* due[l]: drained changes still to be applied
          applied_at,  \* applied_at[l]: the clock reading apply_due took
          ended,       \* ended[l]: when the last cycle ended
          writes, failures,
          had,         \* history: had[r][k], the contents k has had in r
          latest,      \* history: latest[r][k], the newest of the links' changes that
                       \* reached k in r since the application wrote it there
          discovered,  \* history: discovered[l], every change queued, in order
          sent,        \* history: sent[l], every change handed to the target
          quiet,       \* history: quiet[l], no write to the source since the
                       \* link began its last complete, unpaused cycle
          dropped,     \* history: dropped[l], keys whose last change was refused
                       \* for a timestamp equal to its own, or failed to be applied
          unseen       \* history: unseen[l], keys that may be on the target
                       \* without being among the known live ones

process == <<sched, known_live_keys, pc, scan, due, applied_at, ended>>
history == <<discovered, sent>>
vars == <<setup, table, now, control, process, writes, failures, had, latest, history, quiet, dropped, unseen>>

src(l) == l[1]
dst(l) == l[2]

NoItem == [content |-> Absent, ts |-> NoTs]
NoChange == [at |-> 0, content |-> Absent]
NoScan == [at |-> 0, todo |-> {}, seen |-> [k \in Key |-> NoItem]]

Init ==
  /\ setup \in Setups
  /\ table = [r \in Region |-> [k \in Key |-> NoItem]]
  /\ now = 1
  /\ control = [l \in Links |-> [lag |-> setup.initial_lag, paused |-> FALSE]]
  /\ sched = [l \in Links |-> new(setup.initial_lag)]
  /\ known_live_keys = [l \in Links |-> {}]
  /\ pc = [l \in Links |-> "idle"]
  /\ scan = [l \in Links |-> NoScan]
  /\ due = [l \in Links |-> <<>>]
  /\ applied_at = [l \in Links |-> 0]
  /\ ended = [l \in Links |-> 0]
  /\ writes = 0 /\ failures = 0
  /\ had = [r \in Region |-> [k \in Key |-> {}]]
  /\ latest = [r \in Region |-> [k \in Key |-> NoChange]]
  /\ discovered = [l \in Links |-> <<>>]
  /\ sent = [l \in Links |-> <<>>]
  /\ quiet = [l \in Links |-> FALSE]
  /\ dropped = [l \in Links |-> {}] /\ unseen = [l \in Links |-> {}]

---------------------------------------------------------------------------
(* The application and the control endpoint. *)

\* A PutItem or DeleteItem of the application: it replaces the whole item, so
\* the timestamp attribute goes with it.
app_write(r, k, c) ==
  /\ writes < setup.max_writes
  /\ c # table[r][k].content
  /\ setup.fresh => c \notin had[r][k]
  /\ writes' = writes + 1
  /\ table' = [table EXCEPT ![r][k] = [content |-> c, ts |-> NoTs]]
  /\ had' = [had EXCEPT ![r][k] = @ \cup {c}]
  /\ latest' = [latest EXCEPT ![r][k] = NoChange]
  /\ quiet' = [l \in Links |-> quiet[l] /\ src(l) # r]
  /\ UNCHANGED <<now, control, process, failures, history, dropped, unseen>>

post_lag(l, policy) ==
  /\ control[l].lag # policy
  /\ control' = [control EXCEPT ![l].lag = policy]
  /\ UNCHANGED <<table, now, process, writes, failures, had, latest, history, quiet, dropped, unseen>>

\* post_pause and post_resume.
post_pause(l, paused) ==
  /\ setup.pauses /\ control[l].paused # paused
  /\ control' = [control EXCEPT ![l].paused = paused]
  /\ UNCHANGED <<table, now, process, writes, failures, had, latest, history, quiet, dropped, unseen>>

---------------------------------------------------------------------------
(* The poll loop of a link. *)

\* run_one_cycle up to the first page: the lag change is picked up even when
\* the link is paused; a paused cycle does nothing else.
begin_cycle(l) ==
  /\ pc[l] = "idle" /\ now > ended[l]
  /\ sched' = [sched EXCEPT ![l] = set_policy(@, control[l].lag)]
  /\ IF control[l].paused
     THEN /\ ended' = [ended EXCEPT ![l] = now]
          /\ UNCHANGED <<pc, scan, quiet>>
     ELSE /\ pc' = [pc EXCEPT ![l] = "scan"]
          /\ scan' = [scan EXCEPT ![l] = 
               [NoScan EXCEPT !.at = now, !.todo = setup.keys]]
          /\ quiet' = [quiet EXCEPT ![l] = TRUE]
          /\ UNCHANGED ended
  /\ UNCHANGED <<table, now, control, known_live_keys, due, applied_at, writes,
                 failures, had, latest, history, dropped, unseen>>

\* A fingerprint that leaves out the content: one dedup key per (pk, sk).
fingerprint_of_key_only(item) == <<>>

\* The fingerprint covers every attribute, the replicator's own included.
fingerprint_of(item) == <<item.content, item.ts>>

DdbKey(k, item) == <<k, fingerprint_of(item)>>

Event(k, item) == [key |-> k, content |-> item.content]

\* The queue grew by at most this suffix.
NewlyQueued(old, new_) == SubSeq(new_.pending, Len(old.pending) + 1, Len(new_.pending))

\* One page of the scan, here one key: read, and discovered if there.
scan_page(l, k) ==
  /\ pc[l] = "scan" /\ k \in scan[l].todo
  /\ LET item == table[src(l)][k]
         s == IF item.content = Absent THEN sched[l]
              ELSE discover(sched[l], DdbKey(k, item), Event(k, item), scan[l].at)
     IN  /\ sched' = [sched EXCEPT ![l] = s]
         /\ discovered' = [discovered EXCEPT ![l] = @ \o NewlyQueued(sched[l], s)]
         /\ scan' = [scan EXCEPT ![l].todo = @ \ {k}, ![l].seen[k] = item]
  /\ UNCHANGED <<table, now, control, known_live_keys, pc, due, applied_at,
                 ended, writes, failures, had, latest, sent, quiet, dropped, unseen>>

\* apply_due's first half: one clock reading for the whole batch.
Drain(l, s) ==
  /\ sched' = [sched EXCEPT ![l] = drain_due(s, now)]
  /\ due' = [due EXCEPT ![l] = drained(s, now)]
  /\ applied_at' = [applied_at EXCEPT ![l] = now]
  /\ scan' = [scan EXCEPT ![l] = NoScan]
  /\ IF drained(s, now) = <<>>
     THEN pc' = [pc EXCEPT ![l] = "idle"] /\ ended' = [ended EXCEPT ![l] = now]
     ELSE pc' = [pc EXCEPT ![l] = "apply"] /\ UNCHANGED ended

\* current_keys, the keys the scan found.
Found(l) == {k \in Key : scan[l].seen[k].content # Absent}

\* The scheduler after the deletions in the sequence ks.
DiscoverDeleted(l, ks) ==
  LET after[n \in 0..Len(ks)] ==
        IF n = 0 THEN sched[l]
        ELSE discover(after[n - 1], DdbKey(ks[n], scan[l].seen[ks[n]]),
                      Event(ks[n], scan[l].seen[ks[n]]), scan[l].at)
  IN  after[Len(ks)]

\* The order in which a HashSet yields its elements.
Orders(S) == {f \in [1..Cardinality(S) -> S] : \A i, j \in DOMAIN f : i # j => f[i] # f[j]}

\* The scan is complete: the vanished keys are queued as deletions, and the
\* cycle goes on to apply_due.
scan_end(l) ==
  /\ pc[l] = "scan" /\ scan[l].todo = {}
  /\ \E ks \in Orders(known_live_keys[l] \ Found(l)) :
       LET s == DiscoverDeleted(l, ks)
       IN  /\ discovered' = [discovered EXCEPT ![l] = @ \o NewlyQueued(sched[l], s)]
           /\ Drain(l, s)
  /\ known_live_keys' = [known_live_keys EXCEPT ![l] = Found(l)]
  /\ unseen' = [unseen EXCEPT ![l] = @ \ Found(l)]
  /\ UNCHANGED <<table, now, control, writes, failures, had, latest, sent, quiet, dropped>>

\* Scan fails: discover returns early, the cycle still applies what is due.
scan_error(l) ==
  /\ pc[l] = "scan" /\ failures < setup.max_failures
  /\ failures' = failures + 1
  /\ Drain(l, sched[l])
  /\ quiet' = [quiet EXCEPT ![l] = FALSE]
  /\ unseen' = [unseen EXCEPT ![l] = @ \cup (Found(l) \ known_live_keys[l])]
  /\ UNCHANGED <<table, now, control, known_live_keys, writes, had, latest, history, dropped>>

\* A condition that an equal timestamp meets.
lww_condition_equal(stored, ts) == stored.ts = NoTs \/ stored.ts <= ts

\* attribute_not_exists(#ts) OR #ts < :ts
lww_condition(stored, ts) == stored.ts = NoTs \/ stored.ts < ts

\* The item an apply leaves on the target: DeleteItem leaves no timestamp.
Applied(d, ts) ==
  [content |-> d.event.content,
   ts |-> IF d.event.content = Absent THEN NoTs ELSE ts]

\* The newer of two changes of an item, by the clock readings they were applied
\* on; of equal ones the first.
Newer(first, second) == IF second.at > first.at THEN second ELSE first

\* The target evaluates the conditional PutItem or DeleteItem of d.
TargetWrite(l, d) ==
  LET k == d.event.key
      change == [at |-> applied_at[l], content |-> d.event.content]
  IN  /\ latest' = [latest EXCEPT ![dst(l)][k] = Newer(@, change)]
      /\ IF lww_condition(table[dst(l)][k], applied_at[l])
         THEN /\ table' = [table EXCEPT ![dst(l)][k] = Applied(d, applied_at[l])]
              /\ had' = [had EXCEPT ![dst(l)][k] = @ \cup {d.event.content}]
              /\ quiet' = [m \in Links |-> quiet[m] /\ src(m) # dst(l)]
              /\ dropped' = [dropped EXCEPT ![l] = @ \ {k}]
         ELSE /\ dropped' = [dropped EXCEPT ![l] =
                               IF table[dst(l)][k].ts = applied_at[l] THEN @ \cup {k} ELSE @]
              /\ UNCHANGED <<table, had, quiet>>

\* The rest of the batch, and the end of the cycle after the last change.
NextDue(l) ==
  /\ due' = [due EXCEPT ![l] = Tail(@)]
  /\ sent' = [sent EXCEPT ![l] = Append(@, Head(due[l]))]
  /\ IF Len(due[l]) = 1
     THEN pc' = [pc EXCEPT ![l] = "idle"] /\ ended' = [ended EXCEPT ![l] = now]
     ELSE UNCHANGED <<pc, ended>>
  /\ UNCHANGED <<now, control, sched, known_live_keys, scan, applied_at, writes,
                 discovered, unseen>>

\* apply_one answers: applied, or stale when the condition fails.
apply_one(l) ==
  /\ pc[l] = "apply"
  /\ TargetWrite(l, Head(due[l]))
  /\ NextDue(l)
  /\ UNCHANGED failures

\* apply_one fails: the change is counted and dropped; the target may or may
\* not have evaluated the request.
apply_failed(l) ==
  /\ pc[l] = "apply" /\ failures < setup.max_failures
  /\ failures' = failures + 1
  /\ \/ TargetWrite(l, Head(due[l]))
     \/ /\ dropped' = [dropped EXCEPT ![l] = @ \cup {Head(due[l]).event.key}]
        /\ UNCHANGED <<table, had, latest, quiet>>
  /\ NextDue(l)

\* The process dies and is started again: everything it keeps is in memory.
restart(l) ==
  /\ failures < setup.max_failures
  /\ failures' = failures + 1
  /\ control' = [control EXCEPT ![l] = [lag |-> setup.initial_lag, paused |-> FALSE]]
  /\ sched' = [sched EXCEPT ![l] = new(setup.initial_lag)]
  /\ known_live_keys' = [known_live_keys EXCEPT ![l] = {}]
  /\ pc' = [pc EXCEPT ![l] = "idle"]
  /\ scan' = [scan EXCEPT ![l] = NoScan]
  /\ due' = [due EXCEPT ![l] = <<>>]
  /\ discovered' = [discovered EXCEPT ![l] = <<>>]
  /\ sent' = [sent EXCEPT ![l] = <<>>]
  /\ ended' = [ended EXCEPT ![l] = now]
  /\ quiet' = [quiet EXCEPT ![l] = FALSE]
  /\ unseen' = [unseen EXCEPT ![l] = Key]
  /\ UNCHANGED <<table, now, applied_at, writes, had, latest, dropped>>

Tick ==
  /\ now < setup.max_time
  /\ now' = now + 1
  /\ UNCHANGED <<table, control, process, writes, failures, had, latest, history, quiet, dropped, unseen>>

Next ==
  \/ \E r \in setup.writers, k \in setup.keys, c \in setup.contents \cup {Absent} : app_write(r, k, c)
  \/ \E l \in setup.links :
       \/ \E policy \in setup.policies : post_lag(l, policy)
       \/ \E paused \in BOOLEAN : post_pause(l, paused)
       \/ begin_cycle(l)
       \/ \E k \in Key : scan_page(l, k)
       \/ scan_end(l) \/ scan_error(l)
       \/ apply_one(l) \/ apply_failed(l)
       \/ restart(l)
  \/ Tick

Spec == Init /\ [][Next /\ UNCHANGED setup]_vars

---------------------------------------------------------------------------
(* Properties *)

Item == [content : Content \cup {Absent}, ts : 0..setup.max_time]
Change == [key : Key, content : Content \cup {Absent}]

\* Every variable keeps its type, and an absent item has no timestamp.
TypeOK ==
  /\ table \in [Region -> [Key -> Item]]
  /\ \A r \in Region, k \in Key : table[r][k].content = Absent => table[r][k].ts = NoTs
  /\ now \in 1..setup.max_time
  /\ control \in [Links -> [lag : setup.policies, paused : BOOLEAN]]
  /\ \A l \in Links :
       /\ sched[l].policy \in setup.policies
       /\ \A i \in 1..Len(sched[l].pending) :
            sched[l].pending[i].event \in Change /\ sched[l].pending[i].at \in 1..setup.max_time
       /\ \A i \in 1..Len(due[l]) : due[l][i].event \in Change
       /\ scan[l] \in [at : 0..setup.max_time, todo : SUBSET Key, seen : [Key -> Item]]
  /\ known_live_keys \in [Links -> SUBSET Key]
  /\ pc \in [Links -> {"idle", "scan", "apply"}]
  /\ applied_at \in [Links -> 0..setup.max_time] /\ ended \in [Links -> 0..setup.max_time]
  /\ writes \in 0..setup.max_writes /\ failures \in 0..setup.max_failures

\* A key is applied at most once and in discovery order: the changes handed
\* to the target, those drained and those pending are together exactly the
\* discovered ones, in order, with no dedup key twice, however scans fail and
\* lags change (LagScheduler, "a key is applied at most once").
AppliedOnceInOrder ==
  \A l \in Links :
    /\ discovered[l] = sent[l] \o due[l] \o sched[l].pending
    /\ \A i, j \in 1..Len(discovered[l]) :
         discovered[l][i].key = discovered[l][j].key => i = j

\* Nothing reaches the target before its lag: a batch under way was older
\* than the policy its cycle picked up, and no batch is under way when that
\* policy is a stall (chaos-crr-stall).
NotBeforeItsLag ==
  \A l \in Links : pc[l] = "apply" =>
    /\ sched[l].policy # Stalled
    /\ \A i \in 1..Len(due[l]) : applied_at[l] - due[l][i].at >= sched[l].policy

\* What a link delivers: well-formed changes, each once, in order and not early.
DeliveryInv == TypeOK /\ AppliedOnceInOrder /\ NotBeforeItsLag

\* Last writer wins: an item that no application has written since is what the
\* newest change of all that reached it made it, whatever order the requests of
\* several links, their failures and their repetitions arrive in (ddb.rs,
\* "Last-writer-wins, concretely").  The one exception is a newest change that
\* is a deletion: DeleteItem takes the timestamp away with the item, so that
\* nothing is refused after it.
LastPutWins ==
  \A r \in Region, k \in Key :
    latest[r][k].at # 0 /\ latest[r][k].content # Absent
    => table[r][k].content = latest[r][k].content

\* In the deployment s, l leads from the one region that is written, no link
\* leads back there, and no other link into the target relays older contents.
OnlyFeed(s, l) ==
  /\ s.writers = {src(l)}
  /\ \A m \in s.links : dst(m) # src(l) /\ (dst(m) = dst(l) => m = l)

\* The link catches up: where it is the only feed of its target, once a whole
\* cycle has passed since the last write to the source and nothing is pending,
\* the target has the source's contents (control.rs, "the next discovery pass
\* naturally catches up on everything missed"), with three exceptions the code
\* does not repair: a change refused because one before it got the same clock
\* reading, a change whose apply failed, and the deletion of a key that no
\* complete scan found since the process started or a scan failed.
CatchesUp ==
  \A l \in setup.links :
    OnlyFeed(setup, l) /\ quiet[l] /\ pc[l] = "idle" /\ sched[l].pending = <<>>
    => \A k \in Key :
         \/ table[dst(l)][k].content = table[src(l)][k].content
         \/ k \in dropped[l]
         \/ k \in unseen[l] /\ table[src(l)][k].content = Absent
============================================================================
