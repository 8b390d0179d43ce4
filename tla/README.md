# TLA+ verification of open-private-mtc-ca

The repository builds a private certification authority for Merkle Tree
Certificates: entries are accepted over ACME, batched, appended to a Merkle tree
log by one primary region, covered by signed checkpoints and served as tiles and
proofs to relying parties. This directory holds TLA+ models of the parts whose
correctness depends on interleaving, failure, order or index arithmetic, the TLC
runs over them, and TLAPS proofs of the properties that matter most.

`PROJECT.json` maps every definition to the source lines it models, lists the
hazards the properties are aimed at, and names for every property a mutated
definition that breaks it.

    tlc -workers 2 -config LeaseSafety.cfg MCLease     # one run
    tlapm LeaseProofs.tla                              # the proofs of a module

## 1. The system

### 1.1 Parts, their state and how they interact

| part (crate) | state | operations | talks to |
|---|---|---|---|
| `coordination` | one lease item (holder, epoch, expires_at) in a replicated key-value store | `acquire`, `renew`, `claim_lease`, `read_lease`, `epoch_condition` | `ReplicatedKv` through conditional writes; injected clock |
| `ca-service::batch` | bounded channel, the batch under construction, one completion per submission | `submit_entry`, `shutdown`, `next_batch`, `Batch::{complete_sequential, fail_all, into_entries}` | submitters on one side, the (future) write path on the other |
| `mtc` tree, proofs, tiles | leaf hashes of a tree; the rest is computed from it | `append`, `root`, `decompose_range`, proof `generate` and `verify`, `build_tiles`, `reconstruct_root` | `mtc-read`, `mtc-verify` |
| `mtc` wire, entries, checkpoints | none; values and their bytes | constructors, `tls_serialize`, `tls_parse`, checkpoint `sign` and `verify`, pruning checkpoints | stored objects, `checkpoint-signer` |
| `mtc-read` | none | `plan_inclusion`: which tile slots make up an audit path | tiles of `mtc` |
| `mtc-verify` | none | `verify_inclusion` for a relying party | proofs and checkpoints of `mtc` |
| `acme-core` | nonce store, account store (two indexes and a counter), each under a mutex of its own | directory, `new-nonce`, `new-account`, nonce middleware | concurrent HTTP requests; clock |
| `dev-replicator` | per link: lag scheduler (pending, seen), live keys; control state | poll cycle (discover, `drain_due`, apply), `post_lag`, `post_pause`, `post_resume` | DynamoDB tables and S3 buckets of two regions |
| `cloud-types` with `cloud-memory` and `cloud-aws` | items of a key-value store; versioned, lockable objects of buckets | conditional `put`, `update`, `transact`, `query`; `put`, `get`, `head`, `list`, `delete`, `put_with_retention`, `extend_retention`, `get_retention` | DynamoDB, S3 and the AWS SDK, which repeats requests by itself |
| `retention` | none | policy from configuration, `retain_until` per object class | the dates of `put_with_retention` |
| `checkpoint-signer` | none across calls | `sign_checkpoint` with bounded retries and backoff | an `Hsm`; the injected clock |
| `cloud-softhsm`, `cloud-memory::hsm` | keys of a token, sessions and the login; keys in memory | `generate_key`, `sign`, `get_public_key` | PKCS#11 |
| `clock` | one atomic word, waiters | `advance`, `set`, `sleep_until`, `Interval::tick` | everything that waits |
| `cloud-backend`, `storage`, `metrics`, admin service, `mtcctl` | counters, or nothing | provider choice, stubs, reporting | |

The parts are loosely coupled at this commit. The write path that would join the
intake, the lease, the tree and the checkpoint signer is specified in the docs
but not implemented, so no module composes Lease with BatchIntake: there is no
code to translate. Composition exists where the code has it: TransparencyLog
composes tree, proofs, tiles, planner and verifier; DdbLink and S3Link are built
on LagScheduler; CheckpointSigner runs on FakeClock with three kinds of HSM;
Objects stores under the dates of Retention; Lease and ReplicatedKv are each
composed with their abstract specification, EpochLedger and KvContract.

### 1.2 What is hard, and what must be right

- **Lease.** Every operation is a read or a conditional write with awaits in
  between; replies get lost, requests arrive late, regional clocks differ. Right
  means: an epoch has one holder, epochs only grow by one, a demoted primary
  writes nothing, and an expired lease can always be taken over.
- **Intake.** Submitters, the builder, its consumer, shutdown and cancellation
  race. Right means: nobody waits for an answer that cannot come, acceptance
  order is index order, shutdown is a clean cut, a partial batch goes out on its
  cadence and every accepted entry is answered.
- **Log, proofs, tiles.** One off-by-one in index arithmetic shows only at some
  sizes. Right means: what verifies is logged, what is logged can be proved,
  tiles give the same proofs and never change under their address.
- **Documents.** Lengths and floors are checked by hand in several parsers. Right
  means: documents and accepted byte strings correspond one to one, and what
  verifies was signed.
- **Key-value store.** One trait, two implementations; the SDK repeats writes whose
  reply was lost, pages and follow-up reads see other writers. Right means: both
  keep one contract, allocations never overlap, transactions are atomic.
- **Objects.** S3 locks versions, not keys, and several calls are a look and an
  action in two requests. Right means: what is retained stays as long as
  configured, a create-only key has one creator, errors are true.
- **Signer, HSM, clock.** Retries on a clock that other threads move; a login
  shared by all sessions of a process. Right means: bounded attempts that are
  reported as made, backoff that really passes, no lost advance or wake-up, no
  lost key.
- **ACME.** Handlers run concurrently over two mutexes taken one after the
  other. Right means: a nonce admits one request, one key is one account whatever
  races or is retried.
- **Replicator.** Discovery by diffing, a queue with a lag that may change or
  stall, partial failure, restarts. Right means: each change is applied once, in
  order, not early, the newer copy wins, and an idle link has caught up.

## 2. The modules

`L` stands for `src/crates`.

**EpochLedger** is the abstract specification of the lease: a sequence of grants,
what each coordinator believes, and the epoch of the last fenced write.

**Lease** (`L/coordination/src/protocol.rs`, `ids.rs`, with the conditional
operations of `L/cloud-memory/src/replicated_kv.rs`). A KV call is split into the
request, its evaluation (`serve`) and the delivery of its reply (`deliver`).
`claim_lease` is the get, the check between the awaits (`claim_check`) and the
conditional write. `transport_error` fails a call before or after it was
evaluated, an abandoned request may still be evaluated later (`serve_late`),
`restart` loses what the process knew. The clock of a region is real time plus a
skew of at most `MaxSkew`, and `step_clock` sets it forward or back within that:
`SystemTime` is not monotonic. `grants` and `wrote` are history
variables. `FenceOnLease` chooses between the two fencing patterns that
`L/cloud-test-suite/src/replicated_kv.rs` shows: TRUE is a transaction with a
ConditionCheck on the lease item, FALSE a condition on the `epoch` attribute of
the written item itself.

**BatchIntake** (`L/ca-service/src/batch`). `try_enqueue` takes the mutex in one
step and sends in another. `next_batch` is split at its awaits: first entry,
further entries, deadline, closed channel. `complete_sequential`, `fail_all`,
`complete`, `fail`, `drop_batch`, `cancel_next_batch`, `drop_builder` and
`cancel_submit` are all the ways a batch or an entry ends. The tokio channel and
the consumer are modelled from how this code uses them. Time is relative: a timer
counts down to the deadline; `far` says the deadline overflowed.

**LagScheduler, DdbLink, S3Link** (`L/dev-replicator/src/lag.rs`, `ddb.rs`,
`s3.rs`, `link.rs`, `control.rs`). LagScheduler has the pure operations
(`discover`, `set_policy`, `drain_due`). A cycle of a link is `begin_cycle`, one
step per page of the listing, the end or the failure of the listing, and one step
per applied change. Tables and buckets change in between. DdbLink starts in one
of several deployments (`Setups`: fan-in, single link, cycle), may be paused and
may restart. In S3Link a version is copied in four requests, each a step (object,
retention, legal hold, put), and `client_lock` places locks at any time, between
them too. `discovered`, `sent`, `dropped`,
`unseen`, `latest`, `lockedLate` are histories; `quiet` says that a whole cycle has passed
without a write.

**MerkleTree, MerkleProofs, Tiles** (`L/mtc/src/tree`, `proof`, `tile`,
`L/mtc-read/src/lib.rs`) are the pure algorithms as operators. SHA-256 is a free
constructor. **TransparencyLog** (`L/mtc/src/checkpoint`, `L/mtc-verify/src/lib.rs`)
grows a log and a diverging copy of it, and checks the algorithms against each
other in every state.

**Wire, LogEntries, CheckpointCodec** (`L/mtc/src/wire*`, `log_entry`,
`checkpoint`, `signing`, `pruning_checkpoint.rs`) are the codecs over bytes with
`Base` values (256 in the code), so that every length limit is within reach.
Signatures are an ideal ECDSA: a ledger of what was signed, with the two values
of s that verify. **Documents** moves one document from its constructor through
signing, either of the two serialisers, damage of single bytes and parsing to
verification. **MCLog** runs log and documents in one instance; they share no
state.

**KvItems** (`L/cloud-types/src/replicated_kv.rs`) has items, conditions and
updates, once as `cloud-memory` computes them and once as the requests that
`cloud-aws` builds make DynamoDB compute them. **AwsErrors**
(`L/cloud-aws/src/error.rs`) is the classification of SDK errors. **KvContract**
is what the trait promises, whatever the backend, with what the backends really
do differently as named exceptions: `Overflows`, `Vacuous`, and for a write that took
effect, got no answer and was sent again `RefuseAgain`, `RefuseUpdateAgain` and
`FailAgain`. **ReplicatedKv**
(`L/cloud-memory/src/replicated_kv.rs`, `L/cloud-aws/src/ddb_replicated_kv.rs`)
has both backends: a memory call is one step under the lock; a DynamoDB call is
one step per request, page or follow-up get, with lost replies, resends of the
SDK, refusals of the service at any of these requests, and requests that arrive
after their caller gave up.

**Retention** (`L/retention`) is the policy arithmetic with its refusals.
**Objects** (`L/cloud-memory/src/object_*.rs`, `L/cloud-aws/src/s3_*.rs`) has both
object stores in the same way; on S3 a key is a stack of versions. Besides the
refusals that follow from the object, S3 may refuse a request for reasons of its
own (`ServiceRefuses`): IAM, expired credentials, or a create-only write that meets
another write of the key.

**FakeClock** (`L/clock`) has `advance` and `set` as load, exchange and notify,
sleepers as subscribe, check and wait, and `Interval`. **CheckpointSigner**
(`L/checkpoint-signer`, `L/cloud-memory/src/hsm.rs`, `L/cloud-softhsm/src/hsm.rs`)
is the retry loop and the HSMs: in memory, a PKCS#11 token step by step with its
process-wide login, and any other implementation, which may answer anything.

**Acme** (`L/acme-core/src/nonce.rs`, `account.rs`, `routes.rs`). A request is
three steps: up to and including `consume_nonce`, the rest of the handler under
the accounts mutex, and the middleware that stamps a new nonce. The checks of the
handler are represented by the first one that fails (`flaw`), in the code's order
relative to the nonce; a message without a flaw has the key of its header (`jwk`)
and the key that signed it, which `verify_signature` compares. The clock may be set
to any value at any time.

**MCLease, MCDdbLink, MCS3Link, MCReplicatedKv, MCObjects, MCSigner, MCAcme** hold the
instances: symmetry sets, topologies, calls, casts.
**LeaseProofs, IntakeProofs, DdbProofs, S3Proofs, KvProofs, ObjectsProofs,
SignerProofs, AcmeProofs** hold the theorems (section 4).

A property checked by a run is often a conjunction of named parts, each with a
comment of its own (`DeliveryInv == TypeOK /\ AppliedOnceInOrder /\ ...`). The type
invariant of a module is a part of its first invariant; those of Lease and Acme
are only proved.

## 3. The runs

| run | checks | shows |
|---|---|---|
| `lease_safety` | OneHolderPerEpoch, ImplementsLedger, OnlyDelayOrStepShortens | with lost replies, restarts, clock steps and a delayed request the lease implements the ledger, up to and at the largest epoch, and only a renewal that its caller gave up on takes back more of a lease than a clock was set back |
| `lease_takeover` | ExpiredLeaseChangesHands, TakeoverAfterExpiry | an expired lease does not stay ownerless; with clocks apart and set back by half the margin, a takeover whose read is current only demotes a holder that considers itself expired |
| `lease_item_fence` (violation) | StalePrimaryNeverWrites | finding 1 |
| `intake` | IntakeInv (types, NoSubmitterStranded), IndicesFollowAcceptance, ShutdownIsCleanCut, CadenceFromFirstEntry, CallsReturn | nobody hangs, order is kept, shutdown is a clean cut, the cadence is counted from the first entry |
| `ddb` | DeliveryInv (types, AppliedOnceInOrder, NotBeforeItsLag), CatchesUp, LastPutWins | fan-in with faults, a contended key, a single link with and without lag, and a cycle: delivery is exact, an idle link is level with its source but for three named exceptions, and the newest put stands |
| `ddb_repeat` (violation) | CatchesUp | finding 2 |
| `s3_link` | DeliveryInv (types, EachVersionOnce), PacedHistoryReplicated, LocksCarried | each version once, a slowly changing key keeps its history, a copy lacks a lock only when that was placed after the link asked for it |
| `log` | CodecIsBijection, VerifiedWasSigned, ProofsDecideMembership, TilesServeTheLog, ConsistencyMeansPrefix, RangesDecompose, TilesNeverRewritten | documents, proofs, tiles, planner and verifier agree for every index and size |
| `kv` | StoreInv (types, AllocationsDisjoint), TableStaysIntact, QueryMissesNothing, ImplementsContract | both backends keep the contract of the trait under resends, late requests and concurrent callers, with named exceptions |
| `objects` | StoreInv (types, CreatorKeepsKey), RetentionKept, HiddenOnlyByEarlierOverwrite, AnswersAreTrue | nothing retained goes early, one creator per key, listings are complete and errors true, with two named exceptions |
| `signer` | ClockInv (types, NoAdvanceLost, TicksOnSchedule), AttemptsAccountedFor, KeyNeverLost, BackoffPasses, WaitsEnd | retries, token sessions and clock together |
| `acme` | RegistrationIdempotent, LocationNamesSigner, ReplayReadsBadNonce | concurrent registrations, replays, defects and a failing random generator: one account per key, and its URL goes on naming the key that signed |

The largest are `s3_link` (4.7 million states), `lease_safety` (1.8), `acme` (1.6),
`ddb` (1.4) and `objects` (1.2); each run ends within three minutes on two workers.

### 3.1 Bounds and why they are enough to be interesting

- *Lease*: two coordinators, TTL 1, skew 1, margin 1 (2 in `lease_takeover`: twice
  the skew), two epochs (three in `lease_item_fence`). Two are enough for any race
  on the epoch, and the second takeover meets `MaxEpoch`, which stands for
  `u64::MAX`. Two faults (one in `lease_takeover`) and one late request cover a
  lost reply, a clock set back, a duplicate in effect and a reordered write. The
  violation run needs neither skew nor faults. The proofs remove all of these
  bounds.
- *Intake*: four submissions for batches of three, so that there is a full batch, a
  partial one that grew, a full channel and a retry; cadence 2, so that a deadline
  that is one tick early, or late because a later entry moved it, is seen; two
  voluntary drops or cancellations. `MaxIndex` 3 is the last index four entries can
  be given.
- *Replicator*: Disturbed (two links into one table, lag 1 or stalled, one
  failure), Contested (the same without lag, two contents and three writes), Calm (one link, two keys, three writes, pauses), Lagging (the same
  with lag, stalls and a failure), Cyclic (two links back and forth); for S3 two
  keys, lag 1 or stalled, three writes or locks, one failure. Two writes to one key are what
  ordering and last-writer-wins need; three are what a return to an earlier
  content needs (Returning, the violation run). In the passing setups a content
  is written at most once (`fresh`) where CatchesUp is claimed: that restriction is
  finding 2.
- *Log*: tiles of four hashes (`TILE_HEIGHT` 2; 8 in the code) and ten entries,
  so that there are two full tiles, a right-edge tile and a second level, and
  every shape of tree up to size ten. Paths, indices, sizes and checkpoints of
  both histories are mixed in all combinations.
- *Documents*: four byte values, so one-byte prefixes end at 3 and two-byte ones
  at 15: names, claim lists and keys at, below and above each limit; two
  signatures, and two damaged bytes.
- *Key-value store*: two clients, three calls out of a set that has an increment
  up to `MaxU64` = 3, a two-key transaction each way, conditional puts and
  updates, a scalar item, a key without a sort key, point reads, a query and a
  scan; one resend per request. The calls keep to `CountersOnlyCount`, which TLC
  evaluates (MCCountersOnlyCount).
- *Objects*: two clients, three calls, two keys (an entry and a pruning
  checkpoint), a retention window of one second, so that a lock ends within the
  run, and extensions past it; one resend per request. Configurations that are
  refused and dates that overflow are tried at every limit by MCPolicies, which TLC
  evaluates, and covered by the proofs.
- *Signer*: five casts: two callers of a token, one caller and a clock thread on
  a token, two callers of the memory HSM, one caller of any other HSM with two
  threads on the clock, and a ticker with two threads; up to two retries, backoff
  1 then 2, a clock that saturates at 3 and is asked for 4, which `time_to_nanos`
  clamps.
- *ACME*: three requests, two keys, two nonces, TTL 0 and two clock readings, so
  that a nonce expires, and the clock is set back. Of the defects `alg` stands for
  those found before the nonce is consumed, `url` for those after; signatures are
  made by the key of the header or by another. The proofs hold for all ten defects
  and any number of requests.

CHECK_DEADLOCK is off where the instance ends by its bounds and the system really
may stop: replicator (`MaxTime`), `log` (`MaxSize`, one document), `kv` and
`objects` (`MaxCalls`), `signer` (each caller signs once) and `acme` (every
request is handled once). `lease_*` and `intake` are checked for deadlock.

Symmetry is used in runs without liveness only, over coordinators, clients, keys,
nonces and requests, which the specifications treat alike.

### 3.2 Fairness

- Lease `FairSpec`: time passes and every call that was sent is evaluated and
  answered (weak fairness: the runtime polls its tasks, the store answers), and a
  coordinator comes back to `claim_lease` again and again (strong fairness). The
  last one is an assumption about the caller: the library has no loop of its own,
  and a standby that stops trying takes nothing over.
- BatchIntake `FairSpec`: weak fairness of the builder's task, of the consumer
  that answers the batches it took, of the clock, and of a submitter that holds
  the mutex. Nobody is assumed to submit, to retry or to shut down.
- CheckpointSigner: weak fairness of a caller's next step (the HSM answers, the
  runtime polls), of the ticker, and of a thread that has begun to move the clock
  (exchange, reject, notify). Nobody is assumed to begin: a clock that nobody
  moves wakes nobody, and WaitsEnd is stated accordingly.

## 4. What is proved

Every safety property that a passing run checks, outside the `log` run, is also a
theorem. A theorem holds for every value of the constants that satisfies the
named assumptions: any number of coordinators, submitters, callers, keys,
versions and messages, any width of integers, any clock skew, any number of
faults, resends and restarts. Each is `Spec => []Inv` or `Spec => [][A]_vars`,
or a refinement, from an inductive invariant.

### 4.1 The theorems and their inductive invariants

**LeaseProofs** (`LeaseAssumption`). `LeaseInv == TypeOK /\ ItemIsNewestGrant /\
ViewInv /\ CallInv /\ LateInv`. OneHolderPerEpoch alone is not inductive: it does
not rule out a reply under way that grants an epoch already held. So the
invariant ties everything that can still become a belief to the sequence of
grants: the item is the newest grant, every view was granted to its owner, and
every request, reply and observation in flight, late ones too, names an epoch
that exists.

- `LeaseTypeCorrect`: types, with the epoch between 1 and `MaxEpoch` (no wrap);
  `LeaseOneHolderPerEpoch`.
- `LeaseImplementsLedger`: step simulation of EpochLedger when fenced writes check
  the lease item (`FenceOnLease`). The condition is needed: `lease_item_fence` is
  the counterexample without it.
- `LeaseOnlyDelayOrStepShortens`. ExpiryInv: no expiry is later than the clock that
  is furthest ahead would give now (LatestExpiry), and a renewal under way carries
  the latest of its sender's but for MaxSkew.
- `LeaseTakeoverAfterExpiry`, if twice the skew is at most the safety margin, no
  clock reaches the last representable time and no request is applied after its
  caller gave up. TakeoverInv: a claim under way was eligible by a clock that is
  ahead by MaxSkew, and nobody believes in an expiry more than MaxSkew after the
  item's. Each hypothesis is one the code states or section 5 shows to be needed.

**IntakeProofs** (`BatchConfigAssumption`). IntakeIndInv says that the batch and
then the channel are the unanswered tail of what was accepted, in order
(TailInv), that exactly the calls of that tail wait (WaitInv), who holds the mutex
(LockInv), what has an index (IndexInv) and how the timer relates to the first
entry (TimerInv). From it `IntakeSafe` (IntakeInv, so nobody waits for an answer
that cannot come), `LogInSubmissionOrder`, `ShutdownCutsCleanly` and
`CadenceCounted`.

**DdbProofs** (`DdbLinkAssumption`). Per link: what was sent, what is drained and
what is pending is together what was discovered, the dedup keys known to the
scheduler are exactly those, nothing queued is from the future, and a batch under
way was old enough when it was drained. The loop over vanished keys and
`drain_due` are lemmas (DiscoverAccounts, DrainAccounts, DeletedAccounts).
`LinksDeliver` is DeliveryInv for any topology. `NewestPutStands` is LastPutWins;
LatestInv adds that no item is newer than the newest change that reached it, which
is why that change was not refused.

`LinkCatchesUp` is CatchesUp, if in every deployment where a link is the only feed
of its target no key returns to a content it had (`NoReturns`). The setups of run
`ddb` satisfy it; without it `ddb_repeat` is the counterexample. CatchesUp speaks
of quiet moments only, so FeedsInv has to say what is so in the middle of a scan
of a table that changes meanwhile. For a link that is an only feed (FeedInv):

- *Faithful*: a dedup key the scheduler knows stands for a change that was told
  (queued since the process started), and for that key and content;
- *SourceInv, ToldInv*: what was told the source once had, and nothing was told
  after the content it has now. Here contents that return would break it;
- *LiveInv, ScanInv*: a key of the last complete scan, or one this scan found, is
  not absent now if its deletion was told already, so its next deletion is a new
  dedup key. Of the pages read, either the item is still as it was seen or the
  present content has not been told;
- *GoneInv*: a key that is neither known as live nor found, and that no failure
  hid, was never told or was told last to be gone;
- *TargetInv*: the target holds what was told and sent last, and its timestamps
  are readings of earlier batches, so a refusal that is not for an equal reading
  cannot happen;
- *QuietInv*: since the last write, what the scan saw is what there is.

The argument is in two layers. Lemmas over plain values say what each step does to
what was told: one `discover` (DiscoverLearns), the loop over vanished keys
(DeletedLearns), a page (PageRead), a complete or broken scan (ScanComplete,
ScanCutShort), a write (FreshWrite), a request (OneSent). One lemma per action
(FeedOf...) then applies them to the state. Steps of other links are apart from
the link (OtherLinkApart): that is what OnlyFeed is for.

**S3Proofs** (`S3LinkAssumption`). S3IndInv adds, for versions: what is known to
the scheduler is exactly what was listed (FromListing, AllListed), every copy was
sent and without a failure everything sent is there (Copied), with paced changes
at most one version of a key is unlisted and the queue is in the order of the
versions (Ordered). LocksInv rests on it: what LocksCarried says of a copy holds
also of the version that is being copied, for each kind of lock that was asked for
(UnderWay), and delete markers have no locks. That a listing, versions first and delete markers after them, leaves
nothing out is ListingLists. `VersionsOnce`, `PacedHistory`, `LocksFollow`.

**KvProofs** (`KvAssumption`, `MaxU64Assumption`).

- `BackendsKeepContract`: ReplicatedKv, with either backend, refines KvContract
  step by step. KvInv says which calls can be in which phase, what each write
  under way can do, and that only a request to the table takes effect without an
  answer, so the exceptions for resent writes are DynamoDB's alone. The core are the lemmas that the expressions `cloud-aws`
  builds and the loop of `cloud-memory` compute the same item (UpdatesAgree, and
  for transactions the Copy lemmas), by induction over the actions of an update
  and the operations of a transaction.
- `QueriesComplete`: ProgressOK, a key that must be reported is found or is still to
  be read, and that the choice of keys by partition and sort key is the choice by
  prefix, by induction over the characters of a key.
- `StoreSafe`: StoreInv if callers treat counters as counters
  (`CountersOnlyCount`: an item with a counter is created only where there is
  none and not deleted, and the counter is only incremented). CounterInv: counters
  only grow, and every number given is at most the counter. Without the
  condition it is plainly false: a caller may put the counter back.
- `TransactionsAreWhole`: TableStaysIntact, for every property `Intact` of the table
  that the callers keep by whole calls (`CallsKeepIntact`: true at first, and any call
  that either backend executes on an intact table leaves it intact; `MCReplicatedKv`
  evaluates it for its calls, and that half of Publish does not have it). The run takes
  for `Intact` that the pointer exists exactly when the epoch has moved. WholeStep:
  a step leaves the items alone or applies all operations of one call to them,
  whether the caller is told, is not, or has given up by then.

**ObjectsProofs** (`ObjectsAssumption`, `RetentionAssumption`). TableInv: ids are
distinct and old, the in-memory store has one version per key, a lock lasts as
long as its class asks. Warned: an Overwrite whose check is over made it before
the current lock. `StoreSafe` (StoreInv, with CreatorKeepsKey), `RetentionHolds`,
`LockedStaysCurrent`. On top of it ListInv: a key that a listing counts on is
occupied, and was found or is yet to be read. With it and a case for each reason
of a refusal (RefusalMeans: what S3 answers, how `classify` reads it for that
operation, and what it says of the store; OwnRefusalsMean: how it reads refusals
that say nothing of the store) `AnswersTrue` is AnswersAreTrue, with the two
exceptions that section 5 describes and no others.

**SignerProofs** (`ClockAssumption`, `SignerAssumption`). ClockIndInv keeps the
interval on its schedule and every sleep tied to its deadline (Due); CallsInv
counts calls against retries and says that a backoff follows a transient failure;
KeyInv ties handles to keys; SessionInv says that
whoever is past the login finds the token logged in. `ClockKeepsTime`,
`AttemptsReportedAreCalls`, `KeyStaysFound`, `RetriesWaitOutBackoff`.

**AcmeProofs** (`ForgedAssumption`, `FlawsAssumption`, `TimeAssumption`,
`SomeAssumption`). Two invariants, one on top of the other:
`NonceInv == TypeOK /\ PresentedIsSpent /\ RequestInv` and
`AccountInv == AccountIndexesAgree /\ AnswersMatchStore`.
PresentedIsSpent says that a nonce some request has presented is neither
outstanding nor to be drawn again, from which "a replay reads badNonce" follows;
AnswersMatchStore ties the id each client was told to an account of the store and
the key of its header to the key that signed.
`AcmeTypeCorrect`, `AcmeReplayReadsBadNonce`, `AcmeIndexesAgree`,
`AcmeLocationNamesSigner`, `AcmeRegistrationIdempotent`,
`AcmeOutstandingNoncesAreLive`.

### 4.2 How loops are proved

The code's loops are recursive functions (`f[n \in 0..N]`) in the modules that are
proved about. TLA+ gives such a function its meaning by CHOOSE, so every loop has
a lemma that a solution exists and one that says what it computes. Both go by
SetInduction, induction for a set of natural numbers, which follows from
NatLessThanWellFounded and WFMin; the library's induction rules over operators
are not usable with the installed provers.

### 4.3 What is only model-checked

- Liveness: ExpiredLeaseChangesHands, CallsReturn, WaitsEnd. The prover has no
  fairness or ENABLED reasoning.
- The log and the documents (`log`): tree, proofs, tiles and codecs are RECURSIVE
  operators, which the prover cannot use.

### 4.4 What proving changed in the models

- *KvContract* promised too much in two places that the bounds of the run had not
  reached: an update without actions of an item that is no map succeeds on
  DynamoDB (`Vacuous`), and an update that took effect, was sent again and then
  found its item undecodable or no map any more is answered with a terminal error
  although it was applied (`FailAgain`). Both are in the calls of the run now.
- *Objects*: HiddenOnlyByEarlierOverwrite was false with four calls, where the
  run has three: a version that comes back by a delete after an overwrite had
  kept the moment of its own lock. `since` is now the moment from which the
  version is current and locked, which is what the property says.
- *FakeClock*: `advance` and `set` clamp what does not fit the word
  (`time_to_nanos`), which had been left out.
- *DdbLink*: CatchesUp needs the last premise of OnlyFeed, that no other link leads
  into the target. With links a->b, b->c and a->c the relay b may hand c a content
  that a has deleted or replaced since, after the direct link's last change (TLC
  finds it within 14 states). No deployment of the run had such a triangle.
- *S3Link, DdbLink*: assumptions that time begins (`MaxTime`, `max_time` at least
  1) and that the keys are finite (where deletions are discovered in a loop over
  them) were implicit.

## 5. What the runs found

The two numbered ones have a violation run; the quotations are in `PROJECT.json`.

1. *Fencing on the written item* (`lease_item_fence`). `epoch_condition` on an
   item other than the lease compares that item's own attribute, which no takeover
   rewrites, so it does not stop a demoted primary, as `protocol.rs:67` says it
   does. A transaction with a ConditionCheck on the lease does.
2. *A content that comes back is not replicated* (`ddb_repeat`). The dedup key of
   a DynamoDB change is its content, and a key once drained is refused for ever:
   writing A, B, A leaves the target at B, and a second deletion of a key is not
   seen.

Seen while modelling; where a property has an exception for it, it is named.

Lease and intake

- A primary that renews between the read and the write of a takeover is demoted
  although its lease is fresh, because the write is guarded by the epoch, which
  `renew` leaves alone (`protocol.rs:395`); `lib.rs:68` says that a demoted primary
  "provably considers its own lease expired". The fence holds. TakeoverAfterExpiry
  is stated for reads that are current; without that premise TLC violates it.
- The margin absorbs clocks that differ by up to it, as `lib.rs:69` says, only while
  no clock is set back: a renewal after its holder's clock was set back leaves the
  holder with a later expiry in mind than the item has until it hears the reply, and
  the challenger's clock may be ahead besides. With a margin equal to the skew TLC
  finds such a takeover; twice the skew is enough, and the theorem assumes it.
- A renewal its caller gave up on that is applied after a newer one, or one made
  after the clock was set back, moves `expires_at` back, although `protocol.rs:311`
  says "only `expires_at` advances". OnlyDelayOrStepShortens says that nothing else
  does, and the second by no more than the clock was set back.
- The cadence is counted from the moment the builder receives the first entry
  (`builder.rs:204`), not from its arrival, as `batch/mod.rs:174` reads.
- `start + offset` saturates at `u64::MAX` (`builder.rs:115`), where two entries
  would get one index; the allocator that hands out `start` is not in the
  repository yet.

Replicator

- A deletion does not win against a put that was drained before it and arrives
  after it: the timestamp goes with the item that DeleteItem removes, and
  `attribute_not_exists(#ts)` lets the put in (`ddb.rs:309`), although `lib.rs:51`
  speaks of last-writer-wins and ADR 4 of both requests. LastPutWins says that this
  is the only way a newer change loses; without the exception TLC violates it in
  Contested.
- Two changes of one item drained on one clock reading get one timestamp and the
  strict condition refuses the second (`ddb.rs:246`), although `ddb.rs:83` says each
  change must be replicated. A change whose write fails is lost as well. A key
  deleted while the process is down, or before a failed scan, is never seen to
  vanish (`ddb.rs:123`). These are the three exceptions of CatchesUp.
- The timestamp is a reading of `SystemTime`. If the clock of a link is set back,
  its later changes are refused until it has caught up, and they are not tried
  again: a fourth way to stay behind that DdbLink, which has one clock that only
  goes forward, does not show.
- Application writes have no timestamp, so any copy overwrites them
  (`ddb.rs:279`); in a topology with a cycle a copy comes back and replaces a newer
  application write, and copies keep circulating.
- `applied_len` counts changes whose write failed (`lag.rs:152`).
- Versions of a key found by one listing are queued newest first, delete markers
  last (`s3.rs:138`), although `s3.rs:17` says that version order is preserved;
  PacedHistoryReplicated assumes one change per listing.
- A failed request for retention or legal hold is read as "no lock"
  (`s3.rs:242`). A lock placed after the request of its kind, between the two
  requests or before the put included, never reaches the copy: the link does not
  look at a version again.

Key-value store

- ConditionFailed after a write: the SDK's repetition of a conditional write whose
  reply was lost fails on the effect of the first attempt, and the caller is told
  ConditionFailed (`ddb_replicated_kv.rs:626`), of which `replicated_kv.rs:284` says
  "nothing was written". Callers must not take it for "somebody else wrote". A
  transaction carries a token and is not exposed to it. KvContract names the
  exception.
- A resend of an Increment skips a value. A write that was applied and is sent
  again may also be answered with a terminal error: access is denied by then, a
  transaction conflicts, or another caller has made the item of an update
  undecodable or no map. So a terminal Transport error does not mean that nothing
  was written (`error.rs:270` makes every code it does not list terminal).
- The backends differ at the edges: an update without actions on a scalar item
  (memory ConditionFailed, DynamoDB Ok); a Set on a scalar (ConditionFailed,
  terminal Transport); the attribute name "", which DynamoDB refuses; two
  operations on one key in a transaction (the last wins, DynamoDB refuses); the
  prefix "/" (empty list, Transport). A transaction cancelled by a
  TransactionConflict becomes a terminal Transport error.
- A prefix without "/" is served by a Scan that is not consistent, although the
  trait says that queries in the region observe committed writes; a query of
  several pages is no snapshot. QueryMissesNothing is stated accordingly.
- The follow-up get may label a refusal by a newer state, and an Increment past
  `u64::MAX` is stored by DynamoDB before it is refused; both are documented.

Objects

- On S3 an Overwrite that looked for a lock before it was placed hides the locked
  version behind a new one, although `object_lock.rs:36` says the object "cannot be
  deleted or overwritten by any principal". HiddenOnlyByEarlierOverwrite says that
  this is the only way.
- A missing permission is reported as a lock: `classify` reads every AccessDenied of
  an overwrite, a delete or an extension as RetentionViolation (`error.rs:85`), also
  for an object without a lock, while `errors.rs:86` files authorization failures
  under Transport. On reads and create-only writes it is a terminal Transport error.
- AlreadyExists for a vacant key: ConditionalRequestConflict is read as AlreadyExists
  (`error.rs:80`), which is terminal, although the write it conflicts with may fail
  or be a delete; `object_lock.rs:49` says "an object already exists at `key`". This
  and the missing permission are the two exceptions of AnswersAreTrue; without
  either of them TLC violates it.
- A delete after an overwrite brings the older version back.
- A write that was executed, whose reply was lost and whose repetition is refused
  for expired credentials or by IAM ends in a terminal error, so such an error does
  not mean that nothing was written.
- A resend of a create-only put answers AlreadyExists although the caller's own
  write took; a resend of an extension may answer NotFound or RetentionViolation.

Documents and the rest

- `Claim::tls_parse` opens a reader of its own for `claim_info`, so offsets in
  errors are relative to it, although `wire/error.rs` says "in the top-level
  input", and the depth budget starts again.
- `ConsistencyProof::verify` takes its sizes from the proof. Binding them to the
  two checkpoints is the caller's task, and there is no caller yet.
- The ACME stores are in memory: a restart forgets accounts and nonces, which the
  code documents as a later step.

## 6. What is not modelled

- The encodings of proofs, tiles, checkpoint keys and JWS, real cryptography,
  ML-DSA and the scheme registry: free constructors, an ideal signature or the
  first failing check stand for them. Error texts and offsets are left out.
- `storage` (every method returns Unimplemented), `cloud-backend`, metrics,
  admin service, generated API, `mtcctl`, AWS client configuration, configuration
  parsing, binaries, test crates: no state that a property of the CA depends on.
- Locks that are lifted: the CA locks in COMPLIANCE mode and sets no legal hold.
- The default-retention rule of a bucket, and clocks of S3 and its callers that
  differ: they are one clock in Objects.
- DynamoDB's and S3's own guarantees: each request is atomic, a listing page is a
  snapshot of one key. A real page holds many keys; single keys per page only add
  interleavings.

About 18 % of the lines of the crates are mapped. The rest is mostly not logic:
doc comments and unit tests in the source files, integration tests and test
utilities, the generated admin API, metrics rendering, command line and
configuration. What is left of state-changing code outside the list above is the
metrics registry (independent atomic counters) and the admin health state.

## 7. Plan

RangesDecompose and the index arithmetic of MerkleTree can be proved if the
operators it needs are rewritten as recursive functions in a module of their own.

The write path composed from Lease, BatchIntake and TransparencyLog waits until
the repository has one.
