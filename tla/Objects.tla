------------------------------ MODULE Objects ------------------------------
(***************************************************************************)
(* The traits ObjectStore and ObjectLock (crates/cloud-types) as the two   *)
(* backends implement them: the in-memory one (crates/cloud-memory), whose *)
(* calls run under one lock and which keeps one object per key, and the S3 *)
(* one (crates/cloud-aws), whose calls are one or two requests to a bucket *)
(* that keeps a stack of versions per key.                                 *)
(*                                                                         *)
(* S3 and the SDK are external: a reply can get lost, the SDK can repeat a *)
(* request, one its caller gave up on can still be executed, and S3 can    *)
(* refuse a request for reasons that have nothing to do with the object.   *)
(* S3 locks versions, not keys; the dates come from the caller's policy    *)
(* (crates/retention).                                                     *)
(***************************************************************************)
EXTENDS AwsErrors, Retention, Sequences, FiniteSets

Seqs == INSTANCE SequencesExt

CONSTANTS Clients, Keys, Calls,
          Configs,       \* the retention configurations to try
          Backends,      \* of {"memory", "s3"}
          MaxCalls,      \* calls in all
          MaxResends,    \* how often the SDK sends one request again
          MaxNow         \* the clock stops here

\* What a call is; only put_with_retention has a class of object, and a date
\* to extend a lock to is a SystemTime.  The year 9999 does not come.
ASSUME ObjectsAssumption ==
  /\ MaxCalls \in Nat /\ MaxResends \in Nat
  /\ MaxNow \in Nat /\ MaxNow < Indefinite
  /\ \A c \in Configs : c.retention_days \in Int /\ c.dev_override_minutes \in Seq(Int)
  /\ \A op \in Calls :
       /\ op \in [type : {"get", "head", "list", "put", "put_with_retention", "delete",
                         "extend_retention", "get_retention"},
                 key : Keys, class : ObjectClass \cup {"none"},
                 mode : {"IfNotExists", "Overwrite", "none"}, until : Nat,
                 prefix : {op.prefix}, data : Nat, asked : Nat]
       /\ op.class \in ObjectClass <=> op.type = "put_with_retention"
       /\ op.type = "extend_retention" => MaxNow + op.until <= MaxTime

VARIABLES backend, config,
          now,           \* the clock of the callers and of the store
          versions,      \* [Keys -> Seq(version)], the current one last
          ids,           \* version ids, new locks and deletions so far
          call,          \* [Clients -> the call under way]
          answer,        \* the answer that the last step gave, if any
          late,          \* requests whose caller gave up, still on their way
          issued,        \* calls so far
          refused,       \* S3 gave the last answer for reasons of its own
          creator        \* [Keys -> data of the creators told Ok, until the key
                         \*          is overwritten or deleted]

vars == <<backend, config, now, versions, ids, call, answer, late, issued, refused, creator>>
store == <<versions, ids, creator>>

Unlocked == 0

\* StoredObject, or a version of S3.  class: what the retention was for; asked:
\* when its writer was called; since: when it got a lock or became the current
\* version again, as a value of ids.
Version(op) ==
  [id |-> ids + 1, data |-> op.data, retain_until |-> op.until,
   class |-> op.class, asked |-> op.asked, since |-> ids + 1]

Idle == [phase |-> "idle"]
Phase(c) == call[c].phase
Op(c) == call[c].op
Sent(c, type) == Phase(c) = "sent" /\ Op(c).type = type

Occupied(k) == versions[k] # <<>>
Current(k) == versions[k][Len(versions[k])]
IsLocked(v) == now < v.retain_until

Ok(value) == [type |-> "Ok", value |-> value]
Done == Ok(0)
Listed(found) == [type |-> "Ok", list |-> found]
Unanswered == [type |-> "Unanswered"]

policy == build(config)

\* A call as it is made: data identifies it; until is the date the policy gives
\* a retained write, or the date to extend a lock to.
Made(op) ==
  [op EXCEPT !.data = issued + 1, !.asked = now,
             !.until = IF op.class \in ObjectClass THEN retain_until(policy.value, op.class, now).value
                       ELSE IF op.type = "extend_retention" THEN now + op.until ELSE Unlocked]

\* The policy exists and the date it gives is representable.
Possible(op) ==
  op.class \in ObjectClass =>
    policy.type = "Ok" /\ retain_until(policy.value, op.class, now).type = "Ok"

Matching(prefix) == {k \in Keys : Seqs!IsPrefix(prefix, k)}

Init ==
  /\ backend \in Backends /\ config \in Configs
  /\ now = 0 /\ versions = [k \in Keys |-> <<>>] /\ ids = 0
  /\ call = [c \in Clients |-> Idle]
  /\ answer = Unanswered
  /\ late = {} /\ issued = 0 /\ refused = FALSE /\ creator = [k \in Keys |-> {}]

\* rest: keys a listing has yet to read; stable: keys occupied since the call;
\* seen: what the first of two requests read; mark: ids given out by then.
Invoke(c, op) ==
  /\ Phase(c) = "idle" /\ issued < MaxCalls /\ Possible(op)
  /\ issued' = issued + 1
  /\ call' = [call EXCEPT ![c] =
       [phase |-> "sent", op |-> Made(op), resends |-> 0, took |-> FALSE, seen |-> 0, mark |-> 0,
        rest |-> IF op.type = "list" THEN Matching(op.prefix) ELSE {}, found |-> {},
        stable |-> IF op.type = "list" THEN {k \in Matching(op.prefix) : Occupied(k)} ELSE {}]]
  /\ answer' = Unanswered
  /\ UNCHANGED <<backend, config, now, versions, ids, late, creator>>

Tick ==
  /\ now < MaxNow
  /\ now' = now + 1
  /\ answer' = Unanswered
  /\ UNCHANGED <<backend, config, versions, ids, call, late, issued, creator>>

\* The listings under way forget a key that is vacant.
Seeing(calls, table) ==
  [c \in Clients |-> IF calls[c].phase = "idle" THEN calls[c]
                     ELSE [calls[c] EXCEPT !.stable = {k \in @ : table[k] # <<>>}]]

Answer(c, result) ==
  /\ call' = Seeing([call EXCEPT ![c] = Idle], versions')
  /\ answer' = result
  /\ UNCHANGED <<backend, config, now, late, issued>>

\* The answer leaves the objects alone.
Reply(c, result) == UNCHANGED store /\ Answer(c, result)

\* The changes a request can make to the objects of a key.  told: its caller
\* gets to know.
Creates(k, table, op, told) ==
  /\ versions' = [versions EXCEPT ![k] = table]
  /\ ids' = ids + 1
  /\ creator' = [creator EXCEPT ![k] = IF told THEN @ \cup {op.data} ELSE @]

Overwrites(k, table) ==
  /\ versions' = [versions EXCEPT ![k] = table]
  /\ ids' = ids + 1
  /\ creator' = [creator EXCEPT ![k] = {}]

\* The current version is still the one before.
TopRemains(k, table) ==
  Occupied(k) /\ table # <<>> /\ table[Len(table)].id = Current(k).id

Deletes(k, table) ==
  /\ versions' = [versions EXCEPT ![k] = table]
  /\ ids' = ids + 1
  /\ creator' = [creator EXCEPT ![k] = IF TopRemains(k, table) THEN @ ELSE {}]

CreateOnly(op) == op.type = "put_with_retention" \/ (op.type = "put" /\ op.mode = "IfNotExists")
IsOverwrite(op) == op.type = "put" /\ op.mode = "Overwrite"

-----------------------------------------------------------------------------
(* The in-memory backend: one object per key.                              *)

Memory(c, type) == backend = "memory" /\ Sent(c, type)

\* reject_if_retained: the object's date has not come.
reject_if_retained(k) == Occupied(k) /\ IsLocked(Current(k))

MemoryPut(c) ==
  /\ backend = "memory" /\ Phase(c) = "sent"
  /\ LET op == Op(c) k == op.key
     IN  \/ CreateOnly(op) /\ Occupied(k) /\ Reply(c, AlreadyExists)
         \/ /\ CreateOnly(op) /\ ~Occupied(k)
            /\ Creates(k, <<Version(op)>>, op, TRUE) /\ Answer(c, Done)
         \/ IsOverwrite(op) /\ reject_if_retained(k) /\ Reply(c, RetentionViolation)
         \/ /\ IsOverwrite(op) /\ ~reject_if_retained(k)
            /\ Overwrites(k, <<Version(op)>>) /\ Answer(c, Done)

MemoryGet(c) ==
  /\ Memory(c, "get")
  /\ Reply(c, IF Occupied(Op(c).key) THEN Ok(Current(Op(c).key).data) ELSE NotFound)

MemoryHead(c) ==
  /\ Memory(c, "head")
  /\ Reply(c, IF Occupied(Op(c).key) THEN Ok(Current(Op(c).key).data) ELSE NotFound)

MemoryList(c) ==
  /\ Memory(c, "list")
  /\ Reply(c, Listed({k \in Matching(Op(c).prefix) : Occupied(k)}))

MemoryDelete(c) ==
  /\ Memory(c, "delete")
  /\ LET k == Op(c).key
     IN  \/ ~Occupied(k) /\ Reply(c, NotFound)
         \/ Occupied(k) /\ reject_if_retained(k) /\ Reply(c, RetentionViolation)
         \/ /\ Occupied(k) /\ ~reject_if_retained(k)
            /\ Deletes(k, <<>>) /\ Answer(c, Done)

\* The object has no lock, or there is none.
NoLock(k) == Occupied(k) => Current(k).retain_until = Unlocked

\* Retention is forward-only.
Forward(new, current) == new > current

\* The date of the current version is set.
Relocks(k, until) ==
  LET last == Len(versions[k])
      fresh == Current(k).retain_until = Unlocked
  IN  /\ versions' = [versions EXCEPT ![k][last].retain_until = until,
                                      ![k][last].since = IF fresh THEN ids + 1 ELSE @]
      /\ ids' = IF fresh THEN ids + 1 ELSE ids
      /\ UNCHANGED creator

MemoryExtendRetention(c) ==
  /\ Memory(c, "extend_retention")
  /\ LET k == Op(c).key
     IN  \/ NoLock(k) /\ Reply(c, NotFound)
         \/ /\ ~NoLock(k) /\ ~Forward(Op(c).until, Current(k).retain_until)
            /\ Reply(c, RetentionViolation)
         \/ /\ ~NoLock(k) /\ Forward(Op(c).until, Current(k).retain_until)
            /\ Relocks(k, Op(c).until) /\ Answer(c, Done)

MemoryGetRetention(c) ==
  /\ Memory(c, "get_retention")
  /\ Reply(c, IF NoLock(Op(c).key) THEN NotFound ELSE Ok(Current(Op(c).key).retain_until))

-----------------------------------------------------------------------------
(* The S3 backend.                                                         *)

S3(c, type) == backend = "s3" /\ Sent(c, type)

\* The request that changes something is the one to send next.
Writing(c) ==
  /\ backend = "s3"
  /\ \/ Phase(c) = "sent" /\ CreateOnly(Op(c))
     \/ Phase(c) = "checked"

\* How the operation under way maps an error.
OpClass(c) ==
  IF CreateOnly(Op(c)) THEN "CreateOnlyWrite"
  ELSE IF Phase(c) = "sent" THEN "Read"
  ELSE IF Op(c).type = "extend_retention" THEN "RetentionExtend"
  ELSE "RetentionGuardedWrite"

\* current_retention: GetObjectRetention of the current version.
current_retention(k) == IF NoLock(k) THEN Unlocked ELSE Current(k).retain_until

GetObject(c) ==
  /\ S3(c, "get")
  /\ Reply(c, IF Occupied(Op(c).key) THEN Ok(Current(Op(c).key).data) ELSE NotFound)

HeadObject(c) ==
  /\ S3(c, "head")
  /\ Reply(c, IF Occupied(Op(c).key) THEN Ok(Current(Op(c).key).data) ELSE NotFound)

GetObjectRetention(c) ==
  /\ S3(c, "get_retention")
  /\ Reply(c, IF NoLock(Op(c).key) THEN NotFound ELSE Ok(current_retention(Op(c).key)))

\* ListObjectsV2: one key of the listing after the other.
ListPage(c, k) ==
  /\ S3(c, "list") /\ k \in call[c].rest
  /\ call' = [call EXCEPT ![c].rest = @ \ {k},
                          ![c].found = @ \cup (IF Occupied(k) THEN {k} ELSE {})]
  /\ answer' = Unanswered
  /\ UNCHANGED <<backend, config, now, versions, ids, late, issued, creator>>

\* is_truncated is false.
Drained(c) == call[c].rest = {}

ListEnd(c) ==
  /\ S3(c, "list") /\ Drained(c)
  /\ Reply(c, Listed(call[c].found))

\* The first of two requests has succeeded; what it read is kept.
Proceed(c, seen) ==
  /\ call' = [call EXCEPT ![c].phase = "checked", ![c].seen = seen, ![c].mark = ids]
  /\ answer' = Unanswered
  /\ UNCHANGED <<backend, config, now, versions, ids, late, issued, creator>>

\* put with Overwrite looks for a retention, expired or not, before it writes.
CheckOverwrite(c) ==
  /\ backend = "s3" /\ Phase(c) = "sent" /\ IsOverwrite(Op(c))
  /\ \/ current_retention(Op(c).key) # Unlocked /\ Reply(c, RetentionViolation)
     \/ current_retention(Op(c).key) = Unlocked /\ Proceed(c, 0)

\* delete resolves the current version.
ResolveVersion(c) ==
  /\ S3(c, "delete")
  /\ \/ ~Occupied(Op(c).key) /\ Reply(c, NotFound)
     \/ Occupied(Op(c).key) /\ Proceed(c, Current(Op(c).key).id)

\* extend_retention compares with the date it read.
CheckExtension(c) ==
  /\ S3(c, "extend_retention")
  /\ LET read == current_retention(Op(c).key)
     IN  \/ read = Unlocked /\ Reply(c, NotFound)
         \/ read # Unlocked /\ ~Forward(Op(c).until, read) /\ Reply(c, RetentionViolation)
         \/ read # Unlocked /\ Forward(Op(c).until, read) /\ Proceed(c, read)

\* If-None-Match: * is left out of the request.
PreconditionFails_never(op) == FALSE

\* If-None-Match: *, which every create-only request carries.
PreconditionFails(op) == CreateOnly(op) /\ Occupied(op.key)

\* Why S3 refuses the write request r = [op, seen, mark], or "".
Refuses(r) ==
  LET k == r.op.key
  IN  CASE PreconditionFails(r.op) -> "PreconditionFailed"
        [] r.op.type = "put_with_retention" /\ ~PreconditionFails(r.op) /\ r.op.until <= now ->
             "InvalidArgument"
        [] r.op.type = "delete"
           /\ \E v \in Seqs!ToSet(versions[k]) : v.id = r.seen /\ IsLocked(v) -> "AccessDenied"
        [] r.op.type = "extend_retention" /\ ~Occupied(k) -> "NoSuchKey"
        [] r.op.type = "extend_retention" /\ Occupied(k) /\ r.op.until <= now -> "InvalidArgument"
        [] r.op.type = "extend_retention" /\ Occupied(k) /\ r.op.until > now
           /\ r.op.until < Current(k).retain_until -> "AccessDenied"
        [] OTHER -> ""

\* DeleteObject without a version: a delete marker becomes the current version.
AfterDelete_marker(r) ==
  Append(versions[r.op.key],
         [Current(r.op.key) EXCEPT !.id = ids + 1, !.data = 0, !.retain_until = Unlocked])

\* DeleteObject of one version; the version below it becomes the current one.
AfterDelete(r) ==
  LET table == versions[r.op.key]
      at == {i \in DOMAIN table : table[i].id = r.seen}
  IN  IF at = {} THEN table
      ELSE LET i == CHOOSE j \in at : TRUE
           IN  IF i = Len(table) /\ i > 1
               THEN [Seqs!Front(table) EXCEPT ![i - 1].since = ids + 1]
               ELSE Seqs!RemoveAt(table, i)

\* What the write request r does.
Executes(r, told) ==
  LET k == r.op.key
  IN  CASE CreateOnly(r.op) -> Creates(k, Append(versions[k], Version(r.op)), r.op, told)
        [] IsOverwrite(r.op) -> Overwrites(k, Append(versions[k], Version(r.op)))
        [] r.op.type = "delete" -> Deletes(k, AfterDelete(r))
        [] r.op.type = "extend_retention" -> Relocks(k, r.op.until)

Request(c) == [op |-> Op(c), seen |-> call[c].seen, mark |-> call[c].mark]

RefuseWrite(c) ==
  /\ Writing(c) /\ Refuses(Request(c)) # ""
  /\ Reply(c, map_error(OpClass(c), ServiceError(Refuses(Request(c)), 400)))

\* Another put or delete of the key is on its way.
Contended(c) ==
  \E r \in {Request(d) : d \in {e \in Clients \ {c} : Writing(e)}} \cup late :
    r.op.key = Op(c).key /\ r.op.type # "extend_retention"

\* S3 refuses a request for reasons of its own: the caller may not make it, its
\* credentials are over, or a create-only write conflicts with another write.
AccessDenied == ServiceError("AccessDenied", 403)
RequestConflict == ServiceError("ConditionalRequestConflict", 409)

Refusals(c) ==
  {AccessDenied, ServiceError("ExpiredToken", 400)}
  \cup IF CreateOnly(Op(c)) /\ Contended(c) THEN {RequestConflict} ELSE {}

ServiceRefuses(c, err) ==
  /\ backend = "s3" /\ Phase(c) \in {"sent", "checked"}
  /\ Reply(c, map_error(OpClass(c), err))
  /\ refused' = TRUE

ExecuteWrite(c) ==
  /\ Writing(c) /\ Refuses(Request(c)) = ""
  /\ Executes(Request(c), TRUE)
  /\ Answer(c, Done)

\* The request is executed and its reply is lost.
LoseReply(c) ==
  /\ Writing(c) /\ Refuses(Request(c)) = ""
  /\ Executes(Request(c), FALSE)
  /\ call' = Seeing([call EXCEPT ![c].phase = "lost", ![c].took = TRUE], versions')
  /\ answer' = Unanswered
  /\ UNCHANGED <<backend, config, now, late, issued>>

\* The SDK sends the request without an answer again.
Resend(c) ==
  /\ backend = "s3" /\ Phase(c) = "lost" /\ call[c].resends < MaxResends
  /\ call' = [call EXCEPT ![c].phase = IF CreateOnly(Op(c)) THEN "sent" ELSE "checked",
                          ![c].resends = @ + 1]
  /\ answer' = Unanswered
  /\ UNCHANGED <<backend, config, now, versions, ids, late, issued, creator>>

\* Errors that leave open whether a request was executed.
Unknowns == {SdkFailure("TimeoutError"), ServiceError("InternalError", 500)}

\* No answer: the request was executed, was not, or still will be.
GiveUp(c, err) ==
  /\ backend = "s3" /\ Phase(c) # "idle"
  /\ call' = [call EXCEPT ![c] = Idle]
  /\ answer' = map_error(OpClass(c), err)
  /\ \/ late' = late
     \/ Writing(c) /\ late' = late \cup {Request(c)}
  /\ UNCHANGED <<backend, config, now, versions, ids, issued, creator>>

\* A request whose caller is gone arrives.
LateWrite(r) ==
  /\ r \in late
  /\ late' = late \ {r}
  /\ \/ Refuses(r) # "" /\ UNCHANGED store
     \/ Refuses(r) = "" /\ Executes(r, FALSE)
  /\ call' = Seeing(call, versions')
  /\ answer' = Unanswered
  /\ UNCHANGED <<backend, config, now, issued>>

-----------------------------------------------------------------------------
\* A step of the store or of its callers.
Step ==
  \/ Tick
  \/ \E r \in late : LateWrite(r)
  \/ \E c \in Clients :
       \/ \E op \in Calls : Invoke(c, op)
       \/ MemoryPut(c) \/ MemoryGet(c) \/ MemoryHead(c) \/ MemoryList(c) \/ MemoryDelete(c)
       \/ MemoryExtendRetention(c) \/ MemoryGetRetention(c)
       \/ GetObject(c) \/ HeadObject(c) \/ GetObjectRetention(c)
       \/ \E k \in Keys : ListPage(c, k)
       \/ ListEnd(c)
       \/ CheckOverwrite(c) \/ ResolveVersion(c) \/ CheckExtension(c)
       \/ RefuseWrite(c) \/ ExecuteWrite(c) \/ LoseReply(c) \/ Resend(c)
       \/ \E err \in Unknowns : GiveUp(c, err)

Next ==
  \/ Step /\ refused' = FALSE
  \/ \E c \in Clients : Phase(c) # "idle" /\ \E err \in Refusals(c) : ServiceRefuses(c, err)

Spec == Init /\ [][Next]_vars

-----------------------------------------------------------------------------
\* The variables have their types: the in-memory store keeps one object per key,
\* version ids are not reused, and every lock date is a time that can be
\* represented (checked_add in retain_until).
TypeOK ==
  /\ backend \in Backends /\ config \in Configs /\ now \in 0..MaxNow /\ issued \in 0..MaxCalls
  /\ \A k \in Keys :
       /\ backend = "memory" => Len(versions[k]) <= 1
       /\ \A i, j \in DOMAIN versions[k] : versions[k][i].id = versions[k][j].id => i = j
       /\ \A i \in DOMAIN versions[k] : versions[k][i].retain_until \in 0..MaxTime
  /\ \A c \in Clients : Phase(c) \in {"idle", "sent", "checked", "lost"}

\* A locked version is there, with its bytes and no earlier date, after every
\* step: deletes, overwrites, extensions, repeated and late requests included
\* (reject_if_retained and extend_retention in memory, versioned requests on S3).
RetentionHonoured ==
  [][\A k \in Keys : \A i \in DOMAIN versions[k] :
       LET v == versions[k][i]
       IN  IsLocked(v) => \E w \in Seqs!ToSet(versions'[k]) :
             w.id = v.id /\ w.data = v.data /\ w.retain_until >= v.retain_until]_vars

\* An object written with the retention of its class goes no earlier than the
\* configured window after its writer was called, and a pruning checkpoint never
\* goes (RetentionPolicyConfig::build, retain_until, put_with_retention, delete).
RetainedAsConfigured ==
  [][\A k \in Keys : \A i \in DOMAIN versions[k] :
       LET v == versions[k][i]
       IN  v.class \in ObjectClass /\ v.id \notin {w.id : w \in Seqs!ToSet(versions'[k])}
             => v.class # "PruningCheckpoint" /\ now >= v.asked + policy.value]_vars

\* Retention from the configured window to the last day of the lock.
RetentionKept == RetentionHonoured /\ RetainedAsConfigured

Hidden(k) ==
  /\ Occupied(k) /\ IsLocked(Current(k))
  /\ versions'[k] = <<>> \/ versions'[k][Len(versions'[k])].id # Current(k).id

\* A locked current version stays the one that readers get, unless an Overwrite
\* that looked for a lock before it was locked or current writes on top of it:
\* the check and the write of put are two requests on S3.  (The trait promises more: "the
\* object cannot be deleted or overwritten by any principal".)
HiddenOnlyByEarlierOverwrite ==
  [][\A k \in Keys : Hidden(k) =>
       \E r \in {Request(c) : c \in {d \in Clients : Phase(d) = "checked"}} \cup late :
         IsOverwrite(r.op) /\ r.op.key = k /\ r.mark < Current(k).since]_vars

\* Of several creators of a key one is told Ok, and while nobody overwrites or
\* deletes it the key holds that one's bytes (If-None-Match in one request, also
\* when it is repeated or executed late).
CreatorKeepsKey ==
  \A k \in Keys : creator[k] # {} => Occupied(k) /\ creator[k] = {Current(k).data}

\* Types, with no date past the last representable time, one version per key in
\* memory and distinct version ids, and one creator per key.
StoreInv == TypeOK /\ CreatorKeepsKey

\* A call ends in this step.
Ends(c) == Phase(c) # "idle" /\ Phase(c)' = "idle"

\* The date of op has come, or a version of its key has a lock.
Over(op) == op.until <= now
HasLock(k) == \E v \in Seqs!ToSet(versions[k]) : v.retain_until # Unlocked

\* Each error is given for what it says: AlreadyExists for an occupied key,
\* NotFound for a vacant one or a missing lock, RetentionViolation for a lock
\* or a date that is over, a terminal Transport for such a date or a refusal of
\* the service.  There are two exceptions, and no read has any: a create-only write
\* that conflicts with another is told AlreadyExists, and the second request of a
\* guarded write that IAM denies RetentionViolation (classify, per operation; the
\* request may have been executed before).
ErrorsSayWhatHappened ==
  [][\A c \in Clients : Ends(c) =>
       LET op == Op(c) error == answer'
       IN  /\ error = AlreadyExists =>
                /\ CreateOnly(op)
                /\ Occupied(op.key) \/ (refused' /\ Contended(c))
           /\ error = NotFound => IF op.type \in {"extend_retention", "get_retention"}
                                  THEN NoLock(op.key) ELSE ~Occupied(op.key)
           /\ error = RetentionViolation =>
                \/ HasLock(op.key)
                \/ op.type = "extend_retention" /\ Over(op)
                \/ refused' /\ Phase(c) = "checked"
           /\ error = Transport(FALSE) =>
                refused' \/ (op.type = "put_with_retention" /\ Over(op))]_vars

\* A listing reports every key under its prefix that holds an object throughout
\* the call, although it is read page by page.
ListMissesNothing ==
  [][\A c \in Clients :
       Phase(c) = "sent" /\ Op(c).type = "list" /\ Phase(c)' = "idle" /\ answer'.type = "Ok"
         => call[c].stable \subseteq answer'.list]_vars

\* What a caller is told was true of the store: errors and listings.
AnswersAreTrue == ErrorsSayWhatHappened /\ ListMissesNothing
=============================================================================
