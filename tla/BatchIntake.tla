---------------------------- MODULE BatchIntake ----------------------------
(***************************************************************************)
(* The in-memory entry intake of the CA service: IntakeQueue (producer     *)
(* half), BatchBuilder (consumer half) and the completion handles that     *)
(* resolve each submit_entry call (crates/ca-service/src/batch).           *)
(*                                                                         *)
(* A submission is an element of Entry; its LogEntry payload is never      *)
(* read here.  submit_entry takes the sender's mutex in one step and hands *)
(* the entry to the channel in another, so that shutdown, the drop of the  *)
(* receiver and the builder interleave with it as they do in the program.  *)
(* The channel is tokio's bounded mpsc and the consumer of the batches is  *)
(* the future write path; both are modelled from how this code uses them.  *)
(* Time is relative: timer counts down to the builder's deadline.          *)
(***************************************************************************)
EXTENDS Integers, Sequences, FiniteSets

CONSTANTS Entry,          \* one element per call of submit_entry
          MaxBatchSize,   \* BatchConfig::max_batch_size, also the capacity
          Cadence,        \* BatchConfig::cadence, in clock ticks
          MaxIndex,       \* u64::MAX of an Index
          Abandons,       \* bound: futures and batches the callers drop
          NoEntry         \* nobody holds the sender's mutex

\* BatchConfig::new refuses a batch of no entries.
ASSUME BatchConfigAssumption ==
  /\ MaxBatchSize \in Nat \ {0}
  /\ Cadence \in Nat
  /\ MaxIndex \in Nat
  /\ Abandons \in Nat
  /\ NoEntry \notin Entry

VARIABLES lock,       \* holder of the mutex around the sender
          open,       \* the mutex holds Some(sender): shutdown not called yet
          receiving,  \* the BatchBuilder, and so the receiver, is alive
          queue,      \* the channel's buffer
          pc,         \* where the builder's task is
          batch,      \* the builder's entries, then the emitted Batch
          timer,      \* ticks to the cadence deadline, or NoDeadline
          next_index, \* first index the write path has not allocated
          status,     \* status[e]: the state of the submit_entry call e
          index,      \* index[e]: the index the consumer gave e, or -1
          accepted,   \* history: the entries in the order the channel took them
          held,       \* history: ticks since the builder took batch[1], up to Cadence
          abandons,   \* futures and batches dropped so far
          far         \* now + cadence overflows SystemTime; never changes

vars == <<lock, open, receiving, queue, pc, batch, timer, next_index, status,
          index, accepted, held, abandons, far>>
shared == <<lock, open, receiving, queue, far>>
builder == <<pc, batch, timer, held>>

\* What a submit_entry call is doing, or returned: "Failed" is any error the
\* consumer chose, "Gone" a call whose future was dropped.
Status == {"unsent", "locked", "waiting", "Ok", "Failed", "QueueFull",
           "Shutdown", "Gone"}

NoDeadline == -1

ToSet(s) == {s[i] : i \in 1..Len(s)}

Init ==
  /\ lock = NoEntry /\ open = TRUE /\ receiving = TRUE
  /\ queue = <<>> /\ batch = <<>>
  /\ pc = "idle" /\ timer = NoDeadline /\ held = 0
  /\ next_index = 0
  /\ status = [e \in Entry |-> "unsent"]
  /\ index = [e \in Entry |-> -1]
  /\ accepted = <<>>
  /\ abandons = 0
  /\ far \in BOOLEAN

---------------------------------------------------------------------------
(* The submitters. *)

\* try_enqueue takes the mutex and borrows the sender, or finds None and
\* returns at once.  A submitter refused for a full queue may retry.
submit_lock(e) ==
  /\ status[e] \in {"unsent", "QueueFull"}
  /\ lock = NoEntry
  /\ IF open
     THEN lock' = e /\ status' = [status EXCEPT ![e] = "locked"]
     ELSE lock' = lock /\ status' = [status EXCEPT ![e] = "Shutdown"]
  /\ UNCHANGED <<open, receiving, queue, builder, next_index, index, accepted, abandons, far>>

\* What tokio's try_send answers, mapped to an IntakeError.
TrySend(e) ==
  IF ~receiving THEN "Shutdown"
  ELSE IF Len(queue) >= MaxBatchSize THEN "QueueFull" ELSE "waiting"

\* try_send under the guard, the guard's drop, and the start of rx.await.
try_enqueue(e) ==
  /\ lock = e
  /\ lock' = NoEntry
  /\ status' = [status EXCEPT ![e] = TrySend(e)]
  /\ IF TrySend(e) = "waiting"
     THEN /\ queue' = Append(queue, e)
          /\ accepted' = Append(accepted, e)
     ELSE UNCHANGED <<queue, accepted>>
  /\ UNCHANGED <<open, receiving, builder, next_index, index, abandons, far>>

\* The submitter's task is cancelled while it awaits: its receiver is gone,
\* the entry stays where it is.
cancel_submit(e) ==
  /\ status[e] = "waiting"
  /\ abandons < Abandons
  /\ abandons' = abandons + 1
  /\ status' = [status EXCEPT ![e] = "Gone"]
  /\ UNCHANGED <<shared, builder, next_index, index, accepted>>

\* A shutdown that does not take the mutex, or a try_enqueue that clones the
\* sender and releases it before sending.
shutdown_unlocked ==
  /\ open
  /\ open' = FALSE
  /\ UNCHANGED <<lock, receiving, queue, builder, next_index, status, index,
                 accepted, abandons, far>>

shutdown ==
  /\ open
  /\ lock = NoEntry
  /\ open' = FALSE
  /\ UNCHANGED <<lock, receiving, queue, builder, next_index, status, index,
                 accepted, abandons, far>>

---------------------------------------------------------------------------
(* The builder's task. *)

\* checked_add: no deadline when the addition overflows.
deadline == IF far THEN NoDeadline ELSE Cadence

\* recv().await? with an entry in the channel: the batch's first entry, and
\* the deadline counted from the moment the builder received it.
next_batch_first ==
  /\ pc = "idle" /\ receiving
  /\ queue # <<>>
  /\ batch' = <<Head(queue)>>
  /\ queue' = Tail(queue)
  /\ timer' = deadline
  /\ held' = 0
  /\ pc' = "accumulating"
  /\ UNCHANGED <<lock, open, receiving, next_index, status, index, accepted, abandons, far>>

\* recv() is None: the sender is dropped and the buffer drained.
Closed == ~open /\ queue = <<>>

next_batch_end ==
  /\ pc = "idle" /\ receiving
  /\ Closed
  /\ pc' = "ended"
  /\ UNCHANGED <<shared, batch, timer, held, next_index, status, index,
                 accepted, abandons>>

\* The batch as a stack.
Received_reversed(e) == <<e>> \o batch

Received(e) == Append(batch, e)

\* A deadline counted from the latest entry.
next_batch_recv_resetting ==
  /\ pc = "accumulating"
  /\ Len(batch) < MaxBatchSize
  /\ queue # <<>>
  /\ batch' = Received(Head(queue))
  /\ queue' = Tail(queue)
  /\ timer' = deadline
  /\ UNCHANGED <<lock, open, receiving, pc, held, next_index, status,
                 index, accepted, abandons, far>>

\* The select! branch that receives; it may win with the deadline past, the
\* branches being polled in random order.
next_batch_recv ==
  /\ pc = "accumulating"
  /\ Len(batch) < MaxBatchSize
  /\ queue # <<>>
  /\ batch' = Received(Head(queue))
  /\ queue' = Tail(queue)
  /\ UNCHANGED <<lock, open, receiving, pc, timer, held, next_index, status,
                 index, accepted, abandons, far>>

\* sleep_until(deadline) is ready.
DeadlineReached == timer = 0

Emit ==
  /\ pc' = "emitted"
  /\ timer' = NoDeadline /\ held' = 0
  /\ UNCHANGED <<shared, batch, next_index, status, index, accepted, abandons>>

next_batch_full == pc = "accumulating" /\ Len(batch) >= MaxBatchSize /\ Emit

\* A loop that waits for its deadline although the channel is closed.
next_batch_break_on_cadence ==
  /\ pc = "accumulating"
  /\ Len(batch) < MaxBatchSize
  /\ DeadlineReached
  /\ Emit

\* The loop breaks on the cadence, or on a channel closed and drained.
next_batch_break ==
  /\ pc = "accumulating"
  /\ Len(batch) < MaxBatchSize
  /\ DeadlineReached \/ Closed
  /\ Emit

\* Every entry whose BatchEntry is dropped unresolved: its submitter reads
\* the closed completion channel as Shutdown.
Dropped(es) ==
  [e \in Entry |-> IF e \in es /\ status[e] = "waiting" THEN "Shutdown"
                   ELSE status[e]]

\* The caller drops the next_batch future: the local entries go with it.
cancel_next_batch ==
  /\ pc = "accumulating"
  /\ abandons < Abandons
  /\ abandons' = abandons + 1
  /\ status' = Dropped(ToSet(batch))
  /\ batch' = <<>> /\ timer' = NoDeadline /\ pc' = "idle" /\ held' = 0
  /\ UNCHANGED <<shared, next_index, index, accepted>>

\* A BatchBuilder whose receiver leaves the buffered entries unanswered.
drop_builder_leaking ==
  /\ receiving /\ pc \in {"idle", "ended"}
  /\ abandons < Abandons
  /\ abandons' = abandons + 1
  /\ receiving' = FALSE /\ pc' = "ended" /\ queue' = <<>>
  /\ UNCHANGED <<lock, open, status, batch, timer, held, next_index, index,
                 accepted, far>>

\* The BatchBuilder is dropped between two calls; its receiver closes the
\* channel and drops what is buffered.
drop_builder ==
  /\ receiving /\ pc \in {"idle", "ended"}
  /\ abandons < Abandons
  /\ abandons' = abandons + 1
  /\ status' = Dropped(ToSet(queue))
  /\ receiving' = FALSE /\ pc' = "ended" /\ queue' = <<>>
  /\ UNCHANGED <<lock, open, batch, timer, held, next_index, index,
                 accepted, far>>

---------------------------------------------------------------------------
(* The consumer of an emitted batch. *)

\* The entries of batch up to position n leave it.
Release(n) ==
  /\ batch' = SubSeq(batch, n + 1, Len(batch))
  /\ pc' = IF n = Len(batch) THEN "idle" ELSE "entries"
  /\ UNCHANGED <<shared, timer, held, accepted>>

\* BatchEntry::complete and fail: the send goes unobserved when the
\* submitter is gone.
Answered(s, es, answer) ==
  [e \in Entry |-> IF e \in es /\ s[e] = "waiting" THEN answer ELSE s[e]]

saturating_add(a, b) == IF a + b > MaxIndex THEN MaxIndex ELSE a + b

\* The offset of an entry of the batch from the batch's first index.
Offset(i) == i - 1

\* complete_sequential(start), with the range the write path allocated.
complete_sequential ==
  /\ pc = "emitted"
  /\ next_index + Len(batch) - 1 <= MaxIndex
  /\ next_index' = next_index + Len(batch)
  /\ index' = [e \in Entry |->
       IF \E i \in 1..Len(batch) : batch[i] = e
       THEN saturating_add(next_index,
                           Offset(CHOOSE i \in 1..Len(batch) : batch[i] = e))
       ELSE index[e]]
  /\ status' = Answered(status, ToSet(batch), "Ok")
  /\ Release(Len(batch))
  /\ UNCHANGED abandons

\* fail_all(error), for a batch abandoned upstream.
fail_all ==
  /\ pc = "emitted"
  /\ status' = Answered(status, ToSet(batch), "Failed")
  /\ Release(Len(batch))
  /\ UNCHANGED <<next_index, index, abandons>>

\* into_entries, then complete or fail of one entry at a time.
complete ==
  /\ pc \in {"emitted", "entries"}
  /\ next_index <= MaxIndex
  /\ next_index' = next_index + 1
  /\ index' = [index EXCEPT ![Head(batch)] = next_index]
  /\ status' = Answered(status, {Head(batch)}, "Ok")
  /\ Release(1)
  /\ UNCHANGED abandons

fail ==
  /\ pc \in {"emitted", "entries"}
  /\ status' = Answered(status, {Head(batch)}, "Failed")
  /\ Release(1)
  /\ UNCHANGED <<next_index, index, abandons>>

\* The consumer drops the batch, or what is left of it.
drop_batch ==
  /\ pc \in {"emitted", "entries"}
  /\ abandons < Abandons
  /\ abandons' = abandons + 1
  /\ status' = Dropped(ToSet(batch))
  /\ Release(Len(batch))
  /\ UNCHANGED <<next_index, index>>

---------------------------------------------------------------------------
Older(n) == IF n < Cadence THEN n + 1 ELSE n

\* The injected clock advances by one tick.
Tick ==
  /\ timer' = IF timer \in {NoDeadline, 0} THEN timer ELSE timer - 1
  /\ held' = IF pc = "accumulating" THEN Older(held) ELSE held
  /\ UNCHANGED <<shared, pc, batch, next_index, status, index, accepted,
                 abandons>>

Submit == \E e \in Entry : submit_lock(e) \/ try_enqueue(e) \/ cancel_submit(e)

next_batch ==
  \/ next_batch_first \/ next_batch_end \/ next_batch_recv
  \/ next_batch_full \/ next_batch_break

Consume ==
  \/ complete_sequential \/ fail_all
  \/ complete \/ fail

Next ==
  \/ Submit \/ shutdown
  \/ next_batch \/ cancel_next_batch \/ drop_builder
  \/ Consume \/ drop_batch
  \/ Tick

Spec == Init /\ [][Next]_vars

\* The runtime polls every ready task, the clock advances, and the write
\* path answers each batch it took.  Nobody has to submit or to shut down,
\* but a submitter that holds the mutex goes on.
FairSpec ==
  /\ Spec
  /\ WF_vars(next_batch) /\ WF_vars(Consume) /\ WF_vars(Tick)
  /\ \A e \in Entry : WF_vars(try_enqueue(e))

---------------------------------------------------------------------------
(* Properties *)

\* Every variable keeps its type; the channel never holds more than a
\* batch's worth of entries, and neither does a batch (mod.rs: the bound is
\* what turns a full queue into QueueFull).
TypeOK ==
  /\ lock \in Entry \cup {NoEntry}
  /\ open \in BOOLEAN /\ receiving \in BOOLEAN
  /\ queue \in Seq(Entry) /\ Len(queue) <= MaxBatchSize
  /\ batch \in Seq(Entry) /\ Len(batch) <= MaxBatchSize
  /\ pc \in {"idle", "accumulating", "emitted", "entries", "ended"}
  /\ timer \in 0..Cadence \cup {NoDeadline}
  /\ held \in 0..Cadence
  /\ next_index \in Nat
  /\ status \in [Entry -> Status]
  /\ index \in [Entry -> Int]
  /\ accepted \in Seq(Entry)
  /\ abandons \in 0..Abandons

\* The entries that some task still owes an answer.
Owed == batch \o queue

\* No submitter is left hanging: a submit_entry call awaits its completion
\* exactly as long as the channel or the builder holds its entry, once.  It
\* is what makes the await of submit_entry end however the builder, the
\* batch or the channel goes away (queue.rs, "rather than a panic or a hang").
NoSubmitterStranded ==
  /\ \A e \in Entry : status[e] = "waiting" => e \in ToSet(Owed)
  /\ \A e \in ToSet(Owed) : status[e] \in {"waiting", "Gone"}
  /\ Cardinality(ToSet(Owed)) = Len(Owed)

\* Types, and every accepted submission is owed exactly one answer.
IntakeInv == TypeOK /\ NoSubmitterStranded

\* The log is in submission order: of two entries that got an index, the one
\* the channel took first has the smaller index, so the indices of a batch
\* are distinct and in FIFO order and no later batch overtakes an earlier one
\* (Batch::into_entries, complete_sequential).
IndicesFollowAcceptance ==
  \A i, j \in 1..Len(accepted) :
    /\ i < j
    /\ index[accepted[i]] >= 0 /\ index[accepted[j]] >= 0
    => index[accepted[i]] < index[accepted[j]]

\* A submit_entry racing shutdown either enqueues first or is refused: once
\* the sender is gone the channel takes nothing (IntakeQueue::shutdown,
\* "never both, never neither").
NothingAcceptedAfterShutdown ==
  [][accepted' # accepted => open]_vars

\* Graceful drain: shutdown itself fails nobody.  An accepted entry is
\* answered Shutdown only when a caller drops the future, the batch or the
\* builder (IntakeQueue::shutdown, "entries already accepted are
\* unaffected").
GracefulDrain ==
  [][\A e \in Entry :
       status[e] = "waiting" /\ status'[e] = "Shutdown"
       => abandons' # abandons]_vars

\* shutdown is a clean cut, whatever it races: nothing is accepted after it,
\* and it fails nothing that was accepted before.
ShutdownIsCleanCut == NothingAcceptedAfterShutdown /\ GracefulDrain

\* The cadence of a batch is counted from the moment the builder received its
\* first entry, whatever arrives later (next_batch, "fixed once"): a batch that
\* is not full is emitted no sooner, except to drain a closed channel, and from
\* then on the builder waits for nothing more.
CadenceFromFirstEntry ==
  [][pc = "accumulating" /\ Len(batch) < MaxBatchSize =>
       /\ pc' = "emitted" => held = Cadence \/ Closed
       /\ held = Cadence /\ ~far => DeadlineReached]_vars

\* Every submit_entry call that the channel accepted returns, as long as the
\* clock advances and the consumer answers its batches: a lone entry on the
\* cadence trigger, or, when its deadline overflows, at shutdown.
EveryAcceptedAnswered ==
  \A e \in Entry :
    status[e] = "waiting" /\ (~far \/ ~open) ~> status[e] # "waiting"

\* After shutdown the builder's loop comes to its end: next_batch returns
\* None once what was accepted is drained, without a reachable deadline too.
ShutdownEndsBuilder == ~open ~> pc = "ended"

\* The two calls that wait come back: submit_entry once its entry is accepted,
\* next_batch once the intake is shut down.
CallsReturn == EveryAcceptedAnswered /\ ShutdownEndsBuilder
============================================================================
