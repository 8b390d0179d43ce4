---------------------------- MODULE IntakeProofs ----------------------------
(***************************************************************************)
(* Proofs about BatchIntake, for any set of submissions, batch size,       *)
(* cadence, index width and number of abandoned calls.                     *)
(***************************************************************************)
EXTENDS BatchIntake, TLAPS, FiniteSetTheorems, SequenceTheorems

\* How many accepted entries have left the intake.
Left == Len(accepted) - Len(batch) - Len(queue)

\* The builder's task has entries exactly from the first recv to the answer
\* of the last one.
PcInv == pc \in {"idle", "ended"} <=> batch = <<>>

\* The holder of the mutex is the one call between the two steps of
\* try_enqueue, and it holds a sender: shutdown cannot have taken it.
LockInv ==
  /\ \A e \in Entry : status[e] = "locked" => lock = e
  /\ lock # NoEntry => open /\ status[lock] = "locked"

\* The batch and then the channel are the last entries accepted, in order.
TailInv ==
  /\ Left >= 0
  /\ \A i \in 1..Len(batch) : batch[i] = accepted[Left + i]
  /\ \A i \in 1..Len(queue) : queue[i] = accepted[Left + Len(batch) + i]

\* No entry is accepted twice, and no accepted one is submitted again.
AcceptedInv ==
  /\ \A i, j \in 1..Len(accepted) : accepted[i] = accepted[j] => i = j
  /\ \A i \in 1..Len(accepted) :
       status[accepted[i]] \in {"waiting", "Gone", "Ok", "Failed", "Shutdown"}

\* The calls that wait are those whose entry has not left.
WaitInv ==
  /\ \A e \in Entry : status[e] = "waiting"
       => \E i \in (Left + 1)..Len(accepted) : accepted[i] = e
  /\ \A i \in (Left + 1)..Len(accepted) :
       status[accepted[i]] \in {"waiting", "Gone"}

\* Indices are given to entries as they leave, below the next one.
IndexInv ==
  /\ \A e \in Entry : index[e] \in Int /\ index[e] < next_index
  /\ \A e \in Entry : (\A i \in 1..Len(accepted) : accepted[i] # e) => index[e] = -1
  /\ \A i \in (Left + 1)..Len(accepted) : index[accepted[i]] = -1

\* The deadline, if there is one, is a cadence after the builder took the first
\* entry, and only an overflow leaves a batch without.
TimerInv ==
  /\ pc = "accumulating" /\ timer # NoDeadline => timer + held = Cadence
  /\ pc = "accumulating" /\ ~far => timer # NoDeadline

IntakeIndInv ==
  /\ TypeOK /\ PcInv /\ LockInv /\ TailInv /\ AcceptedInv /\ WaitInv
  /\ IndexInv /\ IndicesFollowAcceptance /\ TimerInv

-----------------------------------------------------------------------------
(* The initial state, and the actions of the submitters. *)

\* The queue starts open and empty.
LEMMA InitInv == Init => IntakeIndInv
BY BatchConfigAssumption
DEF Init, IntakeIndInv, TypeOK, PcInv, LockInv, TailInv, AcceptedInv, WaitInv, IndexInv,
    IndicesFollowAcceptance, TimerInv, Left, Status, NoDeadline

\* What the types say of the three sequences.
LEMMA SequenceTypes ==
  ASSUME TypeOK
  PROVE  /\ accepted \in Seq(Entry) /\ batch \in Seq(Entry) /\ queue \in Seq(Entry)
         /\ Len(accepted) \in Nat /\ Len(batch) \in Nat /\ Len(queue) \in Nat
         /\ Left \in Int
         /\ \A i \in 1..Len(accepted) : accepted[i] \in Entry
BY DEF TypeOK, Left

\* A step that leaves the sequences alone, takes no answered call back and
\* stops no other call from waiting keeps what is said of the accepted entries.
LEMMA StatusStep ==
  ASSUME IntakeIndInv,
         accepted' = accepted, batch' = batch, queue' = queue,
         NEW e \in Entry, NEW s,
         status' = [status EXCEPT ![e] = s],
         s # "waiting",
         \A i \in 1..Len(accepted) : accepted[i] = e => status[e] = "waiting" /\ s = "Gone"
  PROVE  TailInv' /\ AcceptedInv' /\ WaitInv'
<1> USE DEF IntakeIndInv
<1>1. Left' = Left
  BY DEF Left
<1>2. TailInv'
  BY <1>1 DEF TailInv
<1>3. \A f \in Entry : status'[f] = IF f = e THEN s ELSE status[f]
  BY DEF TypeOK
<1>4. AcceptedInv'
  BY <1>3, SequenceTypes DEF AcceptedInv
<1>5. WaitInv'
  <2>1. \A f \in Entry : status'[f] = "waiting" => status[f] = "waiting"
    BY <1>3
  <2>2. ASSUME NEW i \in (Left + 1)..Len(accepted)
        PROVE  status'[accepted[i]] \in {"waiting", "Gone"}
    BY <1>3, SequenceTypes DEF WaitInv, TailInv
  <2> QED BY <2>1, <2>2, <1>1 DEF WaitInv
<1> QED BY <1>2, <1>4, <1>5

\* try_enqueue up to the borrowed sender.
LEMMA SubmitLockInv ==
  ASSUME IntakeIndInv, NEW e \in Entry, submit_lock(e)
  PROVE  IntakeIndInv'
<1> USE BatchConfigAssumption DEF IntakeIndInv, submit_lock, builder
<1>1. TypeOK'
  BY DEF TypeOK, Status
<1>2. LockInv'
  BY DEF TypeOK, LockInv
<1>3. PcInv' /\ IndexInv' /\ IndicesFollowAcceptance' /\ TimerInv'
  BY DEF PcInv, TailInv, IndexInv, IndicesFollowAcceptance, TimerInv, Left, NoDeadline
<1>4. \A i \in 1..Len(accepted) : accepted[i] # e
  BY DEF AcceptedInv
<1>5. PICK s \in {"locked", "Shutdown"} : status' = [status EXCEPT ![e] = s]
  OBVIOUS
<1>6. TailInv' /\ AcceptedInv' /\ WaitInv'
  BY <1>4, <1>5, StatusStep
<1> QED
  BY <1>1, <1>2, <1>3, <1>6

\* try_send: the entry joins the tail of the accepted ones, or is refused.
LEMMA TryEnqueueInv ==
  ASSUME IntakeIndInv, NEW e \in Entry, try_enqueue(e)
  PROVE  IntakeIndInv'
<1> USE BatchConfigAssumption DEF IntakeIndInv
<1>1. status[e] = "locked" /\ open /\ lock' = NoEntry /\ e # NoEntry
  BY DEF LockInv, TypeOK, try_enqueue
<1>2. \A i \in 1..Len(accepted) : accepted[i] # e
  BY <1>1 DEF AcceptedInv
<1>3. PcInv' /\ TimerInv' /\ LockInv'
  BY <1>1 DEF PcInv, TimerInv, LockInv, TypeOK, NoDeadline, TrySend, try_enqueue, builder
<1>4. CASE TrySend(e) # "waiting"
  <2>1. PICK s \in {"QueueFull", "Shutdown"} : s = TrySend(e)
    BY <1>4 DEF TrySend
  <2>2. /\ queue' = queue /\ accepted' = accepted /\ batch' = batch
        /\ index' = index /\ next_index' = next_index
        /\ status' = [status EXCEPT ![e] = s]
    BY <1>4, <2>1 DEF try_enqueue, builder
  <2>3. TypeOK'
    BY <2>1, <2>2 DEF TypeOK, Status, try_enqueue, builder
  <2>4. IndexInv' /\ IndicesFollowAcceptance'
    BY <2>2 DEF IndexInv, IndicesFollowAcceptance, Left
  <2>5. TailInv' /\ AcceptedInv' /\ WaitInv'
    BY <1>2, <2>2, StatusStep
  <2> QED
    BY <1>3, <2>3, <2>4, <2>5
<1>5. CASE TrySend(e) = "waiting"
  <2>0. /\ queue \in Seq(Entry) /\ accepted \in Seq(Entry)
        /\ Len(queue) \in Nat /\ Len(accepted) \in Nat /\ Len(batch) \in Nat
        /\ Left \in Int /\ Left >= 0
        /\ Left = Len(accepted) - Len(batch) - Len(queue)
    BY SequenceTypes DEF TailInv, Left
  <2>1. /\ queue' = Append(queue, e) /\ accepted' = Append(accepted, e)
        /\ batch' = batch /\ index' = index /\ next_index' = next_index
        /\ status' = [status EXCEPT ![e] = "waiting"]
    BY <1>5 DEF try_enqueue, builder
  <2>2. Len(queue) < MaxBatchSize
    BY <1>5, <2>0 DEF TrySend
  <2>3. /\ Len(accepted') = Len(accepted) + 1 /\ Len(queue') = Len(queue) + 1
        /\ \A i \in 1..Len(accepted) : accepted'[i] = accepted[i]
        /\ accepted'[Len(accepted) + 1] = e
        /\ \A i \in 1..Len(queue) : queue'[i] = queue[i]
        /\ queue'[Len(queue) + 1] = e
    BY <2>0, <2>1
  <2>4. Left' = Left
    BY <2>0, <2>1, <2>3 DEF Left
  <2>5. \A f \in Entry : status'[f] = IF f = e THEN "waiting" ELSE status[f]
    BY <2>1 DEF TypeOK
  <2>6. TypeOK'
    BY <2>0, <2>1, <2>2, <2>3 DEF TypeOK, Status, try_enqueue, builder
  <2>7. TailInv'
    <3>1. ASSUME NEW i \in 1..Len(batch')
          PROVE  batch'[i] = accepted'[Left + i]
      <4>1. i \in 1..Len(batch) /\ Left + i \in 1..Len(accepted)
        BY <2>0, <2>1
      <4> QED BY <4>1, <2>1, <2>3 DEF TailInv
    <3>2. ASSUME NEW i \in 1..Len(queue')
          PROVE  queue'[i] = accepted'[Left + Len(batch) + i]
      <4>1. CASE i = Len(queue) + 1
        BY <4>1, <2>0, <2>3
      <4>2. CASE i # Len(queue) + 1
        <5>1. i \in 1..Len(queue) /\ Left + Len(batch) + i \in 1..Len(accepted)
          BY <4>2, <2>0, <2>3
        <5> QED BY <5>1, <2>3 DEF TailInv
      <4> QED BY <4>1, <4>2
    <3> QED BY <2>0, <2>1, <2>4, <3>1, <3>2 DEF TailInv
  <2>8. AcceptedInv'
    <3>1. ASSUME NEW i \in 1..Len(accepted'), NEW j \in 1..Len(accepted'),
                 accepted'[i] = accepted'[j]
          PROVE  i = j
      BY <3>1, <1>2, <2>0, <2>3 DEF AcceptedInv
    <3>2. ASSUME NEW i \in 1..Len(accepted')
          PROVE  status'[accepted'[i]] \in {"waiting", "Gone", "Ok", "Failed", "Shutdown"}
      BY <1>2, <2>0, <2>3, <2>5, SequenceTypes DEF AcceptedInv
    <3> QED BY <3>1, <3>2 DEF AcceptedInv
  <2>9. WaitInv'
    <3>1. ASSUME NEW f \in Entry, status'[f] = "waiting"
          PROVE  \E i \in (Left + 1)..Len(accepted') : accepted'[i] = f
      <4>1. CASE f = e
        <5>1. Len(accepted) + 1 \in (Left + 1)..Len(accepted')
          BY <2>0, <2>3
        <5> QED BY <4>1, <5>1, <2>3
      <4>2. CASE f # e
        <5>1. PICK i \in (Left + 1)..Len(accepted) : accepted[i] = f
          BY <4>2, <3>1, <2>5 DEF WaitInv
        <5>2. i \in (Left + 1)..Len(accepted') /\ i \in 1..Len(accepted)
          BY <2>0, <2>3
        <5> QED BY <5>1, <5>2, <2>3
      <4> QED BY <4>1, <4>2
    <3>2. ASSUME NEW i \in (Left + 1)..Len(accepted')
          PROVE  status'[accepted'[i]] \in {"waiting", "Gone"}
      BY <2>0, <2>3, <2>5, SequenceTypes DEF WaitInv
    <3> QED BY <3>1, <3>2, <2>4 DEF WaitInv
  <2>10. index[e] = -1
    BY <1>2 DEF IndexInv
  <2>11. IndexInv'
    <3>2. \A f \in Entry : index'[f] \in Int /\ index'[f] < next_index'
      BY <2>1 DEF IndexInv
    <3>3. ASSUME NEW f \in Entry, \A i \in 1..Len(accepted') : accepted'[i] # f
          PROVE  index'[f] = -1
      BY <3>3, <2>0, <2>1, <2>3 DEF IndexInv
    <3>4. ASSUME NEW i \in (Left + 1)..Len(accepted')
          PROVE  index'[accepted'[i]] = -1
      BY <2>10, <2>0, <2>1, <2>3 DEF IndexInv
    <3> QED BY <3>2, <3>3, <3>4, <2>4 DEF IndexInv
  <2>12. IndicesFollowAcceptance'
    <3>1. ASSUME NEW i \in 1..Len(accepted'), NEW j \in 1..Len(accepted'), i < j,
                 index'[accepted'[i]] >= 0, index'[accepted'[j]] >= 0
          PROVE  index'[accepted'[i]] < index'[accepted'[j]]
      <4>1. j \in 1..Len(accepted) /\ i \in 1..Len(accepted)
        <5>1. ~(-1 >= 0)
          OBVIOUS
        <5>2. j # Len(accepted) + 1
          BY <3>1, <5>1, <2>1, <2>3, <2>10
        <5> QED BY <3>1, <5>2, <2>0, <2>3
      <4> QED BY <3>1, <4>1, <2>1, <2>3 DEF IndicesFollowAcceptance
    <3> QED BY <3>1 DEF IndicesFollowAcceptance
  <2> QED
    BY <1>3, <2>6, <2>7, <2>8, <2>9, <2>11, <2>12
<1> QED
  BY <1>4, <1>5

\* A cancelled submitter leaves its entry where it is.
LEMMA CancelSubmitInv ==
  ASSUME IntakeIndInv, NEW e \in Entry, cancel_submit(e)
  PROVE  IntakeIndInv'
<1> USE BatchConfigAssumption DEF IntakeIndInv, cancel_submit, builder, shared
<1>1. TypeOK'
  BY DEF TypeOK, Status
<1>2. PcInv' /\ IndexInv' /\ IndicesFollowAcceptance' /\ TimerInv'
  BY DEF PcInv, IndexInv, IndicesFollowAcceptance, TimerInv, Left, NoDeadline
<1>3. LockInv'
  BY DEF TypeOK, LockInv
<1>4. TailInv' /\ AcceptedInv' /\ WaitInv'
  BY StatusStep
<1> QED
  BY <1>1, <1>2, <1>3, <1>4

\* shutdown takes the sender only when nobody borrows it.
LEMMA ShutdownInv ==
  ASSUME IntakeIndInv, shutdown
  PROVE  IntakeIndInv'
<1> USE BatchConfigAssumption DEF IntakeIndInv, shutdown, builder
<1>1. TypeOK'
  BY DEF TypeOK
<1>2. PcInv' /\ TailInv' /\ IndexInv' /\ IndicesFollowAcceptance' /\ TimerInv'
  BY DEF PcInv, TailInv, IndexInv, IndicesFollowAcceptance, TimerInv, Left, NoDeadline
<1>3. LockInv' /\ AcceptedInv' /\ WaitInv'
  BY DEF LockInv, AcceptedInv, WaitInv, Left
<1> QED
  BY <1>1, <1>2, <1>3

-----------------------------------------------------------------------------
(* The builder's task. *)

\* recv moves an entry from the front of the channel to the end of the batch.
LEMMA RecvStep ==
  ASSUME IntakeIndInv, queue # <<>>,
         batch' = Append(batch, Head(queue)), queue' = Tail(queue),
         accepted' = accepted, status' = status, index' = index,
         next_index' = next_index
  PROVE  /\ TailInv' /\ AcceptedInv' /\ WaitInv'
         /\ IndexInv' /\ IndicesFollowAcceptance'
         /\ batch' \in Seq(Entry) /\ Len(batch') = Len(batch) + 1
         /\ queue' \in Seq(Entry) /\ Len(queue') = Len(queue) - 1
         /\ batch' # <<>>
<1> USE DEF IntakeIndInv
<1>0. /\ queue \in Seq(Entry) /\ accepted \in Seq(Entry) /\ batch \in Seq(Entry)
      /\ Len(queue) \in Nat /\ Len(accepted) \in Nat /\ Len(batch) \in Nat
      /\ Left \in Int /\ Left >= 0
      /\ Left = Len(accepted) - Len(batch) - Len(queue)
  BY SequenceTypes DEF TailInv, Left
<1>1. /\ Head(queue) = queue[1] /\ Head(queue) \in Entry /\ Len(queue) >= 1
      /\ queue' \in Seq(Entry) /\ Len(queue') = Len(queue) - 1
      /\ \A i \in 1..Len(queue') : queue'[i] = queue[i + 1]
  BY <1>0, HeadTailProperties, EmptySeq
<1>2. /\ batch' \in Seq(Entry) /\ Len(batch') = Len(batch) + 1
      /\ batch'[Len(batch) + 1] = queue[1]
      /\ \A i \in 1..Len(batch) : batch'[i] = batch[i]
  BY <1>0, <1>1
<1>3. Left' = Left
  BY <1>0, <1>1, <1>2 DEF Left
<1>4. TailInv'
  <2>1. ASSUME NEW i \in 1..Len(batch')
        PROVE  batch'[i] = accepted[Left + i]
    <3>1. CASE i = Len(batch) + 1
      <4>0. 1 \in 1..Len(queue)
        BY <1>0, <1>1
      <4>1. queue[1] = accepted[Left + Len(batch) + 1]
        BY <4>0 DEF TailInv
      <4> QED BY <3>1, <4>1, <1>0, <1>2
    <3>2. CASE i # Len(batch) + 1
      <4>1. i \in 1..Len(batch)
        BY <3>2, <1>0, <1>2
      <4> QED BY <4>1, <1>2 DEF TailInv
    <3> QED BY <3>1, <3>2
  <2>2. ASSUME NEW i \in 1..Len(queue')
        PROVE  queue'[i] = accepted[Left + Len(batch') + i]
    <3>1. i + 1 \in 1..Len(queue)
      BY <1>0, <1>1
    <3>2. queue[i + 1] = accepted[Left + Len(batch) + (i + 1)]
      BY <3>1 DEF TailInv
    <3>3. Left + Len(batch) + (i + 1) = Left + Len(batch') + i
      BY <1>0, <1>2
    <3> QED BY <3>2, <3>3, <1>1
  <2> QED BY <2>1, <2>2, <1>0, <1>3 DEF TailInv
<1>5. AcceptedInv' /\ WaitInv' /\ IndexInv' /\ IndicesFollowAcceptance'
  BY <1>3 DEF AcceptedInv, WaitInv, IndexInv, IndicesFollowAcceptance
<1>6. batch' # <<>>
  BY <1>0, <1>2, EmptySeq
<1> QED BY <1>1, <1>2, <1>4, <1>5, <1>6

\* next_batch takes the first entry and sets its deadline.
LEMMA NextBatchFirstInv ==
  ASSUME IntakeIndInv, next_batch_first
  PROVE  IntakeIndInv'
<1> USE BatchConfigAssumption DEF IntakeIndInv, next_batch_first
<1>1. batch = <<>>
  BY DEF PcInv
<1>2. batch' = Append(batch, Head(queue)) /\ Len(batch) = 0
  BY <1>1
<1>3. /\ TailInv' /\ AcceptedInv' /\ WaitInv' /\ IndexInv' /\ IndicesFollowAcceptance'
      /\ batch' \in Seq(Entry) /\ Len(batch') = Len(batch) + 1
      /\ queue' \in Seq(Entry) /\ Len(queue') = Len(queue) - 1
      /\ batch' # <<>>
  BY <1>2, RecvStep
<1>4. timer' \in {Cadence, NoDeadline} /\ held' = 0
  BY DEF deadline
<1>5. TypeOK'
  BY <1>2, <1>3, <1>4 DEF TypeOK, NoDeadline
<1>6. PcInv' /\ LockInv'
  BY <1>3 DEF PcInv, LockInv
<1>7. TimerInv'
  <2>1. ~far' => timer' = Cadence
    BY DEF deadline
  <2> QED BY <1>4, <2>1 DEF TimerInv, NoDeadline
<1> QED BY <1>3, <1>5, <1>6, <1>7

\* next_batch takes another entry; the deadline stays.
LEMMA NextBatchRecvInv ==
  ASSUME IntakeIndInv, next_batch_recv
  PROVE  IntakeIndInv'
<1> USE BatchConfigAssumption DEF IntakeIndInv, next_batch_recv
<1>1. /\ TailInv' /\ AcceptedInv' /\ WaitInv' /\ IndexInv' /\ IndicesFollowAcceptance'
      /\ batch' \in Seq(Entry) /\ Len(batch') = Len(batch) + 1
      /\ queue' \in Seq(Entry) /\ Len(queue') = Len(queue) - 1
      /\ batch' # <<>>
  BY RecvStep DEF Received
<1>2. TypeOK'
  BY <1>1 DEF TypeOK
<1>3. PcInv' /\ LockInv' /\ TimerInv'
  BY <1>1 DEF PcInv, LockInv, TimerInv, NoDeadline
<1> QED BY <1>1, <1>2, <1>3

\* next_batch returns None.
LEMMA NextBatchEndInv ==
  ASSUME IntakeIndInv, next_batch_end
  PROVE  IntakeIndInv'
BY BatchConfigAssumption
DEF IntakeIndInv, next_batch_end, shared, TypeOK, PcInv, LockInv, TailInv, AcceptedInv,
    WaitInv, IndexInv, IndicesFollowAcceptance, TimerInv, Left, NoDeadline

\* full, cadence and close: the batch is handed over as it is.
LEMMA EmitInv ==
  ASSUME IntakeIndInv, pc = "accumulating", Emit
  PROVE  IntakeIndInv'
BY BatchConfigAssumption
DEF IntakeIndInv, Emit, shared, TypeOK, PcInv, LockInv, TailInv, AcceptedInv,
    WaitInv, IndexInv, IndicesFollowAcceptance, TimerInv, Left, NoDeadline

\* The deadline comes nearer by what the batch ages.
LEMMA TickInv ==
  ASSUME IntakeIndInv, Tick
  PROVE  IntakeIndInv'
<1> USE BatchConfigAssumption DEF IntakeIndInv, Tick, shared
<1>1. TypeOK' /\ TimerInv'
  BY DEF TypeOK, TimerInv, Older, NoDeadline
<1>2. PcInv' /\ LockInv' /\ TailInv' /\ AcceptedInv' /\ WaitInv' /\ IndexInv'
      /\ IndicesFollowAcceptance'
  BY DEF PcInv, LockInv, TailInv, AcceptedInv, WaitInv, IndexInv, IndicesFollowAcceptance,
     Left
<1> QED BY <1>1, <1>2

-----------------------------------------------------------------------------
(* Entries that leave: answered by the consumer, or dropped. *)

\* The oldest n entries still held are answered, or dropped.
LEMMA LeaveStep ==
  ASSUME IntakeIndInv, NEW n \in Nat, n <= Len(batch) + Len(queue),
         accepted' = accepted, Left' = Left + n, open' = open, lock' = lock,
         NEW es,
         \A f \in Entry : f \in es <=> \E i \in 1..n : accepted[Left + i] = f,
         NEW answer \in {"Ok", "Failed", "Shutdown"},
         status' = Answered(status, es, answer)
  PROVE  AcceptedInv' /\ WaitInv' /\ LockInv' /\ status' \in [Entry -> Status]
<1> USE DEF IntakeIndInv
<1>0. /\ accepted \in Seq(Entry) /\ Len(accepted) \in Nat
      /\ Left \in Int /\ Left >= 0 /\ Left + n <= Len(accepted)
      /\ \A i \in 1..Len(accepted) : accepted[i] \in Entry
  BY SequenceTypes DEF TailInv, Left
<1>1. \A f \in Entry : status'[f] = IF f \in es /\ status[f] = "waiting" THEN answer
                                    ELSE status[f]
  BY DEF Answered
<1>2. status' \in [Entry -> Status]
  BY DEF Answered, TypeOK, Status
<1>3. AcceptedInv'
  BY <1>0, <1>1 DEF AcceptedInv
<1>4. LockInv'
  BY <1>1 DEF LockInv, TypeOK
<1>5. ASSUME NEW f \in Entry, status'[f] = "waiting"
      PROVE  \E i \in (Left' + 1)..Len(accepted') : accepted'[i] = f
  <2>1. status[f] = "waiting" /\ f \notin es
    BY <1>1, <1>5
  <2>2. PICK i \in (Left + 1)..Len(accepted) : accepted[i] = f
    BY <2>1 DEF WaitInv
  <2>3. ~(i <= Left + n)
    <3>1. SUFFICES ASSUME i <= Left + n PROVE FALSE
      OBVIOUS
    <3>2. i - Left \in 1..n /\ Left + (i - Left) = i
      BY <1>0, <3>1
    <3> QED BY <3>2, <2>1, <2>2
  <2>4. i \in (Left' + 1)..Len(accepted')
    BY <1>0, <2>3
  <2> QED BY <2>2, <2>4
<1>6. ASSUME NEW i \in (Left' + 1)..Len(accepted')
      PROVE  status'[accepted'[i]] \in {"waiting", "Gone"}
  <2>1. i \in (Left + 1)..Len(accepted) /\ i \in 1..Len(accepted)
    BY <1>0
  <2>2. accepted[i] \in Entry /\ status[accepted[i]] \in {"waiting", "Gone"}
    BY <1>0, <2>1 DEF WaitInv
  <2>3. accepted[i] \notin es
    <3>1. SUFFICES ASSUME NEW k \in 1..n, accepted[Left + k] = accepted[i] PROVE FALSE
      BY <2>2
    <3>2. Left + k \in 1..Len(accepted) /\ Left + k # i
      BY <1>0
    <3> QED BY <3>1, <3>2, <2>1 DEF AcceptedInv
  <2> QED BY <1>1, <2>2, <2>3
<1>7. WaitInv'
  BY <1>5, <1>6 DEF WaitInv
<1> QED BY <1>2, <1>3, <1>4, <1>7

\* Entries that leave without an index change nothing about the others'.
LEMMA LeaveWithoutIndex ==
  ASSUME IntakeIndInv, NEW n \in Nat,
         accepted' = accepted, Left' = Left + n,
         index' = index, next_index' = next_index
  PROVE  IndexInv' /\ IndicesFollowAcceptance'
<1> USE DEF IntakeIndInv
<1>0. Left \in Int /\ Len(accepted) \in Nat
  BY SequenceTypes
<1>1. \A i \in (Left' + 1)..Len(accepted') : i \in (Left + 1)..Len(accepted)
  BY <1>0
<1>2. IndexInv'
  BY <1>1 DEF IndexInv
<1>3. IndicesFollowAcceptance'
  BY DEF IndicesFollowAcceptance
<1> QED BY <1>2, <1>3

\* The oldest n entries still held get the next n indices, in order.
LEMMA LeaveWithIndex ==
  ASSUME IntakeIndInv, NEW n \in Nat, n <= Len(batch) + Len(queue),
         accepted' = accepted, Left' = Left + n,
         next_index' = next_index + n, index' \in [Entry -> Int],
         \A i \in 1..n : index'[accepted[Left + i]] = next_index + i - 1,
         \A f \in Entry : (\A i \in 1..n : accepted[Left + i] # f) => index'[f] = index[f]
  PROVE  IndexInv' /\ IndicesFollowAcceptance'
<1> USE DEF IntakeIndInv
<1>0. /\ accepted \in Seq(Entry) /\ Len(accepted) \in Nat
      /\ Left \in Int /\ Left >= 0 /\ Left + n <= Len(accepted)
      /\ \A i \in 1..Len(accepted) : accepted[i] \in Entry
      /\ next_index \in Nat
  BY SequenceTypes DEF TailInv, Left, TypeOK
<1>1. ASSUME NEW j \in 1..Len(accepted), j <= Left \/ j > Left + n
      PROVE  index'[accepted[j]] = index[accepted[j]]
  <2>1. ASSUME NEW i \in 1..n PROVE accepted[Left + i] # accepted[j]
    <3>1. Left + i \in 1..Len(accepted) /\ Left + i # j
      BY <1>0, <1>1
    <3> QED BY <3>1 DEF AcceptedInv
  <2> QED BY <2>1, <1>0
<1>2. ASSUME NEW j \in 1..Len(accepted), j > Left, j <= Left + n
      PROVE  index'[accepted[j]] = next_index + (j - Left) - 1
  <2>1. j - Left \in 1..n /\ Left + (j - Left) = j
    BY <1>0, <1>2
  <2> QED BY <2>1
<1>3. IndexInv'
  <2>1. ASSUME NEW f \in Entry
        PROVE  index'[f] \in Int /\ index'[f] < next_index'
    <3>1. CASE \A i \in 1..n : accepted[Left + i] # f
      <4>1. index'[f] = index[f] /\ index[f] \in Int /\ index[f] < next_index
        BY <3>1 DEF IndexInv
      <4> QED BY <4>1, <1>0
    <3>2. CASE \E i \in 1..n : accepted[Left + i] = f
      <4>1. PICK i \in 1..n : accepted[Left + i] = f
        BY <3>2
      <4>2. index'[f] = next_index + i - 1
        BY <4>1
      <4> QED BY <4>2, <1>0
    <3> QED BY <3>1, <3>2
  <2>2. ASSUME NEW f \in Entry, \A i \in 1..Len(accepted') : accepted'[i] # f
        PROVE  index'[f] = -1
    <3>1. \A i \in 1..n : Left + i \in 1..Len(accepted)
      BY SMTT(30), <1>0
    <3>2. index'[f] = index[f]
      BY <2>2, <3>1
    <3> QED BY <2>2, <3>2 DEF IndexInv
  <2>3. ASSUME NEW i \in (Left' + 1)..Len(accepted')
        PROVE  index'[accepted'[i]] = -1
    <3>1. i \in (Left + 1)..Len(accepted) /\ i \in 1..Len(accepted) /\ i > Left + n
      BY <1>0
    <3> QED BY <3>1, <1>1 DEF IndexInv
  <2> QED BY <2>1, <2>2, <2>3 DEF IndexInv
<1>4. IndicesFollowAcceptance'
  <2>1. SUFFICES ASSUME NEW i \in 1..Len(accepted), NEW j \in 1..Len(accepted), i < j,
                        index'[accepted[i]] >= 0, index'[accepted[j]] >= 0
                 PROVE  index'[accepted[i]] < index'[accepted[j]]
    BY DEF IndicesFollowAcceptance
  <2>2. j <= Left + n
    <3>1. SUFFICES ASSUME j > Left + n PROVE FALSE
      BY <1>0
    <3>2. j \in (Left + 1)..Len(accepted)
      BY <1>0, <3>1
    <3>3. index'[accepted[j]] = -1
      BY <1>1, <3>1, <3>2 DEF IndexInv
    <3> QED BY <2>1, <3>3
  <2>3. CASE j <= Left
    <3>1. i <= Left
      BY <2>1, <2>3, <1>0
    <3> QED BY <2>1, <2>3, <3>1, <1>1 DEF IndicesFollowAcceptance
  <2>4. CASE j > Left
    <3>1. index'[accepted[j]] = next_index + (j - Left) - 1
      BY <1>2, <2>2, <2>4
    <3>2. CASE i <= Left
      <4>1. index'[accepted[i]] = index[accepted[i]]
        BY <3>2, <1>1
      <4>2. index[accepted[i]] \in Int /\ index[accepted[i]] < next_index
        BY <1>0 DEF IndexInv
      <4> QED BY <4>1, <4>2, <3>1, <2>4, <1>0
    <3>3. CASE i > Left
      <4>1. i <= Left + n
        BY <2>1, <2>2, <1>0
      <4>2. index'[accepted[i]] = next_index + (i - Left) - 1
        BY <1>2, <3>3, <4>1
      <4> QED BY <4>2, <3>1, <2>1, <1>0
    <3> QED BY <3>2, <3>3, <1>0
  <2> QED BY <2>3, <2>4, <1>0
<1> QED BY <1>3, <1>4

\* Where the entries at the front of the batch are among the accepted ones.
LEMMA FrontOfBatch ==
  ASSUME IntakeIndInv, NEW n \in 0..Len(batch), NEW f
  PROVE  (\E i \in 1..n : batch[i] = f) <=> \E i \in 1..n : accepted[Left + i] = f
<1>1. \A i \in 1..n : batch[i] = accepted[Left + i]
  BY SequenceTypes DEF IntakeIndInv, TailInv
<1> QED BY <1>1

\* The front of the batch leaves it.
LEMMA ReleaseStep ==
  ASSUME IntakeIndInv, pc \in {"emitted", "entries"}, NEW n \in 1..Len(batch), Release(n)
  PROVE  /\ Left' = Left + n
         /\ n \in Nat /\ n <= Len(batch) + Len(queue)
         /\ TailInv' /\ PcInv' /\ TimerInv'
         /\ batch' \in Seq(Entry) /\ Len(batch') = Len(batch) - n
         /\ accepted' = accepted /\ open' = open /\ lock' = lock
<1> USE DEF IntakeIndInv
<1>0. /\ queue \in Seq(Entry) /\ accepted \in Seq(Entry) /\ batch \in Seq(Entry)
      /\ Len(queue) \in Nat /\ Len(accepted) \in Nat /\ Len(batch) \in Nat
      /\ Left \in Int /\ Left >= 0
      /\ Left = Len(accepted) - Len(batch) - Len(queue)
  BY SequenceTypes DEF TailInv, Left
<1>1. /\ batch' = SubSeq(batch, n + 1, Len(batch))
      /\ pc' = IF n = Len(batch) THEN "idle" ELSE "entries"
      /\ queue' = queue /\ accepted' = accepted /\ open' = open /\ lock' = lock
  BY DEF Release, shared
<1>2. \A i \in (n + 1)..Len(batch) : batch[i] \in Entry
  BY <1>0, ElementOfSeq
<1>3. /\ batch' \in Seq(Entry)
      /\ Len(batch') = IF n + 1 <= Len(batch) THEN Len(batch) - (n + 1) + 1 ELSE 0
      /\ \A i \in 1..(Len(batch) - (n + 1) + 1) : batch'[i] = batch[(n + 1) + i - 1]
  <2>1. n + 1 \in Int /\ Len(batch) \in Int
    BY <1>0
  <2> QED BY <2>1, <1>1, <1>2, SubSeqProperties
<1>4. Len(batch') = Len(batch) - n
  BY <1>0, <1>3
<1>5. Left' = Left + n
  <2>1. Left' = Len(accepted) - Len(batch') - Len(queue)
    BY <1>1 DEF Left
  <2> HIDE DEF IntakeIndInv
  <2> QED BY <2>1, <1>0, <1>4
<1>6. TailInv'
  <2>1. ASSUME NEW i \in 1..Len(batch')
        PROVE  batch'[i] = accepted[Left + n + i]
    <3>1. /\ i \in 1..(Len(batch) - (n + 1) + 1)
          /\ (n + 1) + i - 1 = n + i
          /\ n + i \in 1..Len(batch)
          /\ Left + (n + i) = Left + n + i
      BY <1>0, <1>4
    <3>2. batch'[i] = batch[n + i]
      BY <1>3, <3>1
    <3>3. batch[n + i] = accepted[Left + (n + i)]
      BY <3>1 DEF TailInv
    <3> QED BY <3>1, <3>2, <3>3
  <2>2. ASSUME NEW i \in 1..Len(queue')
        PROVE  queue'[i] = accepted[Left + n + Len(batch') + i]
    <3>0. i \in 1..Len(queue) /\ i \in Int
      BY <1>1
    <3>1. Left + n + Len(batch') + i = Left + Len(batch) + i
      <4> HIDE DEF IntakeIndInv
      <4> QED BY <1>0, <1>4, <3>0
    <3> QED BY <3>0, <3>1, <1>1 DEF TailInv
  <2>3. Left' >= 0
    BY <1>0, <1>5
  <2> QED BY <2>1, <2>2, <2>3, <1>1, <1>5 DEF TailInv
<1>7. PcInv'
  <2>1. CASE n = Len(batch)
    <3>1. Len(batch') = 0
      BY <2>1, <1>0, <1>4
    <3> QED BY <3>1, <2>1, <1>1, <1>3, EmptySeq DEF PcInv
  <2>2. CASE n # Len(batch)
    <3>1. Len(batch') # 0
      BY <2>2, <1>0, <1>4
    <3> QED BY <3>1, <2>2, <1>1, <1>3, EmptySeq DEF PcInv
  <2> QED BY <2>1, <2>2
<1>8. TimerInv'
  BY <1>1 DEF TimerInv
<1> QED BY <1>0, <1>1, <1>3, <1>4, <1>5, <1>6, <1>7, <1>8

\* The first entry of a batch that the consumer holds.
LEMMA HeldBatch ==
  ASSUME IntakeIndInv, pc \in {"accumulating", "emitted", "entries"}
  PROVE  /\ batch # <<>> /\ Len(batch) \in Nat /\ Len(batch) >= 1
         /\ 1 \in 1..Len(batch) /\ Len(batch) \in 1..Len(batch)
         /\ Head(batch) = batch[1] /\ Head(batch) \in Entry
<1>1. batch # <<>> /\ batch \in Seq(Entry)
  BY DEF IntakeIndInv, PcInv, TypeOK
<1>2. Len(batch) \in Nat \ {0}
  BY <1>1, EmptySeq
<1> QED BY <1>1, <1>2, HeadTailProperties

\* What is common to the answers of the consumer, and to a dropped batch.
LEMMA ConsumeStep ==
  ASSUME IntakeIndInv, pc \in {"emitted", "entries"},
         NEW n \in 1..Len(batch), Release(n),
         NEW answer \in {"Ok", "Failed", "Shutdown"},
         NEW es, \A f \in Entry : f \in es <=> \E i \in 1..n : batch[i] = f,
         status' = Answered(status, es, answer),
         IndexInv', IndicesFollowAcceptance',
         next_index' \in Nat, index' \in [Entry -> Int], abandons' \in 0..Abandons
  PROVE  IntakeIndInv'
<1>1. /\ Left' = Left + n
      /\ n \in Nat /\ n <= Len(batch) + Len(queue)
      /\ TailInv' /\ PcInv' /\ TimerInv'
      /\ batch' \in Seq(Entry) /\ Len(batch') = Len(batch) - n
      /\ accepted' = accepted /\ open' = open /\ lock' = lock
  BY ReleaseStep
<1>2. n \in 0..Len(batch)
  BY SequenceTypes DEF IntakeIndInv
<1>3. \A f \in Entry : f \in es <=> \E i \in 1..n : accepted[Left + i] = f
  BY <1>2, FrontOfBatch
<1>4. AcceptedInv' /\ WaitInv' /\ LockInv' /\ status' \in [Entry -> Status]
  BY <1>1, <1>3, LeaveStep
<1>5. TypeOK'
  <2>1. Len(batch') <= MaxBatchSize
    BY <1>1, SequenceTypes, BatchConfigAssumption DEF IntakeIndInv, TypeOK
  <2>2. pc' \in {"idle", "entries"}
    BY DEF Release
  <2> QED BY <1>1, <1>4, <2>1, <2>2 DEF IntakeIndInv, TypeOK, Release, shared
<1> QED BY <1>1, <1>4, <1>5 DEF IntakeIndInv

\* The entries of the batch, by position.
LEMMA BatchAsFront ==
  ASSUME IntakeIndInv
  PROVE  \A f \in Entry : f \in ToSet(batch) <=> \E i \in 1..Len(batch) : batch[i] = f
BY DEF ToSet

\* complete_sequential answers the whole batch.
LEMMA CompleteSequentialInv ==
  ASSUME IntakeIndInv, complete_sequential
  PROVE  IntakeIndInv'
<1> USE DEF complete_sequential
<1>1. /\ Len(batch) \in 1..Len(batch) /\ Len(batch) \in Nat
      /\ next_index \in Nat /\ MaxIndex \in Nat /\ index \in [Entry -> Int]
      /\ abandons \in 0..Abandons
      /\ next_index + Len(batch) - 1 <= MaxIndex
  BY HeldBatch, BatchConfigAssumption DEF IntakeIndInv, TypeOK
<1>2. /\ Left' = Left + Len(batch)
      /\ Len(batch) <= Len(batch) + Len(queue)
      /\ accepted' = accepted
  BY <1>1, ReleaseStep
<1>3. \A i, j \in 1..Len(batch) : batch[i] = batch[j] => i = j
  <2>1. SUFFICES ASSUME NEW i \in 1..Len(batch), NEW j \in 1..Len(batch), batch[i] = batch[j]
                 PROVE  i = j
    OBVIOUS
  <2>2. batch[i] = accepted[Left + i] /\ batch[j] = accepted[Left + j]
    BY DEF IntakeIndInv, TailInv
  <2>3. Left + i \in 1..Len(accepted) /\ Left + j \in 1..Len(accepted)
    BY SequenceTypes DEF IntakeIndInv, TailInv, Left
  <2>4. Left + i = Left + j
    BY <2>1, <2>2, <2>3 DEF IntakeIndInv, AcceptedInv
  <2> QED BY <2>4, SequenceTypes DEF IntakeIndInv
<1>4. ASSUME NEW i \in 1..Len(batch)
      PROVE  index'[batch[i]] = next_index + i - 1
  <2>1. batch[i] \in Entry
    BY SequenceTypes, ElementOfSeq DEF IntakeIndInv
  <2>2. (CHOOSE j \in 1..Len(batch) : batch[j] = batch[i]) = i
    BY <1>3
  <2>3. saturating_add(next_index, i - 1) = next_index + i - 1
    BY <1>1 DEF saturating_add
  <2>4. index'[batch[i]] = saturating_add(next_index,
                              Offset(CHOOSE j \in 1..Len(batch) : batch[j] = batch[i]))
    BY <2>1
  <2> QED BY <2>2, <2>3, <2>4 DEF Offset
<1>5. ASSUME NEW f \in Entry, \A i \in 1..Len(batch) : batch[i] # f
      PROVE  index'[f] = index[f]
  BY <1>5
<1>6. index' \in [Entry -> Int]
  <2>1. ASSUME NEW f \in Entry PROVE index'[f] \in Int
    <3>1. CASE \E i \in 1..Len(batch) : batch[i] = f
      <4>1. PICK i \in 1..Len(batch) : batch[i] = f
        BY <3>1
      <4>2. index'[f] = next_index + i - 1
        BY <4>1, <1>4
      <4> QED BY <4>2, <1>1
    <3>2. CASE \A i \in 1..Len(batch) : batch[i] # f
      BY <3>2, <1>1, <1>5
    <3> QED BY <3>1, <3>2
  <2> QED BY <2>1
<1>7. \A i \in 1..Len(batch) : batch[i] = accepted[Left + i]
  BY DEF IntakeIndInv, TailInv
<1>8. next_index' = next_index + Len(batch)
  OBVIOUS
<1>9. IndexInv' /\ IndicesFollowAcceptance'
  <2>1. \A i \in 1..Len(batch) : index'[accepted[Left + i]] = next_index + i - 1
    BY <1>4, <1>7
  <2>2. \A f \in Entry : (\A i \in 1..Len(batch) : accepted[Left + i] # f)
                           => index'[f] = index[f]
    BY <1>5, <1>7
  <2> QED BY <2>1, <2>2, <1>1, <1>2, <1>6, <1>8, LeaveWithIndex
<1>10. next_index' \in Nat /\ abandons' \in 0..Abandons
  BY <1>1, <1>8
<1> QED BY <1>1, <1>6, <1>9, <1>10, BatchAsFront, ConsumeStep

\* BatchEntry::complete answers the first entry left.
LEMMA CompleteInv ==
  ASSUME IntakeIndInv, complete
  PROVE  IntakeIndInv'
<1> USE DEF complete
<1>1. /\ 1 \in 1..Len(batch) /\ Head(batch) = batch[1] /\ Head(batch) \in Entry
      /\ next_index \in Nat /\ index \in [Entry -> Int] /\ abandons \in 0..Abandons
      /\ index' = [index EXCEPT ![Head(batch)] = next_index]
      /\ next_index' = next_index + 1
  BY HeldBatch DEF IntakeIndInv, TypeOK
<1>2. /\ Left' = Left + 1 /\ 1 <= Len(batch) + Len(queue) /\ accepted' = accepted
  BY <1>1, ReleaseStep
<1>3. Head(batch) = accepted[Left + 1]
  BY <1>1 DEF IntakeIndInv, TailInv
<1>4. index' \in [Entry -> Int]
  BY <1>1
<1>5. \A i \in 1..1 : index'[accepted[Left + i]] = next_index + i - 1
  BY <1>1, <1>3
<1>6. \A f \in Entry : (\A i \in 1..1 : accepted[Left + i] # f) => index'[f] = index[f]
  <2>1. ASSUME NEW f \in Entry, \A i \in 1..1 : accepted[Left + i] # f
        PROVE  index'[f] = index[f]
    <3>1. f # Head(batch)
      BY <2>1, <1>3
    <3> QED BY <3>1, <1>1
  <2> QED BY <2>1
<1>7. IndexInv' /\ IndicesFollowAcceptance'
  BY <1>1, <1>2, <1>4, <1>5, <1>6, LeaveWithIndex
<1>8. \A f \in Entry : f \in {Head(batch)} <=> \E i \in 1..1 : batch[i] = f
  BY <1>1
<1>9. next_index' \in Nat /\ abandons' \in 0..Abandons
  BY <1>1
<1> QED BY <1>1, <1>4, <1>7, <1>8, <1>9, ConsumeStep

\* fail_all, fail and drop_batch: no index is given.
LEMMA UnindexedInv ==
  ASSUME IntakeIndInv, pc \in {"emitted", "entries"},
         NEW n \in 1..Len(batch), Release(n),
         NEW answer \in {"Failed", "Shutdown"},
         NEW es, \A f \in Entry : f \in es <=> \E i \in 1..n : batch[i] = f,
         status' = Answered(status, es, answer),
         index' = index, next_index' = next_index, abandons' \in 0..Abandons
  PROVE  IntakeIndInv'
<1>1. Left' = Left + n /\ n \in Nat /\ accepted' = accepted
  BY ReleaseStep
<1>2. IndexInv' /\ IndicesFollowAcceptance'
  BY <1>1, LeaveWithoutIndex
<1>3. next_index' \in Nat /\ index' \in [Entry -> Int]
  BY DEF IntakeIndInv, TypeOK
<1> QED BY <1>2, <1>3, ConsumeStep

\* fail_all answers the whole batch.
LEMMA FailAllInv ==
  ASSUME IntakeIndInv, fail_all
  PROVE  IntakeIndInv'
<1>1. Len(batch) \in 1..Len(batch)
  BY HeldBatch DEF fail_all
<1>2. abandons' \in 0..Abandons
  BY DEF fail_all, IntakeIndInv, TypeOK
<1> QED BY <1>1, <1>2, BatchAsFront, UnindexedInv DEF fail_all

\* BatchEntry::fail answers the first entry left.
LEMMA FailInv ==
  ASSUME IntakeIndInv, fail
  PROVE  IntakeIndInv'
<1>1. 1 \in 1..Len(batch) /\ Head(batch) = batch[1]
  BY HeldBatch DEF fail
<1>2. abandons' \in 0..Abandons
  BY DEF fail, IntakeIndInv, TypeOK
<1>3. \A f \in Entry : f \in {Head(batch)} <=> \E i \in 1..1 : batch[i] = f
  BY <1>1
<1> QED BY <1>1, <1>2, <1>3, UnindexedInv DEF fail

\* The consumer drops what is left of a batch.
LEMMA DropBatchInv ==
  ASSUME IntakeIndInv, drop_batch
  PROVE  IntakeIndInv'
<1>1. Len(batch) \in 1..Len(batch)
  BY HeldBatch DEF drop_batch
<1>2. abandons' \in 0..Abandons
  BY BatchConfigAssumption DEF drop_batch, IntakeIndInv, TypeOK
<1>3. status' = Answered(status, ToSet(batch), "Shutdown")
  BY DEF drop_batch, Dropped, Answered
<1> QED BY <1>1, <1>2, <1>3, BatchAsFront, UnindexedInv DEF drop_batch

\* A cancelled next_batch drops the entries it had taken.
LEMMA CancelNextBatchInv ==
  ASSUME IntakeIndInv, cancel_next_batch
  PROVE  IntakeIndInv'
<1>0. /\ queue \in Seq(Entry) /\ Len(queue) \in Nat /\ Len(accepted) \in Nat
      /\ Len(batch) \in Nat /\ Left \in Int /\ Left >= 0
      /\ Left = Len(accepted) - Len(batch) - Len(queue)
  BY SequenceTypes DEF IntakeIndInv, TailInv, Left
<1>1. /\ batch' = <<>> /\ queue' = queue /\ accepted' = accepted
      /\ open' = open /\ lock' = lock /\ index' = index /\ next_index' = next_index
      /\ status' = Answered(status, ToSet(batch), "Shutdown")
  BY DEF cancel_next_batch, shared, Dropped, Answered
<1>2. Left' = Left + Len(batch)
  BY <1>0, <1>1, EmptySeq DEF Left
<1>3. \A f \in Entry : f \in ToSet(batch) <=> \E i \in 1..Len(batch) : accepted[Left + i] = f
  <2>1. Len(batch) \in 0..Len(batch)
    BY <1>0
  <2> QED BY <2>1, BatchAsFront, FrontOfBatch
<1>4. AcceptedInv' /\ WaitInv' /\ LockInv' /\ status' \in [Entry -> Status]
  <2>1. Len(batch) <= Len(batch) + Len(queue)
    BY <1>0
  <2> QED BY <2>1, <1>0, <1>1, <1>2, <1>3, LeaveStep
<1>5. IndexInv' /\ IndicesFollowAcceptance'
  BY <1>0, <1>1, <1>2, LeaveWithoutIndex
<1>6. TailInv'
  <2>1. ASSUME NEW i \in 1..Len(queue)
        PROVE  queue[i] = accepted[Left + Len(batch) + 0 + i]
    <3>1. Left + Len(batch) + 0 + i = Left + Len(batch) + i
      BY <1>0
    <3> QED BY <3>1 DEF IntakeIndInv, TailInv
  <2>2. Left' >= 0 /\ Len(batch') = 0
    BY <1>0, <1>1, <1>2
  <2> QED BY <2>1, <2>2, <1>1, <1>2 DEF TailInv
<1>7. TypeOK'
  BY <1>1, <1>4, BatchConfigAssumption
  DEF IntakeIndInv, TypeOK, cancel_next_batch, shared, NoDeadline
<1>8. PcInv' /\ TimerInv'
  BY DEF PcInv, TimerInv, cancel_next_batch
<1> QED BY <1>4, <1>5, <1>6, <1>7, <1>8 DEF IntakeIndInv

\* The dropped receiver drops what the channel holds.
LEMMA DropBuilderInv ==
  ASSUME IntakeIndInv, drop_builder
  PROVE  IntakeIndInv'
<1>0. /\ queue \in Seq(Entry) /\ Len(queue) \in Nat /\ Len(accepted) \in Nat
      /\ batch = <<>> /\ Len(batch) = 0 /\ Left \in Int /\ Left >= 0
      /\ Left = Len(accepted) - Len(queue)
  BY SequenceTypes DEF IntakeIndInv, TailInv, Left, PcInv, drop_builder
<1>1. /\ batch' = <<>> /\ queue' = <<>> /\ accepted' = accepted
      /\ open' = open /\ lock' = lock /\ index' = index /\ next_index' = next_index
      /\ status' = Answered(status, ToSet(queue), "Shutdown")
  BY <1>0 DEF drop_builder, Dropped, Answered
<1>2. Left' = Left + Len(queue)
  BY <1>0, <1>1, EmptySeq DEF Left
<1>3. \A f \in Entry : f \in ToSet(queue) <=> \E i \in 1..Len(queue) : accepted[Left + i] = f
  <2>1. ASSUME NEW i \in 1..Len(queue) PROVE queue[i] = accepted[Left + i]
    <3>1. Left + Len(batch) + i = Left + i
      BY <1>0
    <3> QED BY <3>1 DEF IntakeIndInv, TailInv
  <2> QED BY <2>1 DEF ToSet
<1>4. AcceptedInv' /\ WaitInv' /\ LockInv' /\ status' \in [Entry -> Status]
  <2>1. Len(queue) <= Len(batch) + Len(queue)
    BY <1>0
  <2> QED BY <2>1, <1>0, <1>1, <1>2, <1>3, LeaveStep
<1>5. IndexInv' /\ IndicesFollowAcceptance'
  BY <1>0, <1>1, <1>2, LeaveWithoutIndex
<1>6. TailInv'
  <2>1. Left' >= 0 /\ Len(batch') = 0 /\ Len(queue') = 0
    BY <1>0, <1>1, <1>2
  <2> QED BY <2>1 DEF TailInv
<1>7. TypeOK'
  <2>1. /\ lock' = lock /\ open' = open /\ receiving' = FALSE /\ pc' = "ended"
        /\ batch' = batch /\ timer' = timer /\ held' = held /\ next_index' = next_index
        /\ index' = index /\ accepted' = accepted
        /\ abandons < Abandons /\ abandons' = abandons + 1
    BY DEF drop_builder
  <2>2. queue' \in Seq(Entry) /\ Len(queue') <= MaxBatchSize
    BY <1>1, BatchConfigAssumption
  <2>3. abandons' \in 0..Abandons
    BY <2>1, BatchConfigAssumption DEF IntakeIndInv, TypeOK
  <2> QED BY <1>4, <2>1, <2>2, <2>3 DEF IntakeIndInv, TypeOK
<1>8. PcInv' /\ TimerInv'
  BY <1>1 DEF PcInv, TimerInv, drop_builder
<1> QED BY <1>4, <1>5, <1>6, <1>7, <1>8 DEF IntakeIndInv

-----------------------------------------------------------------------------
\* Every step keeps the inductive invariant.
LEMMA StepInv == IntakeIndInv /\ [Next]_vars => IntakeIndInv'
<1> SUFFICES ASSUME IntakeIndInv, [Next]_vars PROVE IntakeIndInv'
  OBVIOUS
<1>1. CASE Submit
  <2>1. PICK e \in Entry : submit_lock(e) \/ try_enqueue(e) \/ cancel_submit(e)
    BY <1>1 DEF Submit
  <2> QED BY <2>1, SubmitLockInv, TryEnqueueInv, CancelSubmitInv
<1>2. CASE shutdown
  BY <1>2, ShutdownInv
<1>3. CASE next_batch
  <2>1. CASE next_batch_first
    BY <2>1, NextBatchFirstInv
  <2>2. CASE next_batch_end
    BY <2>2, NextBatchEndInv
  <2>3. CASE next_batch_recv
    BY <2>3, NextBatchRecvInv
  <2>4. CASE next_batch_full \/ next_batch_break
    BY <2>4, EmitInv DEF next_batch_full, next_batch_break
  <2> QED BY <1>3, <2>1, <2>2, <2>3, <2>4 DEF next_batch
<1>4. CASE cancel_next_batch
  BY <1>4, CancelNextBatchInv
<1>5. CASE drop_builder
  BY <1>5, DropBuilderInv
<1>6. CASE Consume
  BY <1>6, CompleteSequentialInv, FailAllInv, CompleteInv, FailInv DEF Consume
<1>7. CASE drop_batch
  BY <1>7, DropBatchInv
<1>8. CASE Tick
  BY <1>8, TickInv
<1>9. CASE UNCHANGED vars
  BY <1>9 DEF vars, IntakeIndInv, TypeOK, PcInv, LockInv, TailInv, AcceptedInv, WaitInv,
     IndexInv, IndicesFollowAcceptance, TimerInv, Left
<1> QED
  BY <1>1, <1>2, <1>3, <1>4, <1>5, <1>6, <1>7, <1>8, <1>9 DEF Next

\* The channel and the batch hold the unanswered tail of what was accepted, in
\* every reachable state of the intake.
THEOREM IntakeInvariant == Spec => []IntakeIndInv
BY InitInv, StepInv, PTL DEF Spec

\* The set of a sequence without repetitions is as large as the sequence.
LEMMA DistinctElements ==
  ASSUME NEW S, NEW s \in Seq(S),
         \A i, j \in 1..Len(s) : s[i] = s[j] => i = j
  PROVE  Cardinality(ToSet(s)) = Len(s)
<1>1. Len(s) \in Nat /\ s \in [1..Len(s) -> S]
  BY LenProperties
<1>2. [i \in 1..Len(s) |-> s[i]] \in Bijection(1..Len(s), ToSet(s))
  BY <1>1 DEF ToSet, Bijection, Injection, IsInjective, Surjection
<1>3. ExistsBijection(1..Len(s), ToSet(s))
  BY <1>2 DEF ExistsBijection
<1> QED BY <1>1, <1>3, FS_CountingElements

\* The entries still owed an answer are the last ones accepted.
LEMMA OwedIsTail ==
  ASSUME IntakeIndInv
  PROVE  /\ Owed \in Seq(Entry)
         /\ Len(Owed) = Len(batch) + Len(queue)
         /\ \A i \in 1..Len(Owed) : /\ Owed[i] = accepted[Left + i]
                                    /\ Left + i \in (Left + 1)..Len(accepted)
<1> USE DEF IntakeIndInv
<1>0. /\ queue \in Seq(Entry) /\ batch \in Seq(Entry)
      /\ Len(queue) \in Nat /\ Len(accepted) \in Nat /\ Len(batch) \in Nat
      /\ Left \in Int /\ Left >= 0
      /\ Left = Len(accepted) - Len(batch) - Len(queue)
  BY SequenceTypes DEF TailInv, Left
<1>1. /\ Owed \in Seq(Entry) /\ Len(Owed) = Len(batch) + Len(queue)
      /\ \A i \in 1..Len(batch) + Len(queue) :
           Owed[i] = IF i <= Len(batch) THEN batch[i] ELSE queue[i - Len(batch)]
  BY <1>0, ConcatProperties DEF Owed
<1>2. ASSUME NEW i \in 1..Len(Owed)
      PROVE  Owed[i] = accepted[Left + i] /\ Left + i \in (Left + 1)..Len(accepted)
  <2>1. Left + i \in (Left + 1)..Len(accepted)
    BY <1>0, <1>1
  <2>2. CASE i <= Len(batch)
    <3>1. i \in 1..Len(batch)
      BY <2>2, <1>0, <1>1
    <3> QED BY <2>1, <2>2, <3>1, <1>1 DEF TailInv
  <2>3. CASE ~(i <= Len(batch))
    <3>1. /\ i - Len(batch) \in 1..Len(queue)
          /\ Left + Len(batch) + (i - Len(batch)) = Left + i
      BY <2>3, <1>0, <1>1
    <3>2. queue[i - Len(batch)] = accepted[Left + Len(batch) + (i - Len(batch))]
      BY <3>1 DEF TailInv
    <3> QED BY <2>1, <2>3, <3>1, <3>2, <1>1
  <2> QED BY <2>2, <2>3
<1> QED BY <1>1, <1>2

\* The inductive invariant implies what a submitter relies on.
LEMMA NobodyStranded ==
  ASSUME IntakeIndInv
  PROVE  NoSubmitterStranded
<1>0. /\ Len(accepted) \in Nat /\ Left \in Int /\ Left >= 0
      /\ Left = Len(accepted) - Len(batch) - Len(queue)
      /\ Len(batch) \in Nat /\ Len(queue) \in Nat
      /\ \A i \in 1..Len(accepted) : accepted[i] \in Entry
  BY SequenceTypes DEF IntakeIndInv, TailInv, Left
<1>1. ASSUME NEW e \in Entry, status[e] = "waiting"
      PROVE  e \in ToSet(Owed)
  <2>1. PICK i \in (Left + 1)..Len(accepted) : accepted[i] = e
    BY <1>1 DEF IntakeIndInv, WaitInv
  <2>2. i - Left \in 1..Len(Owed) /\ Left + (i - Left) = i
    BY <1>0, OwedIsTail
  <2>3. Owed[i - Left] = e
    BY <2>1, <2>2, OwedIsTail
  <2> QED BY <2>2, <2>3 DEF ToSet
<1>2. ASSUME NEW e \in ToSet(Owed)
      PROVE  status[e] \in {"waiting", "Gone"}
  <2>1. PICK i \in 1..Len(Owed) : Owed[i] = e
    BY DEF ToSet
  <2> QED BY <2>1, OwedIsTail DEF IntakeIndInv, WaitInv
<1>3. \A i, j \in 1..Len(Owed) : Owed[i] = Owed[j] => i = j
  <2>1. SUFFICES ASSUME NEW i \in 1..Len(Owed), NEW j \in 1..Len(Owed), Owed[i] = Owed[j]
                 PROVE  i = j
    OBVIOUS
  <2>2. accepted[Left + i] = accepted[Left + j]
    BY <2>1, OwedIsTail
  <2>3. Left + i \in 1..Len(accepted) /\ Left + j \in 1..Len(accepted)
    BY <1>0, OwedIsTail
  <2>4. Left + i = Left + j
    BY <2>2, <2>3 DEF IntakeIndInv, AcceptedInv
  <2> QED BY <2>4, <1>0
<1>4. Cardinality(ToSet(Owed)) = Len(Owed)
  BY <1>3, OwedIsTail, DistinctElements
<1> QED BY <1>1, <1>2, <1>4 DEF NoSubmitterStranded

\* No submitter is left hanging: in every reachable state a call of
\* submit_entry awaits its completion exactly as long as the channel or the
\* builder holds its entry, and holds it once.
THEOREM IntakeSafe == Spec => []IntakeInv
<1>1. IntakeIndInv => IntakeInv
  BY NobodyStranded DEF IntakeInv, IntakeIndInv
<1> QED BY <1>1, IntakeInvariant, PTL

\* complete_sequential and complete hand out the log's indices in the order
\* in which the channel took the entries.
THEOREM LogInSubmissionOrder == Spec => []IndicesFollowAcceptance
<1>1. IntakeIndInv => IndicesFollowAcceptance
  BY DEF IntakeIndInv
<1> QED BY <1>1, IntakeInvariant, PTL

\* IntakeQueue::shutdown, whatever it races, refuses every later entry and
\* fails none that was accepted.
THEOREM ShutdownCutsCleanly == Spec => ShutdownIsCleanCut
<1>1. IntakeIndInv /\ [Next]_vars => [accepted' # accepted => open]_vars
  <2> SUFFICES ASSUME IntakeIndInv, Next, accepted' # accepted
               PROVE  open
    BY DEF vars
  <2>1. PICK e \in Entry : try_enqueue(e)
    BY DEF Next, Submit, submit_lock, cancel_submit, shutdown, next_batch, next_batch_first,
       next_batch_end, next_batch_recv, next_batch_full, next_batch_break, Emit,
       cancel_next_batch, drop_builder, Consume, complete_sequential, fail_all, complete, fail,
       drop_batch, Release, Tick
  <2>2. lock = e /\ e # NoEntry
    BY <2>1, BatchConfigAssumption DEF try_enqueue
  <2> QED BY <2>2 DEF IntakeIndInv, LockInv
<1>2. IntakeIndInv /\ [Next]_vars =>
        [\A e \in Entry : status[e] = "waiting" /\ status'[e] = "Shutdown"
           => abandons' # abandons]_vars
  <2> SUFFICES ASSUME IntakeIndInv, Next, NEW e \in Entry,
                      status[e] = "waiting", status'[e] = "Shutdown"
               PROVE  abandons' # abandons
    BY DEF vars
  <2>0. abandons \in Nat /\ status \in [Entry -> Status]
    BY BatchConfigAssumption DEF IntakeIndInv, TypeOK
  <2>1. CASE Submit
    <3>1. PICK f \in Entry : submit_lock(f) \/ try_enqueue(f) \/ cancel_submit(f)
      BY <2>1 DEF Submit
    <3>2. CASE f = e
      <4>1. status[f] # "locked"
        BY <3>2
      <4>2. ~try_enqueue(f)
        BY <4>1, BatchConfigAssumption DEF try_enqueue, IntakeIndInv, LockInv
      <4> QED BY <3>1, <3>2, <4>2, <2>0 DEF submit_lock, cancel_submit
    <3>3. CASE f # e
      BY <3>1, <3>3, <2>0 DEF submit_lock, try_enqueue, cancel_submit
    <3> QED BY <3>2, <3>3
  <2>2. CASE shutdown \/ next_batch \/ Tick
    BY <2>2 DEF shutdown, next_batch, next_batch_first, next_batch_end, next_batch_recv,
       next_batch_full, next_batch_break, Emit, Tick
  <2>3. CASE Consume
    BY <2>3 DEF Consume, complete_sequential, fail_all, complete, fail, Answered
  <2>4. CASE cancel_next_batch \/ drop_builder \/ drop_batch
    BY <2>4, <2>0 DEF cancel_next_batch, drop_builder, drop_batch
  <2> QED BY <2>1, <2>2, <2>3, <2>4 DEF Next
<1> QED
  BY <1>1, <1>2, IntakeInvariant, PTL
  DEF Spec, ShutdownIsCleanCut, NothingAcceptedAfterShutdown, GracefulDrain

\* next_batch emits a batch that is not full no sooner than a cadence after
\* its first entry, except to drain a closed channel, and waits no longer
\* than that, whatever it receives in between.
THEOREM CadenceCounted == Spec => CadenceFromFirstEntry
<1>1. IntakeIndInv /\ [Next]_vars =>
        [pc = "accumulating" /\ Len(batch) < MaxBatchSize =>
           /\ pc' = "emitted" => held = Cadence \/ Closed
           /\ held = Cadence /\ ~far => DeadlineReached]_vars
  <2> SUFFICES ASSUME IntakeIndInv, Next, pc = "accumulating",
                      Len(batch) < MaxBatchSize
               PROVE  /\ pc' = "emitted" => held = Cadence \/ Closed
                      /\ held = Cadence /\ ~far => DeadlineReached
    BY DEF vars
  <2>1. ASSUME pc' = "emitted"
        PROVE  held = Cadence \/ Closed
    <3>1. next_batch_full \/ next_batch_break
      BY <2>1 DEF Next, Submit, submit_lock, try_enqueue, cancel_submit, shutdown, builder,
         next_batch, next_batch_first, next_batch_end, next_batch_recv, cancel_next_batch,
         drop_builder, Consume, complete_sequential, fail_all, complete, fail, drop_batch,
         Release, Tick
    <3>2. ~next_batch_full
      BY SequenceTypes, BatchConfigAssumption DEF next_batch_full, IntakeIndInv
    <3>3. CASE DeadlineReached
      <4>1. timer = 0 /\ timer # NoDeadline
        BY <3>3 DEF DeadlineReached, NoDeadline
      <4> QED BY <4>1, BatchConfigAssumption DEF IntakeIndInv, TypeOK, TimerInv
    <3> QED BY <3>1, <3>2, <3>3 DEF next_batch_break
  <2>2. ASSUME held = Cadence, ~far
        PROVE  DeadlineReached
    <3>1. timer # NoDeadline
      BY <2>2 DEF IntakeIndInv, TimerInv
    <3>2. timer + Cadence = Cadence /\ timer \in 0..Cadence
      BY <2>2, <3>1 DEF IntakeIndInv, TimerInv, TypeOK
    <3> QED BY <3>2, BatchConfigAssumption DEF DeadlineReached
  <2> QED BY <2>1, <2>2
<1> QED
  BY <1>1, IntakeInvariant, PTL DEF Spec, CadenceFromFirstEntry
=============================================================================
