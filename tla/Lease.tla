------------------------------- MODULE Lease -------------------------------
(***************************************************************************)
(* The primary-region lease of crates/coordination: acquire, renew and     *)
(* claim_lease of LeaseCoordinator against one replicated-KV item, with    *)
(* every KV call split into the request, its evaluation at the backend and *)
(* the delivery of its reply, so that calls of several coordinators        *)
(* interleave.  A call may fail with a transport error before or after it  *)
(* was applied, an abandoned request may still be applied later, a         *)
(* coordinator may restart, and clocks of regions differ by up to MaxSkew  *)
(* and may be set forward or back (SystemTime is not monotonic).           *)
(***************************************************************************)
EXTENDS Naturals, Sequences, FiniteSets

CONSTANTS
  Coord,         \* holder ids of the competing coordinators
  NoItem,        \* the lease item does not exist
  LEASE_TTL,
  TAKEOVER_SAFETY_MARGIN,
  MaxSkew,       \* how far the clock of a region may be ahead of real time
  MaxMillis,     \* u64::MAX for times: additions saturate here
  MaxEpoch,      \* u64::MAX for epochs: checked_next fails here
  MaxTime,       \* bound: real time stops here
  MaxFaults,     \* bound: transport errors, restarts and steps of a clock
  MaxLate,       \* bound: abandoned requests that may still be applied
  FenceOnLease   \* fenced writes check the lease item (TRUE) or their own item

INITIAL_EPOCH == 1

\* The epoch attribute of another item (the index counter): seeded with the
\* first epoch, and rewritten by no takeover.
CounterEpoch == INITIAL_EPOCH

\* The lease item: epoch 0 is reserved for "no primary has ever held the lease".
LeaseItem == [holder : Coord, epoch : 1..MaxEpoch, expires_at : 0..MaxMillis]

\* A conditional write in flight: epoch is the epoch its conditions name.
Request == [op : {"acquire", "renew", "claim", "write"}, by : Coord,
            epoch : 0..MaxEpoch, expires_at : 0..MaxMillis]

ASSUME LeaseAssumption ==
  /\ Coord # {}
  /\ NoItem \notin LeaseItem
  /\ LEASE_TTL \in Nat /\ TAKEOVER_SAFETY_MARGIN \in Nat
  /\ MaxSkew \in Nat /\ MaxMillis \in Nat
  /\ MaxEpoch \in Nat \ {0}
  /\ MaxTime \in Nat /\ MaxFaults \in Nat /\ MaxLate \in Nat
  /\ FenceOnLease \in BOOLEAN

VARIABLES
  now,       \* real time
  skew,      \* skew[c]: how far the clock of c is ahead of real time
  item,      \* the lease item, or NoItem
  pc,        \* pc[c]: where the call c is in has got to
  req,       \* req[c]: the conditional write c awaits
  reply,     \* reply[c]: outcome of req[c] at the backend
  obs,       \* obs[c]: the lease item the backend returned to c
  view,      \* view[c]: the Lease that makes c act as primary, or NoItem
  late,      \* requests whose caller gave up and which may still be applied
  faults,    \* transport errors, restarts and steps of a clock so far
  grants,    \* history: grants[e] is the coordinator installed at epoch e
  wrote      \* history: epoch of the last fenced write that was applied

time == <<now, skew>>
call == <<pc, req, reply, obs>>
hist == <<grants, wrote>>
vars == <<now, skew, item, pc, req, reply, obs, view, late, faults, grants, wrote>>

-----------------------------------------------------------------------------
(* Helpers of protocol.rs and ids.rs.                                      *)

saturating_add(a, b) == IF a + b > MaxMillis THEN MaxMillis ELSE a + b

\* The injected clock of c, in whole milliseconds.
now_millis(c) == now + skew[c]

\* Mutant: eligible as soon as the lease has expired.
takeover_eligible_no_margin(now_ms, expires_at_ms) == now_ms >= expires_at_ms

takeover_eligible_millis(now_ms, expires_at_ms) ==
  now_ms >= saturating_add(expires_at_ms, TAKEOVER_SAFETY_MARGIN)

\* A bound that is off by one.
can_advance_off_by_one(epoch) == epoch + 1 < MaxEpoch

\* checked_next succeeds: the epoch is below u64::MAX.
can_advance(epoch) == epoch < MaxEpoch

\* epoch_condition(e), evaluated on an item whose epoch attribute is epoch.
epoch_condition(e, epoch) == epoch = e

\* The value of req[c] while c has no conditional write in flight.
NoRequest(c) == [op |-> "acquire", by |-> c, epoch |-> 0, expires_at |-> 0]

\* Mutant: the takeover write is not guarded by the observed epoch.
ConditionsHold_unguarded_claim(r) ==
  \/ r.op = "acquire" /\ item = NoItem
  \/ r.op \in {"renew", "write"} /\ item # NoItem /\ item.holder = r.by
       /\ epoch_condition(r.epoch, item.epoch)
  \/ r.op = "claim" /\ item # NoItem

\* Mutant: renew is guarded by neither the holder nor the epoch.
ConditionsHold_unguarded_renew(r) ==
  \/ r.op = "acquire" /\ item = NoItem
  \/ r.op = "renew" /\ item # NoItem
  \/ r.op \in {"claim", "write"} /\ item # NoItem
       /\ epoch_condition(r.epoch, item.epoch)

\* The conditions a request carries, evaluated atomically with its write.
ConditionsHold(r) ==
  \/ r.op = "acquire" /\ item = NoItem
  \/ /\ r.op = "renew"
     /\ item # NoItem /\ item.holder = r.by /\ epoch_condition(r.epoch, item.epoch)
  \/ /\ r.op = "claim"
     /\ item # NoItem /\ epoch_condition(r.epoch, item.epoch)
  \/ /\ r.op = "write" /\ FenceOnLease
     /\ item # NoItem /\ epoch_condition(r.epoch, item.epoch)
  \/ r.op = "write" /\ ~FenceOnLease /\ epoch_condition(r.epoch, CounterEpoch)

\* The lease item a request leaves behind when its conditions hold.
Written(r) ==
  CASE r.op = "acquire" -> [holder |-> r.by, epoch |-> INITIAL_EPOCH,
                            expires_at |-> r.expires_at]
    [] r.op = "renew"   -> [item EXCEPT !.expires_at = r.expires_at]
    [] r.op = "claim"   -> [holder |-> r.by, epoch |-> r.epoch + 1,
                            expires_at |-> r.expires_at]
    [] r.op = "write"   -> item

\* The backend evaluates one request: all of it, or nothing.
Apply(r) ==
  IF ConditionsHold(r)
    THEN /\ item' = Written(r)
         /\ grants' = IF r.op \in {"acquire", "claim"}
                        THEN Append(grants, r.by) ELSE grants
         /\ wrote' = IF r.op = "write" THEN r.epoch ELSE wrote
    ELSE UNCHANGED <<item, grants, wrote>>

\* What the caller of the request is told.
Outcome(r) ==
  IF ConditionsHold(r) THEN "ok"
  ELSE IF r.op \in {"renew", "claim"} /\ item = NoItem THEN "not_found"
  ELSE "condition_failed"

-----------------------------------------------------------------------------
Init ==
  /\ now = 0
  /\ skew \in [Coord -> 0..MaxSkew]
  /\ item = NoItem
  /\ pc = [c \in Coord |-> "idle"]
  /\ req = [c \in Coord |-> NoRequest(c)]
  /\ reply = [c \in Coord |-> "ok"]
  /\ obs = [c \in Coord |-> NoItem]
  /\ view = [c \in Coord |-> NoItem]
  /\ late = {}
  /\ faults = 0
  /\ grants = <<>>
  /\ wrote = 0

Tick ==
  /\ now < MaxTime
  /\ now' = now + 1
  /\ UNCHANGED <<skew, item, call, view, late, faults, hist>>

\* The clock of c is set, forward or back (an NTP step).
step_clock(c) ==
  /\ faults < MaxFaults
  /\ faults' = faults + 1
  /\ \E s \in 0..MaxSkew : s # skew[c] /\ skew' = [skew EXCEPT ![c] = s]
  /\ UNCHANGED <<now, item, call, view, late, hist>>

\* c issues a conditional write and awaits it.
Send(c, op, epoch, expires_at_ms) ==
  /\ pc' = [pc EXCEPT ![c] = "sent"]
  /\ req' = [req EXCEPT ![c] = [op |-> op, by |-> c, epoch |-> epoch,
                                expires_at |-> expires_at_ms]]
  /\ UNCHANGED <<reply, obs>>

\* The call c is in returns.
Return(c) ==
  /\ pc' = [pc EXCEPT ![c] = "idle"]
  /\ req' = [req EXCEPT ![c] = NoRequest(c)]
  /\ reply' = [reply EXCEPT ![c] = "ok"]
  /\ obs' = [obs EXCEPT ![c] = NoItem]

acquire(c) ==
  /\ pc[c] = "idle"
  /\ Send(c, "acquire", INITIAL_EPOCH, saturating_add(now_millis(c), LEASE_TTL))
  /\ UNCHANGED <<time, item, view, late, faults, hist>>

\* Mutant: the renewed lease ends now instead of a TTL from now.
renew_without_ttl(c) ==
  /\ pc[c] = "idle"
  /\ view[c] # NoItem
  /\ Send(c, "renew", view[c].epoch, now_millis(c))
  /\ UNCHANGED <<time, item, view, late, faults, hist>>

\* The expiry is computed before the write is sent.
renew(c) ==
  /\ pc[c] = "idle"
  /\ view[c] # NoItem
  /\ Send(c, "renew", view[c].epoch, saturating_add(now_millis(c), LEASE_TTL))
  /\ UNCHANGED <<time, item, view, late, faults, hist>>

\* claim_lease is called and awaits read_lease.
claim_lease(c) ==
  /\ pc[c] = "idle"
  /\ pc' = [pc EXCEPT ![c] = "get"]
  /\ UNCHANGED <<time, item, req, reply, obs, view, late, faults, hist>>

\* The backend serves the get; a missing item makes claim_lease return NoLease.
read_lease(c) ==
  /\ pc[c] = "get"
  /\ IF item = NoItem
       THEN Return(c)
       ELSE /\ pc' = [pc EXCEPT ![c] = "got"]
            /\ obs' = [obs EXCEPT ![c] = item]
            /\ UNCHANGED <<req, reply>>
  /\ UNCHANGED <<time, item, view, late, faults, hist>>

\* claim_lease between its awaits: LeaseHeld, EpochOverflow, or the guarded
\* write of the next epoch.
claim_check(c) ==
  /\ pc[c] = "got"
  /\ IF /\ takeover_eligible_millis(now_millis(c), obs[c].expires_at)
        /\ can_advance(obs[c].epoch)
       THEN Send(c, "claim", obs[c].epoch, saturating_add(now_millis(c), LEASE_TTL))
       ELSE Return(c)
  /\ UNCHANGED <<time, item, view, late, faults, hist>>

\* An update of the write path by a coordinator that acts as primary, guarded
\* by epoch_condition on the epoch it captured.
write(c) ==
  /\ pc[c] = "idle"
  /\ view[c] # NoItem
  /\ Send(c, "write", view[c].epoch, 0)
  /\ UNCHANGED <<time, item, view, late, faults, hist>>

\* The backend evaluates the request of c.
serve(c) ==
  /\ pc[c] = "sent"
  /\ Apply(req[c])
  /\ reply' = [reply EXCEPT ![c] = Outcome(req[c])]
  /\ obs' = [obs EXCEPT ![c] = item']
  /\ pc' = [pc EXCEPT ![c] = "served"]
  /\ UNCHANGED <<time, req, view, late, faults>>

\* The reply reaches c: a returned Lease makes c act as primary under its
\* epoch, LostLease or NoLease from renew makes it stand down.
deliver(c) ==
  /\ pc[c] = "served"
  /\ view' = CASE reply[c] = "ok" /\ req[c].op # "write" -> [view EXCEPT ![c] = obs[c]]
               [] reply[c] # "ok" /\ req[c].op = "renew" -> [view EXCEPT ![c] = NoItem]
               [] OTHER -> view
  /\ Return(c)
  /\ UNCHANGED <<time, item, late, faults, hist>>

\* A request not yet evaluated when its caller goes away is lost or delayed.
Abandon(c) ==
  \/ UNCHANGED late
  \/ /\ pc[c] = "sent"
     /\ Cardinality(late) < MaxLate
     /\ late' = late \cup {req[c]}

\* A transport error: the caller gets LeaseError::Backend, whether or not the
\* request was, or will still be, applied.
transport_error(c) ==
  /\ faults < MaxFaults
  /\ pc[c] \in {"get", "sent", "served"}
  /\ faults' = faults + 1
  /\ Abandon(c)
  /\ Return(c)
  /\ UNCHANGED <<time, item, view, hist>>

\* The process of c restarts: what it knew of its lease is gone.
restart(c) ==
  /\ faults < MaxFaults
  /\ faults' = faults + 1
  /\ Abandon(c)
  /\ Return(c)
  /\ view' = [view EXCEPT ![c] = NoItem]
  /\ UNCHANGED <<time, item, hist>>

\* A delayed request is evaluated after all; nobody hears of the outcome.
serve_late(r) ==
  /\ Apply(r)
  /\ late' = late \ {r}
  /\ UNCHANGED <<time, call, view, faults>>

Next ==
  \/ Tick
  \/ \E c \in Coord :
       \/ acquire(c) \/ renew(c) \/ claim_lease(c) \/ write(c)
       \/ read_lease(c) \/ claim_check(c)
       \/ serve(c) \/ deliver(c)
       \/ transport_error(c) \/ restart(c) \/ step_clock(c)
  \/ \E r \in late : serve_late(r)

Spec == Init /\ [][Next]_vars

\* The runtime completes every call, time passes, and the standby's caller
\* keeps coming back to claim_lease (a claim interrupted by other calls of the
\* same coordinator is made again).
Fairness ==
  /\ WF_vars(Tick)
  /\ \A c \in Coord :
       /\ WF_vars(read_lease(c) \/ claim_check(c) \/ serve(c) \/ deliver(c))
       /\ SF_vars(claim_lease(c))

FairSpec == Spec /\ Fairness

-----------------------------------------------------------------------------
(* Properties.                                                             *)

TypeOK ==
  /\ now \in Nat
  /\ skew \in [Coord -> 0..MaxSkew]
  /\ item \in LeaseItem \cup {NoItem}
  /\ pc \in [Coord -> {"idle", "get", "got", "sent", "served"}]
  /\ req \in [Coord -> Request]
  /\ reply \in [Coord -> {"ok", "condition_failed", "not_found"}]
  /\ obs \in [Coord -> LeaseItem \cup {NoItem}]
  /\ view \in [Coord -> LeaseItem \cup {NoItem}]
  /\ late \in SUBSET Request
  /\ faults \in Nat
  /\ grants \in Seq(Coord)
  /\ wrote \in Nat

\* The epoch a coordinator acts under, 0 when it does not act as primary.
BelievedEpoch(c) == IF view[c] = NoItem THEN 0 ELSE view[c].epoch

Ledger == INSTANCE EpochLedger WITH belief <- [c \in Coord |-> BelievedEpoch(c)]

\* The protocol implements EpochLedger: whatever is lost, delayed or raced,
\* epochs are granted one at a time by acquire and claim_lease, and what
\* coordinators believe and write agrees with the grants.
ImplementsLedger == Ledger!LedgerSpec

\* No two coordinators ever act as primary under the same epoch, although
\* every claimant read the same epoch before its conditional write.
OneHolderPerEpoch ==
  \A c, d \in Coord :
    /\ view[c] # NoItem /\ view[d] # NoItem
    /\ view[c].epoch = view[d].epoch
    => c = d

\* A write guarded by epoch_condition is applied only while the lease sits at
\* the epoch it carries: after a takeover the old primary changes nothing.
StalePrimaryNeverWrites ==
  [][wrote' # wrote => item # NoItem /\ wrote' = item.epoch]_vars

\* Every holder of the epoch in item considers its own lease expired, by its
\* own clock.
HolderConsidersExpired ==
  \A d \in Coord :
    (view[d] # NoItem /\ view[d].epoch = item.epoch)
      => view[d].expires_at <= now_millis(d)

\* The guarded write of claim_lease succeeds in this step.
TakesOver(c) ==
  /\ pc[c] = "sent" /\ req[c].op = "claim"
  /\ pc'[c] = "served" /\ reply'[c] = "ok"

\* A takeover whose read of the lease is still current finds a holder that
\* considers its lease expired, although clocks differ and are set back: the
\* safety margin has to cover both.
TakeoverAfterExpiry ==
  [][\A c \in Coord :
       TakesOver(c) /\ obs[c] = item => HolderConsidersExpired]_vars

\* Within an epoch a renewal that somebody waits for takes back no more of the
\* lease than the clock of its holder was set back: only one that its caller has
\* given up on, applied late, shortens it by more (renew computes the expiry from
\* the clock before it sends its write).
OnlyDelayOrStepShortens ==
  [][/\ item # NoItem /\ item' # NoItem /\ item'.epoch = item.epoch
     /\ item'.expires_at + MaxSkew < item.expires_at
     => late' # late]_vars

\* The lease can be taken over by somebody.
Takeable ==
  /\ item # NoItem
  /\ item.epoch < MaxEpoch
  /\ \E c \in Coord : takeover_eligible_millis(now_millis(c), item.expires_at)

\* A lease nobody renews does not stay ownerless: once it has expired past the
\* margin it is taken over (or renewed after all), even when the reply to the
\* call that created it was lost and nobody knows they hold it.
ExpiredLeaseChangesHands == Takeable ~> ~Takeable

=============================================================================
