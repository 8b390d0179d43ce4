---------------------------- MODULE LeaseProofs ----------------------------
(***************************************************************************)
(* Proofs about Lease, for any set of coordinators and any TTL, margin,    *)
(* clock skew and number of faults.                                        *)
(***************************************************************************)
EXTENDS Lease, TLAPS, FiniteSetTheorems

\* Epoch e was granted to c.
Granted(c, e) == e \in 1..Len(grants) /\ grants[e] = c

\* The item is the newest grant.
ItemIsNewestGrant ==
  /\ item = NoItem => Len(grants) = 0
  /\ item # NoItem => Granted(item.holder, item.epoch) /\ item.epoch = Len(grants)

\* What a request in flight relies on.
RequestInv(r) ==
  /\ r.op \in {"renew", "write"} => Granted(r.by, r.epoch)
  /\ r.op = "claim" => r.epoch \in 1..Len(grants) /\ r.epoch < MaxEpoch

\* A coordinator acts only under an epoch that was granted to it.
ViewInv == \A c \in Coord : view[c] # NoItem => Granted(c, view[c].epoch)

CallInv ==
  \A c \in Coord :
    /\ req[c].by = c
    /\ pc[c] = "sent" => RequestInv(req[c])
    /\ pc[c] = "sent" /\ req[c].op = "renew"
         => view[c] # NoItem /\ req[c].epoch = view[c].epoch
    /\ pc[c] = "got" => obs[c] # NoItem /\ obs[c].epoch \in 1..Len(grants)
    /\ pc[c] = "served" /\ reply[c] = "ok" /\ req[c].op # "write"
         => /\ obs[c] # NoItem
            /\ Granted(c, obs[c].epoch)
            /\ view[c] # NoItem => view[c].epoch <= obs[c].epoch

LateInv == \A r \in late : RequestInv(r)

LeaseInv ==
  /\ TypeOK
  /\ ItemIsNewestGrant
  /\ ViewInv
  /\ CallInv
  /\ LateInv

-----------------------------------------------------------------------------
\* saturating_add stays a u64.
LEMMA SaturatingAddType ==
  ASSUME NEW a \in Nat, NEW b \in Nat
  PROVE  saturating_add(a, b) \in 0..MaxMillis
BY LeaseAssumption DEF saturating_add

\* The expiry every lease write computes.
LEMMA ExpiryType ==
  ASSUME TypeOK, NEW c \in Coord
  PROVE  saturating_add(now_millis(c), LEASE_TTL) \in 0..MaxMillis
<1>1. now \in Nat /\ skew[c] \in 0..MaxSkew
  BY DEF TypeOK
<1>2. now_millis(c) \in Nat
  BY <1>1, LeaseAssumption DEF now_millis
<1> QED
  BY <1>2, SaturatingAddType, LeaseAssumption

\* The history of grants only grows.
GrantsGrow ==
  /\ Len(grants) <= Len(grants')
  /\ \A e \in 1..Len(grants) : grants'[e] = grants[e]

\* Evaluating a request keeps the item, and the requests of everybody else,
\* in agreement with the grants.
LEMMA ApplyKeeps ==
  ASSUME TypeOK, ItemIsNewestGrant,
         NEW r \in Request, RequestInv(r), Apply(r)
  PROVE  /\ item' \in LeaseItem \cup {NoItem}
         /\ grants' \in Seq(Coord)
         /\ wrote' \in Nat
         /\ GrantsGrow
         /\ ItemIsNewestGrant'
         /\ ConditionsHold(r) /\ r.op # "write"
              => /\ item' # NoItem
                 /\ Granted(r.by, item.epoch)'
                 /\ item'.epoch = Len(grants')
<1> USE LeaseAssumption DEF TypeOK
<1>0. /\ r.by \in Coord /\ r.epoch \in 0..MaxEpoch /\ r.expires_at \in 0..MaxMillis
      /\ r.op \in {"acquire", "renew", "claim", "write"}
  BY DEF Request
<1>1. CASE ~ConditionsHold(r)
  BY <1>1 DEF Apply, GrantsGrow, ItemIsNewestGrant, Granted
<1>2. CASE ConditionsHold(r) /\ r.op = "acquire"
  <2>1. item = NoItem /\ Len(grants) = 0
    BY <1>2 DEF ConditionsHold, ItemIsNewestGrant
  <2>2. /\ item' = [holder |-> r.by, epoch |-> 1, expires_at |-> r.expires_at]
        /\ grants' = Append(grants, r.by)
        /\ wrote' = wrote
    BY <1>2 DEF Apply, Written, INITIAL_EPOCH
  <2>3. item' \in LeaseItem /\ item' # NoItem
    BY <1>0, <2>2 DEF LeaseItem
  <2>4. item'.holder = r.by /\ item'.epoch = 1
    BY <2>2
  <2>5. grants' \in Seq(Coord) /\ Len(grants') = 1 /\ grants'[1] = r.by
    BY <1>0, <2>1, <2>2
  <2> QED
    BY <2>1, <2>2, <2>3, <2>4, <2>5 DEF GrantsGrow, ItemIsNewestGrant, Granted
<1>3. CASE ConditionsHold(r) /\ r.op = "renew"
  <2>1. item # NoItem /\ item.holder = r.by /\ item.epoch = r.epoch
    BY <1>3 DEF ConditionsHold, epoch_condition
  <2>2. /\ item' = [item EXCEPT !.expires_at = r.expires_at]
        /\ grants' = grants
        /\ wrote' = wrote
    BY <1>3 DEF Apply, Written
  <2>3. item' \in LeaseItem /\ item'.holder = item.holder /\ item'.epoch = item.epoch
    BY <1>0, <2>1, <2>2 DEF LeaseItem
  <2>4. item' # NoItem
    BY <2>3
  <2>5. Granted(item.holder, item.epoch) /\ item.epoch = Len(grants)
    BY <2>1 DEF ItemIsNewestGrant
  <2>6. Granted(item.holder, item.epoch)' /\ item'.epoch = Len(grants')
    BY <2>2, <2>3, <2>5 DEF Granted
  <2>7. GrantsGrow
    BY <2>2 DEF GrantsGrow
  <2> QED
    BY <2>1, <2>2, <2>3, <2>4, <2>6, <2>7 DEF ItemIsNewestGrant
<1>4. CASE ConditionsHold(r) /\ r.op = "claim"
  <2>1. item # NoItem /\ item.epoch = r.epoch /\ r.epoch < MaxEpoch
    BY <1>4 DEF ConditionsHold, epoch_condition, RequestInv
  <2>2. /\ item' = [holder |-> r.by, epoch |-> r.epoch + 1, expires_at |-> r.expires_at]
        /\ grants' = Append(grants, r.by)
        /\ wrote' = wrote
    BY <1>4 DEF Apply, Written
  <2>3. item' \in LeaseItem
    BY <1>0, <2>1, <2>2 DEF LeaseItem
  <2>4. item' # NoItem /\ item'.holder = r.by /\ item'.epoch = r.epoch + 1
    BY <2>2, <2>3
  <2>5. Len(grants) = r.epoch
    BY <2>1 DEF ItemIsNewestGrant
  <2>6. /\ grants' \in Seq(Coord) /\ Len(grants') = r.epoch + 1
        /\ grants'[r.epoch + 1] = r.by
        /\ \A e \in 1..Len(grants) : grants'[e] = grants[e]
    BY <1>0, <2>2, <2>5
  <2> QED
    BY <1>0, <2>1, <2>2, <2>3, <2>4, <2>5, <2>6 DEF GrantsGrow, ItemIsNewestGrant, Granted
<1>5. CASE ConditionsHold(r) /\ r.op = "write"
  <2>1. item' = item /\ grants' = grants /\ wrote' = r.epoch
    BY <1>5 DEF Apply, Written
  <2> QED
    BY <1>0, <1>5, <2>1 DEF GrantsGrow, ItemIsNewestGrant, Granted
<1> QED
  BY <1>0, <1>1, <1>2, <1>3, <1>4, <1>5

\* A grant, once made, stays made.
LEMMA GrantedStays ==
  ASSUME TypeOK, grants' \in Seq(Coord), GrantsGrow, NEW c, NEW e \in Nat, Granted(c, e)
  PROVE  Granted(c, e)'
BY DEF Granted, GrantsGrow, TypeOK

\* What holds of a request in flight still holds when more epochs are granted.
LEMMA RequestInvStays ==
  ASSUME TypeOK, grants' \in Seq(Coord), GrantsGrow, NEW r \in Request, RequestInv(r)
  PROVE  RequestInv(r)'
<1>1. r.epoch \in Nat
  BY LeaseAssumption DEF Request
<1> QED
  BY <1>1, GrantedStays DEF RequestInv, GrantsGrow, TypeOK

-----------------------------------------------------------------------------
\* No lease, no grants and no requests: LeaseCoordinator::new.
LEMMA InitInv == Init => LeaseInv
<1> SUFFICES ASSUME Init PROVE LeaseInv
  OBVIOUS
<1>1. TypeOK
  BY LeaseAssumption DEF Init, TypeOK, NoRequest, Request
<1>2. ItemIsNewestGrant /\ ViewInv /\ CallInv /\ LateInv
  BY DEF Init, ItemIsNewestGrant, ViewInv, CallInv, LateInv, NoRequest
<1> QED
  BY <1>1, <1>2 DEF LeaseInv


\* The parts of LeaseInv a step leaves alone when it neither touches the item
\* nor the grants.
LEMMA QuietKeeps ==
  ASSUME LeaseInv, UNCHANGED <<item, grants>>
  PROVE  /\ ItemIsNewestGrant'
         /\ GrantsGrow
         /\ grants' \in Seq(Coord)
BY DEF LeaseInv, TypeOK, ItemIsNewestGrant, Granted, GrantsGrow

\* Every step keeps the invariant: one step of the proof per action.
LEMMA NextInv == LeaseInv /\ [Next]_vars => LeaseInv'
<1> SUFFICES ASSUME LeaseInv, [Next]_vars PROVE LeaseInv'
  OBVIOUS
<1> USE LeaseAssumption
<1>t. TypeOK
  BY DEF LeaseInv
<1>1. CASE UNCHANGED vars
  BY <1>1 DEF vars, LeaseInv, TypeOK, ItemIsNewestGrant, ViewInv, CallInv, LateInv,
              RequestInv, Granted
<1>2. CASE Tick
  BY <1>2 DEF Tick, call, hist, LeaseInv, TypeOK, ItemIsNewestGrant, ViewInv, CallInv,
              LateInv, RequestInv, Granted
<1>14. ASSUME NEW c \in Coord, step_clock(c) PROVE LeaseInv'
  <2>1. skew' \in [Coord -> 0..MaxSkew] /\ faults' \in Nat
    BY <1>14, <1>t DEF step_clock, TypeOK
  <2> QED
    BY <1>14, <2>1 DEF step_clock, call, hist, LeaseInv, TypeOK, ItemIsNewestGrant, ViewInv,
                       CallInv, LateInv, RequestInv, Granted
<1>3. ASSUME NEW c \in Coord, acquire(c) PROVE LeaseInv'
  <2>1. saturating_add(now_millis(c), LEASE_TTL) \in 0..MaxMillis
    BY <1>t, ExpiryType
  <2>2. TypeOK'
    BY <1>3, <2>1, <1>t DEF acquire, Send, TypeOK, Request, INITIAL_EPOCH, time, hist
  <2>3. CallInv'
    BY <1>3, <1>t DEF acquire, Send, LeaseInv, CallInv, RequestInv, Granted, TypeOK, hist
  <2> QED
    BY <1>3, <2>2, <2>3 DEF acquire, time, hist, LeaseInv, ItemIsNewestGrant, ViewInv,
                            LateInv, RequestInv, Granted
<1>4. ASSUME NEW c \in Coord, renew(c) PROVE LeaseInv'
  <2>1. saturating_add(now_millis(c), LEASE_TTL) \in 0..MaxMillis
    BY <1>t, ExpiryType
  <2>2. view[c] # NoItem /\ view[c].epoch \in 0..MaxEpoch /\ Granted(c, view[c].epoch)
    BY <1>4, <1>t DEF renew, TypeOK, LeaseItem, LeaseInv, ViewInv
  <2>3. TypeOK'
    BY <1>4, <2>1, <2>2, <1>t DEF renew, Send, TypeOK, Request, time, hist
  <2>4. CallInv'
    BY <1>4, <2>2, <1>t DEF renew, Send, LeaseInv, CallInv, RequestInv, Granted, TypeOK, hist
  <2> QED
    BY <1>4, <2>3, <2>4 DEF renew, time, hist, LeaseInv, ItemIsNewestGrant, ViewInv,
                            LateInv, RequestInv, Granted
<1>5. ASSUME NEW c \in Coord, write(c) PROVE LeaseInv'
  <2>2. view[c] # NoItem /\ view[c].epoch \in 0..MaxEpoch /\ Granted(c, view[c].epoch)
    BY <1>5, <1>t DEF write, TypeOK, LeaseItem, LeaseInv, ViewInv
  <2>3. TypeOK'
    BY <1>5, <2>2, <1>t DEF write, Send, TypeOK, Request, time, hist
  <2>4. CallInv'
    BY <1>5, <2>2, <1>t DEF write, Send, LeaseInv, CallInv, RequestInv, Granted, TypeOK, hist
  <2> QED
    BY <1>5, <2>3, <2>4 DEF write, time, hist, LeaseInv, ItemIsNewestGrant, ViewInv,
                            LateInv, RequestInv, Granted
<1>6. ASSUME NEW c \in Coord, claim_lease(c) PROVE LeaseInv'
  <2>1. TypeOK'
    BY <1>6, <1>t DEF claim_lease, TypeOK, time, hist
  <2>2. CallInv'
    BY <1>6, <1>t DEF claim_lease, LeaseInv, CallInv, RequestInv, Granted, TypeOK, hist
  <2> QED
    BY <1>6, <2>1, <2>2 DEF claim_lease, time, hist, LeaseInv, ItemIsNewestGrant, ViewInv,
                            LateInv, RequestInv, Granted
<1>r. ASSUME NEW c \in Coord, Return(c), UNCHANGED <<item, hist>>,
             view' \in [Coord -> LeaseItem \cup {NoItem}],
             \A d \in Coord : d # c => view'[d] = view[d]
      PROVE  /\ pc' \in [Coord -> {"idle", "get", "got", "sent", "served"}]
             /\ req' \in [Coord -> Request]
             /\ reply' \in [Coord -> {"ok", "condition_failed", "not_found"}]
             /\ obs' \in [Coord -> LeaseItem \cup {NoItem}]
             /\ CallInv'
  <2>1. NoRequest(c) \in Request /\ NoRequest(c).by = c
    BY DEF NoRequest, Request
  <2>2. /\ pc' \in [Coord -> {"idle", "get", "got", "sent", "served"}]
        /\ req' \in [Coord -> Request]
        /\ reply' \in [Coord -> {"ok", "condition_failed", "not_found"}]
        /\ obs' \in [Coord -> LeaseItem \cup {NoItem}]
    BY <1>r, <2>1, <1>t DEF Return, TypeOK
  <2>3. ASSUME NEW d \in Coord, d # c
        PROVE  pc'[d] = pc[d] /\ req'[d] = req[d] /\ reply'[d] = reply[d]
               /\ obs'[d] = obs[d] /\ view'[d] = view[d]
    BY <1>r, <2>3, <1>t DEF Return, TypeOK
  <2>4. pc'[c] = "idle" /\ req'[c].by = c
    BY <1>r, <2>1, <1>t DEF Return, TypeOK
  <2> QED
    BY <1>r, <2>2, <2>3, <2>4 DEF LeaseInv, CallInv, RequestInv, Granted, hist
<1>7. ASSUME NEW c \in Coord, read_lease(c) PROVE LeaseInv'
  <2>1. CASE item = NoItem
    <3>1. Return(c) /\ UNCHANGED <<now, skew, item, view, late, faults, grants, wrote>>
      BY <1>7, <2>1 DEF read_lease, time, hist
    <3>2. TypeOK' /\ CallInv'
      BY <3>1, <1>r, <1>t DEF TypeOK, hist
    <3> QED
      BY <3>1, <3>2 DEF LeaseInv, ItemIsNewestGrant, ViewInv, LateInv, RequestInv, Granted
  <2>2. CASE item # NoItem
    <3>1. /\ pc' = [pc EXCEPT ![c] = "got"]
          /\ obs' = [obs EXCEPT ![c] = item]
          /\ UNCHANGED <<now, skew, item, view, late, faults, grants, wrote, req, reply>>
      BY <1>7, <2>2 DEF read_lease, time, hist
    <3>2. TypeOK'
      BY <3>1, <1>t DEF TypeOK
    <3>3. item.epoch \in 1..Len(grants)
      BY <2>2 DEF LeaseInv, ItemIsNewestGrant, Granted
    <3>4. CallInv'
      BY <2>2, <3>1, <3>3, <1>t DEF LeaseInv, CallInv, RequestInv, Granted, TypeOK
    <3> QED
      BY <3>1, <3>2, <3>4 DEF LeaseInv, ItemIsNewestGrant, ViewInv, LateInv, RequestInv, Granted
  <2> QED
    BY <2>1, <2>2
<1>8. ASSUME NEW c \in Coord, claim_check(c) PROVE LeaseInv'
  <2>0. UNCHANGED <<now, skew, item, view, late, faults, grants, wrote>>
    BY <1>8 DEF claim_check, time, hist
  <2>1. CASE Return(c)
    <3>1. TypeOK' /\ CallInv'
      BY <2>0, <2>1, <1>r, <1>t DEF TypeOK, hist
    <3> QED
      BY <2>0, <3>1 DEF LeaseInv, ItemIsNewestGrant, ViewInv, LateInv, RequestInv, Granted
  <2>2. CASE /\ can_advance(obs[c].epoch)
             /\ Send(c, "claim", obs[c].epoch, saturating_add(now_millis(c), LEASE_TTL))
    <3>1. saturating_add(now_millis(c), LEASE_TTL) \in 0..MaxMillis
      BY <1>t, ExpiryType
    <3>2. /\ obs[c] \in LeaseItem /\ obs[c].epoch \in 1..MaxEpoch
          /\ obs[c].epoch \in 1..Len(grants) /\ obs[c].epoch < MaxEpoch
      BY <1>8, <2>2, <1>t DEF claim_check, LeaseInv, CallInv, TypeOK, LeaseItem, can_advance
    <3>3. TypeOK'
      BY SMTT(30), <2>0, <2>2, <3>1, <3>2, <1>t DEF Send, TypeOK, Request
    <3>4. CallInv'
      BY <2>0, <2>2, <3>2, <1>t DEF Send, LeaseInv, CallInv, RequestInv, Granted, TypeOK
    <3> QED
      BY <2>0, <3>3, <3>4 DEF LeaseInv, ItemIsNewestGrant, ViewInv, LateInv, RequestInv, Granted
  <2> QED
    BY <1>8, <2>1, <2>2 DEF claim_check
<1>a. ASSUME NEW r \in Request, RequestInv(r), Apply(r) PROVE
        /\ item' \in LeaseItem \cup {NoItem}
        /\ grants' \in Seq(Coord)
        /\ wrote' \in Nat
        /\ GrantsGrow
        /\ ItemIsNewestGrant'
        /\ \A q \in Request : RequestInv(q) => RequestInv(q)'
        /\ \A d \in Coord : \A e \in Nat : Granted(d, e) => Granted(d, e)'
  <2>1. ItemIsNewestGrant
    BY DEF LeaseInv
  <2>2. /\ item' \in LeaseItem \cup {NoItem} /\ grants' \in Seq(Coord) /\ wrote' \in Nat
        /\ GrantsGrow /\ ItemIsNewestGrant'
    BY <1>a, <1>t, <2>1, ApplyKeeps
  <2> QED
    BY <2>2, <1>t, RequestInvStays, GrantedStays
<1>9. ASSUME NEW c \in Coord, serve(c) PROVE LeaseInv'
  <2>0. PICK r \in Request : r = req[c]
    BY <1>t DEF TypeOK
  <2>1. /\ RequestInv(r) /\ r.by = c /\ Apply(r)
        /\ pc[c] = "sent"
        /\ UNCHANGED <<now, skew, req, view, late, faults>>
    BY <1>9, <2>0, <1>t DEF serve, LeaseInv, CallInv, TypeOK, time
  <2>2. /\ reply' = [reply EXCEPT ![c] = Outcome(r)]
        /\ obs' = [obs EXCEPT ![c] = item']
        /\ pc' = [pc EXCEPT ![c] = "served"]
        /\ Outcome(r) \in {"ok", "condition_failed", "not_found"}
        /\ Outcome(r) = "ok" => ConditionsHold(r)
    BY <1>9, <2>0 DEF serve, Outcome
  <2>3. /\ item' \in LeaseItem \cup {NoItem} /\ grants' \in Seq(Coord) /\ wrote' \in Nat
        /\ GrantsGrow /\ ItemIsNewestGrant'
        /\ \A q \in Request : RequestInv(q) => RequestInv(q)'
        /\ \A d \in Coord : \A e \in Nat : Granted(d, e) => Granted(d, e)'
    BY <1>a, <2>1
  <2>4. TypeOK'
    BY <1>t, <2>1, <2>2, <2>3 DEF TypeOK
  <2>5. ViewInv'
    BY <1>t, <2>1, <2>3 DEF LeaseInv, ViewInv, TypeOK, LeaseItem
  <2>6. LateInv'
    BY <1>t, <2>1, <2>3 DEF LeaseInv, LateInv, TypeOK
  <2>7. ASSUME NEW d \in Coord, d # c
        PROVE  /\ pc'[d] = pc[d] /\ req'[d] = req[d] /\ reply'[d] = reply[d]
               /\ obs'[d] = obs[d] /\ view'[d] = view[d]
               /\ req[d] \in Request
               /\ obs[d] # NoItem => obs[d].epoch \in Nat
    BY <1>t, <2>1, <2>2, <2>7 DEF TypeOK, LeaseItem
  <2>8. ASSUME ConditionsHold(r), r.op # "write"
        PROVE  /\ item' # NoItem /\ Granted(c, item.epoch)'
               /\ view[c] # NoItem => view[c].epoch <= item'.epoch
    <3>1. item' # NoItem /\ Granted(r.by, item.epoch)' /\ item'.epoch = Len(grants')
      BY <2>1, <2>8, <1>t, ApplyKeeps DEF LeaseInv
    <3>2. view[c] # NoItem => view[c].epoch \in 1..Len(grants)
      BY DEF LeaseInv, ViewInv, Granted
    <3>3. Len(grants) \in Nat /\ Len(grants') \in Nat /\ Len(grants) <= Len(grants')
      BY <2>3, <1>t DEF GrantsGrow, TypeOK
    <3> QED
      BY <3>1, <3>2, <3>3, <2>1
  <2>9. /\ pc'[c] = "served" /\ obs'[c] = item' /\ reply'[c] = Outcome(r)
        /\ req'[c] = r /\ view'[c] = view[c]
    BY <2>0, <2>1, <2>2, <1>t DEF TypeOK
  <2>10. CallInv'
    <3> SUFFICES ASSUME NEW d \in Coord PROVE
          /\ req'[d].by = d
          /\ pc'[d] = "sent" => RequestInv(req[d])'
          /\ pc'[d] = "sent" /\ req'[d].op = "renew"
               => view'[d] # NoItem /\ req'[d].epoch = view'[d].epoch
          /\ pc'[d] = "got" => obs'[d] # NoItem /\ obs'[d].epoch \in 1..Len(grants')
          /\ pc'[d] = "served" /\ reply'[d] = "ok" /\ req'[d].op # "write"
               => /\ obs'[d] # NoItem
                  /\ Granted(d, obs[d].epoch)'
                  /\ view'[d] # NoItem => view'[d].epoch <= obs'[d].epoch
      BY DEF CallInv
    <3>1. CASE d = c
      <4>1. Granted(c, item.epoch)' => Granted(c, obs[c].epoch)'
        BY <2>9 DEF Granted
      <4> QED
        BY <3>1, <4>1, <2>1, <2>2, <2>8, <2>9
    <3>2. CASE d # c
      <4>1. pc[d] = "sent" => RequestInv(req[d])'
        BY <2>3, <2>7, <3>2 DEF LeaseInv, CallInv
      <4>2. pc[d] = "got" => obs[d] # NoItem /\ obs[d].epoch \in 1..Len(grants')
        BY <2>3, <2>7, <3>2, <1>t DEF LeaseInv, CallInv, GrantsGrow, TypeOK
      <4>3. pc[d] = "served" /\ reply[d] = "ok" /\ req[d].op # "write"
               => /\ obs[d] # NoItem
                  /\ Granted(d, obs[d].epoch)'
                  /\ view[d] # NoItem => view[d].epoch <= obs[d].epoch
        <5>1. pc[d] = "served" /\ reply[d] = "ok" /\ req[d].op # "write"
               => obs[d] # NoItem /\ Granted(d, obs[d].epoch)
          BY DEF LeaseInv, CallInv
        <5>2. Granted(d, obs[d].epoch)' <=> obs[d].epoch \in 1..Len(grants') /\ grants'[obs[d].epoch] = d
          BY <2>7, <3>2 DEF Granted
        <5>3. obs[d] # NoItem /\ Granted(d, obs[d].epoch) => Granted(d, obs[d].epoch)'
          BY <2>3, <2>7, <3>2, <5>2 DEF GrantsGrow, Granted, TypeOK
        <5> QED
          BY <5>1, <5>3 DEF LeaseInv, CallInv
      <4> QED
        BY <2>7, <3>2, <4>1, <4>2, <4>3 DEF LeaseInv, CallInv
    <3> QED
      BY <3>1, <3>2
  <2> QED
    BY <2>3, <2>4, <2>5, <2>6, <2>10 DEF LeaseInv
<1>10. ASSUME NEW c \in Coord, deliver(c) PROVE LeaseInv'
  <2>0. /\ pc[c] = "served" /\ Return(c)
        /\ UNCHANGED <<now, skew, item, late, faults, grants, wrote>>
    BY <1>10 DEF deliver, time, hist
  <2>1. \/ view' = view
        \/ view' = [view EXCEPT ![c] = NoItem]
        \/ view' = [view EXCEPT ![c] = obs[c]] /\ obs[c] # NoItem /\ Granted(c, obs[c].epoch)
    <3>1. CASE reply[c] = "ok" /\ req[c].op # "write"
      <4>1. view' = [view EXCEPT ![c] = obs[c]]
        BY <1>10, <3>1 DEF deliver
      <4> QED
        BY <2>0, <3>1, <4>1 DEF LeaseInv, CallInv
    <3>2. CASE reply[c] # "ok" /\ req[c].op = "renew"
      BY <1>10, <3>2 DEF deliver
    <3>3. CASE ~(reply[c] = "ok" /\ req[c].op # "write") /\ ~(reply[c] # "ok" /\ req[c].op = "renew")
      BY <1>10, <3>3 DEF deliver
    <3> QED
      BY <3>1, <3>2, <3>3
  <2>2. /\ view' \in [Coord -> LeaseItem \cup {NoItem}]
        /\ \A d \in Coord : d # c => view'[d] = view[d]
    BY <2>1, <1>t DEF TypeOK
  <2>3. TypeOK' /\ CallInv'
    BY <2>0, <2>2, <1>r, <1>t DEF TypeOK, hist
  <2>4. view'[c] # NoItem => Granted(c, view'[c].epoch)
    BY <2>1, <1>t DEF LeaseInv, ViewInv, TypeOK
  <2>5. ViewInv'
    BY <2>0, <2>2, <2>4 DEF LeaseInv, ViewInv, Granted
  <2> QED
    BY <2>0, <2>3, <2>5 DEF LeaseInv, ItemIsNewestGrant, LateInv, RequestInv, Granted
<1>b. ASSUME NEW c \in Coord, Abandon(c), UNCHANGED grants
      PROVE  late' \in SUBSET Request /\ LateInv'
  <2>1. pc[c] = "sent" => RequestInv(req[c])
    BY DEF LeaseInv, CallInv
  <2>2. \A r \in late' : r \in Request /\ RequestInv(r)
    BY <1>b, <2>1, <1>t DEF Abandon, LeaseInv, LateInv, TypeOK
  <2> QED
    BY <1>b, <2>2 DEF LateInv, RequestInv, Granted
<1>11. ASSUME NEW c \in Coord, transport_error(c) PROVE LeaseInv'
  <2>0. /\ Return(c) /\ Abandon(c) /\ faults' = faults + 1
        /\ UNCHANGED <<now, skew, item, view, grants, wrote>>
    BY <1>11 DEF transport_error, time, hist
  <2>1. TypeOK' /\ CallInv'
    BY <2>0, <1>r, <1>b, <1>t DEF TypeOK, hist
  <2> QED
    BY <2>0, <2>1, <1>b DEF LeaseInv, ItemIsNewestGrant, ViewInv, Granted
<1>12. ASSUME NEW c \in Coord, restart(c) PROVE LeaseInv'
  <2>0. /\ Return(c) /\ Abandon(c) /\ faults' = faults + 1
        /\ view' = [view EXCEPT ![c] = NoItem]
        /\ UNCHANGED <<now, skew, item, grants, wrote>>
    BY <1>12 DEF restart, time, hist
  <2>1. /\ view' \in [Coord -> LeaseItem \cup {NoItem}]
        /\ view'[c] = NoItem
        /\ \A d \in Coord : d # c => view'[d] = view[d]
    BY <2>0, <1>t DEF TypeOK
  <2>2. TypeOK' /\ CallInv'
    BY <2>0, <2>1, <1>r, <1>b, <1>t DEF TypeOK, hist
  <2>3. ViewInv'
    BY <2>0, <2>1 DEF LeaseInv, ViewInv, Granted
  <2> QED
    BY <2>0, <2>2, <2>3, <1>b DEF LeaseInv, ItemIsNewestGrant, Granted
<1>13. ASSUME NEW r \in late, serve_late(r) PROVE LeaseInv'
  <2>1. /\ r \in Request /\ RequestInv(r) /\ Apply(r) /\ late' = late \ {r}
        /\ UNCHANGED <<now, skew, pc, req, reply, obs, view, faults>>
    BY <1>13, <1>t DEF serve_late, LeaseInv, LateInv, TypeOK, time, call
  <2>2. /\ item' \in LeaseItem \cup {NoItem} /\ grants' \in Seq(Coord) /\ wrote' \in Nat
        /\ GrantsGrow /\ ItemIsNewestGrant'
        /\ \A q \in Request : RequestInv(q) => RequestInv(q)'
    BY <1>a, <2>1
  <2>3. TypeOK'
    BY <1>t, <2>1, <2>2 DEF TypeOK
  <2>4. ViewInv'
    <3>1. ASSUME NEW d \in Coord PROVE Granted(d, view[d].epoch) => Granted(d, view[d].epoch)'
      BY <1>t, <2>1, <2>2 DEF TypeOK, Granted, GrantsGrow
    <3> QED
      BY <2>1, <3>1 DEF LeaseInv, ViewInv
  <2>5. LateInv'
    BY <1>t, <2>1, <2>2 DEF LeaseInv, LateInv, TypeOK
  <2>6. CallInv'
    <3>1. ASSUME NEW d \in Coord PROVE RequestInv(req[d]) => RequestInv(req[d])'
      BY <1>t, <2>1, <2>2 DEF TypeOK
    <3>2. ASSUME NEW d \in Coord PROVE
            /\ obs[d].epoch \in 1..Len(grants) => obs[d].epoch \in 1..Len(grants')
            /\ Granted(d, obs[d].epoch) => Granted(d, obs[d].epoch)'
      BY <1>t, <2>1, <2>2 DEF TypeOK, Granted, GrantsGrow
    <3> QED
      BY <2>1, <3>1, <3>2 DEF LeaseInv, CallInv
  <2> QED
    BY <2>2, <2>3, <2>4, <2>5, <2>6 DEF LeaseInv
<1> QED
  BY <1>1, <1>2, <1>3, <1>4, <1>5, <1>6, <1>7, <1>8, <1>9, <1>10, <1>11, <1>12, <1>13, <1>14
     DEF Next

\* The inductive invariant of the lease protocol holds throughout.
LEMMA LeaseInvariant == Spec => []LeaseInv
BY InitInv, NextInv, PTL DEF Spec

-----------------------------------------------------------------------------
\* The values the lease protocol stores and sends keep their types: no epoch
\* ever passes u64::MAX, none is the reserved 0.
THEOREM LeaseTypeCorrect == Spec => []TypeOK
BY LeaseInvariant, PTL DEF LeaseInv

\* No two coordinators ever act as primary under the same epoch.
THEOREM LeaseOneHolderPerEpoch == Spec => []OneHolderPerEpoch
<1>1. LeaseInv => OneHolderPerEpoch
  BY DEF LeaseInv, ViewInv, Granted, OneHolderPerEpoch
<1> QED
  BY <1>1, LeaseInvariant, PTL

-----------------------------------------------------------------------------
(* Lease implements EpochLedger.                                           *)

\* A step that leaves the views and the history alone is invisible to the ledger.
LEMMA QuietStepStutters ==
  ASSUME UNCHANGED <<view, grants, wrote>>
  PROVE  UNCHANGED Ledger!ledgerVars
BY DEF Ledger!ledgerVars, BelievedEpoch

\* Evaluating a request at the backend is a Grant, a FencedWrite or a stutter.
LEMMA ApplyIsLedgerStep ==
  ASSUME FenceOnLease, LeaseInv, NEW r \in Request, RequestInv(r), Apply(r), UNCHANGED view
  PROVE  Ledger!LedgerNext \/ UNCHANGED Ledger!ledgerVars
<1>0. r.by \in Coord /\ r.op \in {"acquire", "renew", "claim", "write"}
  BY DEF Request
<1>b. [c \in Coord |-> BelievedEpoch(c)]' = [c \in Coord |-> BelievedEpoch(c)]
  BY DEF BelievedEpoch
<1>1. CASE ~ConditionsHold(r) \/ r.op = "renew"
  BY <1>1, QuietStepStutters DEF Apply
<1>2. CASE ConditionsHold(r) /\ r.op \in {"acquire", "claim"}
  <2>1. grants' = Append(grants, r.by) /\ wrote' = wrote
    BY <1>2 DEF Apply
  <2>2. Ledger!Grant(r.by)
    BY <2>1, <1>b DEF Ledger!Grant
  <2> QED
    BY <1>0, <2>2 DEF Ledger!LedgerNext
<1>3. CASE ConditionsHold(r) /\ r.op = "write"
  <2>1. item # NoItem /\ item.epoch = r.epoch
    BY <1>3 DEF ConditionsHold, epoch_condition
  <2>2. r.epoch = Len(grants) /\ Len(grants) >= 1
    BY <2>1 DEF LeaseInv, ItemIsNewestGrant, Granted
  <2>3. grants # <<>>
    BY <2>2
  <2>4. wrote' = Len(grants) /\ grants' = grants
    BY <1>3, <2>2 DEF Apply
  <2>5. Ledger!FencedWrite
    BY <2>3, <2>4, <1>b DEF Ledger!FencedWrite
  <2> QED
    BY <2>5 DEF Ledger!LedgerNext
<1> QED
  BY <1>0, <1>1, <1>2, <1>3

\* Every behaviour of the protocol is a behaviour of the ledger, provided
\* fenced writes check the epoch of the lease item itself.
THEOREM LeaseImplementsLedger ==
  ASSUME FenceOnLease
  PROVE  Spec => ImplementsLedger
<1> DEFINE belief == [c \in Coord |-> BelievedEpoch(c)]
<1>1. Init => Ledger!LedgerInit
  BY DEF Init, Ledger!LedgerInit, BelievedEpoch
<1>2. LeaseInv /\ [Next]_vars => [Ledger!LedgerNext]_(Ledger!ledgerVars)
  <2> SUFFICES ASSUME LeaseInv, [Next]_vars
               PROVE  Ledger!LedgerNext \/ UNCHANGED Ledger!ledgerVars
    OBVIOUS
  <2>t. TypeOK
    BY DEF LeaseInv
  <2>1. CASE UNCHANGED <<view, grants, wrote>>
    BY <2>1, QuietStepStutters
  <2>2. ASSUME NEW c \in Coord, serve(c)
        PROVE  Ledger!LedgerNext \/ UNCHANGED Ledger!ledgerVars
    <3>1. PICK r \in Request : r = req[c]
      BY <2>t DEF TypeOK
    <3>2. RequestInv(r) /\ Apply(r) /\ UNCHANGED view
      BY <2>2, <3>1 DEF serve, LeaseInv, CallInv
    <3> QED
      BY <3>2, ApplyIsLedgerStep
  <2>3. ASSUME NEW r \in late, serve_late(r)
        PROVE  Ledger!LedgerNext \/ UNCHANGED Ledger!ledgerVars
    <3>1. r \in Request /\ RequestInv(r) /\ Apply(r) /\ UNCHANGED view
      BY <2>3, <2>t DEF serve_late, LeaseInv, LateInv, TypeOK
    <3> QED
      BY <3>1, ApplyIsLedgerStep
  <2>4. ASSUME NEW c \in Coord, UNCHANGED <<grants, wrote>>, view' = [view EXCEPT ![c] = NoItem]
        PROVE  Ledger!LedgerNext
    <3>1. belief' = [belief EXCEPT ![c] = 0]
      BY <2>4, <2>t DEF BelievedEpoch, TypeOK
    <3>2. Ledger!StandDown(c)
      BY <2>4, <3>1 DEF Ledger!StandDown
    <3> QED
      BY <3>2 DEF Ledger!LedgerNext
  <2>5. ASSUME NEW c \in Coord, deliver(c)
        PROVE  Ledger!LedgerNext \/ UNCHANGED Ledger!ledgerVars
    <3>0. pc[c] = "served" /\ UNCHANGED <<grants, wrote>>
      BY <2>5 DEF deliver, hist
    <3>1. CASE reply[c] = "ok" /\ req[c].op # "write"
      <4>1. view' = [view EXCEPT ![c] = obs[c]]
        BY <2>5, <3>1 DEF deliver
      <4>2. /\ obs[c] # NoItem /\ Granted(c, obs[c].epoch)
            /\ view[c] # NoItem => view[c].epoch <= obs[c].epoch
        BY <3>0, <3>1 DEF LeaseInv, CallInv
      <4>3. PICK e \in 1..Len(grants) : e = obs[c].epoch /\ grants[e] = c
        BY <4>2 DEF Granted
      <4>4. belief' = [belief EXCEPT ![c] = e]
        BY <4>1, <4>2, <4>3, <2>t DEF BelievedEpoch, TypeOK
      <4>5. belief[c] <= e
        BY <4>2, <4>3 DEF BelievedEpoch
      <4>6. Ledger!Learn(c, e)
        BY <3>0, <4>3, <4>4, <4>5 DEF Ledger!Learn
      <4>7. e \in DOMAIN grants
        BY <4>3, <2>t DEF TypeOK
      <4> QED
        BY <4>6, <4>7 DEF Ledger!LedgerNext
    <3>2. CASE reply[c] # "ok" /\ req[c].op = "renew"
      <4>1. view' = [view EXCEPT ![c] = NoItem]
        BY <2>5, <3>2 DEF deliver
      <4> QED
        BY <3>0, <4>1, <2>4
    <3>3. CASE ~(reply[c] = "ok" /\ req[c].op # "write") /\ ~(reply[c] # "ok" /\ req[c].op = "renew")
      <4>1. view' = view
        BY <2>5, <3>3 DEF deliver
      <4> QED
        BY <3>0, <4>1, <2>1
    <3> QED
      BY <3>1, <3>2, <3>3
  <2>6. ASSUME NEW c \in Coord, restart(c)
        PROVE  Ledger!LedgerNext
    BY <2>4, <2>6 DEF restart, hist
  <2>7. ASSUME NEW c \in Coord,
               acquire(c) \/ renew(c) \/ claim_lease(c) \/ write(c)
                 \/ read_lease(c) \/ claim_check(c) \/ transport_error(c) \/ step_clock(c)
        PROVE  UNCHANGED <<view, grants, wrote>>
    BY <2>7 DEF acquire, renew, claim_lease, write, read_lease, claim_check,
                transport_error, step_clock, hist
  <2>8. Tick \/ UNCHANGED vars => UNCHANGED <<view, grants, wrote>>
    BY DEF Tick, vars, hist
  <2> QED
    BY <2>1, <2>2, <2>3, <2>5, <2>6, <2>7, <2>8 DEF Next
<1> QED
  BY <1>1, <1>2, LeaseInvariant, PTL DEF Spec, ImplementsLedger, Ledger!LedgerSpec

-----------------------------------------------------------------------------
(* Expiries: how far ahead the clocks can have put them.                   *)

\* The expiry a lease write of c would compute now, and the latest one any clock
\* can have computed by now.
ExpiryNow(c) == saturating_add(now_millis(c), LEASE_TTL)
LatestExpiry == saturating_add(now + MaxSkew, LEASE_TTL)

\* Every expiry was computed no later than now, and the one a renewal in flight
\* carries is at most MaxSkew before any other expiry of its sender.
ExpiryInv ==
  /\ now <= MaxTime
  /\ item # NoItem => item.expires_at <= LatestExpiry
  /\ \A r \in late : r.expires_at <= LatestExpiry
  /\ \A c \in Coord : pc[c] = "sent" => req[c].expires_at <= LatestExpiry
  /\ \A c \in Coord : pc[c] = "sent" /\ req[c].op = "renew" =>
       /\ \A r \in late : r.by = c => r.expires_at <= req[c].expires_at + MaxSkew
       /\ item # NoItem /\ item.holder = c => item.expires_at <= req[c].expires_at + MaxSkew

\* With no request applied late: a claim in flight was eligible by a clock that is
\* ahead by MaxSkew, and nobody believes in an expiry more than MaxSkew after the
\* item's.
TakeoverInv ==
  /\ late = {}
  /\ \A c \in Coord : pc[c] = "sent" /\ req[c].op = "claim" =>
       /\ obs[c] # NoItem
       /\ takeover_eligible_millis(now + MaxSkew, obs[c].expires_at)
  /\ \A c \in Coord : /\ view[c] # NoItem => view[c].expires_at <= LatestExpiry
                      /\ obs[c] # NoItem => obs[c].expires_at <= LatestExpiry
  /\ \A c \in Coord : pc[c] = "sent" /\ req[c].op = "renew" =>
       view[c].expires_at <= req[c].expires_at + MaxSkew
  /\ \A c \in Coord :
       view[c] # NoItem /\ item # NoItem /\ view[c].epoch = item.epoch
         => view[c].expires_at <= item.expires_at + MaxSkew
  /\ \A c \in Coord :
       /\ pc[c] = "served" /\ reply[c] = "ok" /\ req[c].op # "write"
       /\ item # NoItem /\ obs[c].epoch = item.epoch
       => obs[c].expires_at <= item.expires_at + MaxSkew

\* The arithmetic of the expiries: no clock is ahead by more than MaxSkew.
LEMMA ExpiryBounds ==
  ASSUME TypeOK, NEW c \in Coord
  PROVE  /\ ExpiryNow(c) \in 0..MaxMillis /\ LatestExpiry \in 0..MaxMillis
         /\ ExpiryNow(c) <= LatestExpiry /\ LatestExpiry <= ExpiryNow(c) + MaxSkew
         /\ now_millis(c) \in Nat /\ now_millis(c) <= now + MaxSkew
<1>1. now \in Nat /\ skew[c] \in 0..MaxSkew
  BY DEF TypeOK
<1>2. now_millis(c) \in Nat /\ now_millis(c) <= now + MaxSkew /\ now <= now_millis(c)
  BY <1>1, LeaseAssumption DEF now_millis
<1> QED BY <1>1, <1>2, LeaseAssumption DEF ExpiryNow, LatestExpiry, saturating_add

\* saturating_add is monotone in its first argument.
LEMMA SaturatingAddMonotone ==
  ASSUME NEW a \in Nat, NEW b \in Nat, NEW t \in Nat, a <= b
  PROVE  saturating_add(a, t) <= saturating_add(b, t)
BY LeaseAssumption DEF saturating_add

\* Time goes on: the latest expiry only grows.
LEMMA LatestGrows ==
  ASSUME TypeOK, now' \in Nat, now <= now'
  PROVE  LatestExpiry \in Nat /\ LatestExpiry' \in Nat /\ LatestExpiry <= LatestExpiry'
<1>1. PICK m \in Nat : m = now
  BY DEF TypeOK
<1>2. PICK n \in Nat : n = now'
  OBVIOUS
<1>3. /\ LatestExpiry = saturating_add(m + MaxSkew, LEASE_TTL)
      /\ LatestExpiry' = saturating_add(n + MaxSkew, LEASE_TTL)
  BY <1>1, <1>2 DEF LatestExpiry
<1>a. m <= n
  BY <1>1, <1>2
<1>4. /\ m + MaxSkew \in Nat /\ n + MaxSkew \in Nat /\ LEASE_TTL \in Nat
      /\ m + MaxSkew <= n + MaxSkew
  <2>1. MaxSkew \in Nat /\ LEASE_TTL \in Nat
    BY LeaseAssumption
  <2> QED BY <1>a, <2>1
<1>5. saturating_add(m + MaxSkew, LEASE_TTL) <= saturating_add(n + MaxSkew, LEASE_TTL)
  BY <1>4, SaturatingAddMonotone
<1>6. /\ saturating_add(m + MaxSkew, LEASE_TTL) \in Nat
      /\ saturating_add(n + MaxSkew, LEASE_TTL) \in Nat
  BY <1>4, LeaseAssumption DEF saturating_add
<1> QED BY <1>3, <1>5, <1>6

\* What a request may do to the item: nothing, create it, renew its holder's
\* lease, or install the next epoch.
LEMMA ApplyItem ==
  ASSUME LeaseInv, NEW r \in Request, RequestInv(r), Apply(r), item' # item
  PROVE  /\ item' \in LeaseItem /\ item' # NoItem
         /\ item'.holder = r.by /\ item'.expires_at = r.expires_at
         /\ item # NoItem =>
              \/ r.op = "renew" /\ item.holder = r.by /\ item'.epoch = item.epoch
              \/ r.op = "claim" /\ item'.epoch = item.epoch + 1
<1>1. ConditionsHold(r) /\ item' = Written(r) /\ r.op \in {"acquire", "renew", "claim"}
  BY DEF Apply, Written, Request
<1>2. item' \in LeaseItem \cup {NoItem} /\ item' # NoItem
  BY <1>1, ApplyKeeps DEF LeaseInv
<1>3. CASE r.op = "acquire"
  <2>1. item = NoItem
    BY <1>1, <1>3 DEF ConditionsHold
  <2> QED BY <1>1, <1>2, <1>3, <2>1 DEF Written
<1>4. CASE r.op = "renew"
  <2>1. item # NoItem /\ item.holder = r.by /\ item \in LeaseItem
    BY <1>1, <1>4 DEF ConditionsHold, LeaseInv, TypeOK
  <2> QED BY <1>1, <1>2, <1>4, <2>1 DEF Written, LeaseItem
<1>5. CASE r.op = "claim"
  <2>1. item.epoch = r.epoch
    BY <1>1, <1>5 DEF ConditionsHold, epoch_condition
  <2> QED BY <1>1, <1>2, <1>5, <2>1 DEF Written
<1> QED BY <1>1, <1>3, <1>4, <1>5

\* A step of c that sends nothing and leaves the item alone; c may leave its
\* request behind.
LEMMA QuietExpiry ==
  ASSUME LeaseInv, ExpiryInv, NEW c \in Coord, pc'[c] # "sent",
         \A d \in Coord : d # c => pc'[d] = pc[d] /\ req'[d] = req[d],
         UNCHANGED <<now, item>>,
         late' = late \/ (pc[c] = "sent" /\ late' = late \cup {req[c]})
  PROVE  ExpiryInv'
<1>0. LatestExpiry' = LatestExpiry
  BY DEF LatestExpiry
<1>1. req[c].by = c
  BY DEF LeaseInv, CallInv
<1>2. \A r \in late' : r \in late \/ (pc[c] = "sent" /\ r = req[c])
  OBVIOUS
<1>3. now' <= MaxTime /\ (item' # NoItem => item'.expires_at <= LatestExpiry')
  BY <1>0 DEF ExpiryInv
<1>4. \A r \in late' : r.expires_at <= LatestExpiry'
  BY <1>0, <1>2 DEF ExpiryInv
<1>5. ASSUME NEW d \in Coord, pc'[d] = "sent"
      PROVE  d # c /\ pc[d] = "sent" /\ req'[d] = req[d]
  BY <1>5
<1>6. \A d \in Coord : pc'[d] = "sent" => req'[d].expires_at <= LatestExpiry'
  BY <1>0, <1>5 DEF ExpiryInv
<1>7. ASSUME NEW d \in Coord, pc'[d] = "sent", req'[d].op = "renew"
      PROVE  /\ \A r \in late' : r.by = d => r.expires_at <= req'[d].expires_at + MaxSkew
             /\ item' # NoItem /\ item'.holder = d
                  => item'.expires_at <= req'[d].expires_at + MaxSkew
  BY <1>1, <1>2, <1>5, <1>7 DEF ExpiryInv
<1> QED BY <1>3, <1>4, <1>6, <1>7 DEF ExpiryInv

\* A write is sent with an expiry computed now.
LEMMA SendExpiry ==
  ASSUME LeaseInv, ExpiryInv, NEW c \in Coord, NEW op, NEW epoch, NEW t \in Nat,
         Send(c, op, epoch, t), t <= ExpiryNow(c), op = "renew" => t = ExpiryNow(c),
         UNCHANGED <<now, item, late>>
  PROVE  ExpiryInv'
<1>0. LatestExpiry' = LatestExpiry
  BY DEF LatestExpiry
<1>1. /\ ExpiryNow(c) \in Nat /\ LatestExpiry \in Nat
      /\ ExpiryNow(c) <= LatestExpiry /\ LatestExpiry <= ExpiryNow(c) + MaxSkew
  BY ExpiryBounds, LeaseAssumption DEF LeaseInv
<1>2. /\ req'[c] = [op |-> op, by |-> c, epoch |-> epoch, expires_at |-> t]
      /\ \A d \in Coord : d # c => pc'[d] = pc[d] /\ req'[d] = req[d]
  BY DEF Send, LeaseInv, TypeOK
<1>n. /\ item # NoItem => item.expires_at \in Nat
      /\ \A r \in late : r.expires_at \in Nat
  BY LeaseAssumption DEF LeaseInv, TypeOK, LeaseItem, Request
<1>3. now' <= MaxTime /\ (item' # NoItem => item'.expires_at <= LatestExpiry')
  BY <1>0 DEF ExpiryInv
<1>4. \A r \in late' : r.expires_at <= LatestExpiry'
  BY <1>0 DEF ExpiryInv
<1>5. ASSUME NEW d \in Coord, pc'[d] = "sent"
      PROVE  req'[d].expires_at <= LatestExpiry'
  <2>1. CASE d = c
    BY <1>0, <1>1, <1>2, <2>1
  <2>2. CASE d # c
    BY <1>0, <1>2, <1>5, <2>2 DEF ExpiryInv
  <2> QED BY <2>1, <2>2
<1>6. ASSUME NEW d \in Coord, pc'[d] = "sent", req'[d].op = "renew"
      PROVE  /\ \A r \in late' : r.by = d => r.expires_at <= req'[d].expires_at + MaxSkew
             /\ item' # NoItem /\ item'.holder = d
                  => item'.expires_at <= req'[d].expires_at + MaxSkew
  <2>1. CASE d = c
    <3>1. req'[d].expires_at = ExpiryNow(c)
      BY <1>2, <1>6, <2>1
    <3> QED BY <1>1, <1>n, <3>1, LeaseAssumption DEF ExpiryInv
  <2>2. CASE d # c
    BY <1>2, <1>6, <2>2 DEF ExpiryInv
  <2> QED BY <2>1, <2>2
<1> QED BY <1>3, <1>4, <1>5, <1>6 DEF ExpiryInv

\* The backend evaluates a request; whoever sent it awaits no other.
LEMMA ApplyExpiry ==
  ASSUME LeaseInv, ExpiryInv, NEW r \in Request, RequestInv(r), Apply(r),
         r.expires_at <= LatestExpiry,
         UNCHANGED <<now, req>>, late' \subseteq late,
         \A d \in Coord : pc'[d] = "sent" =>
            pc[d] = "sent" /\ (d = r.by /\ req[d].op = "renew"
                                 => r.expires_at <= req[d].expires_at + MaxSkew)
  PROVE  ExpiryInv'
<1>0. LatestExpiry' = LatestExpiry
  BY DEF LatestExpiry
<1>2. item' # item => item' # NoItem /\ item'.holder = r.by /\ item'.expires_at = r.expires_at
  BY ApplyItem
<1>3. now' <= MaxTime /\ (item' # NoItem => item'.expires_at <= LatestExpiry')
  BY <1>0, <1>2 DEF ExpiryInv
<1>4. \A q \in late' : q.expires_at <= LatestExpiry'
  BY <1>0 DEF ExpiryInv
<1>5. \A d \in Coord : pc'[d] = "sent" => req'[d].expires_at <= LatestExpiry'
  BY <1>0 DEF ExpiryInv
<1>6. ASSUME NEW d \in Coord, pc'[d] = "sent", req'[d].op = "renew"
      PROVE  /\ \A q \in late' : q.by = d => q.expires_at <= req'[d].expires_at + MaxSkew
             /\ item' # NoItem /\ item'.holder = d
                  => item'.expires_at <= req'[d].expires_at + MaxSkew
  BY <1>2, <1>6 DEF ExpiryInv
<1> QED BY <1>3, <1>4, <1>5, <1>6 DEF ExpiryInv

\* Time goes on, every expiry stays among those a clock can have computed.
LEMMA TickExpiry ==
  ASSUME LeaseInv, ExpiryInv, Tick
  PROVE  ExpiryInv'
<1>0. /\ now' \in Nat /\ now <= now' /\ now' <= MaxTime
      /\ UNCHANGED <<item, pc, req, late>>
  BY LeaseAssumption DEF Tick, call, LeaseInv, TypeOK
<1>1. LatestExpiry \in Nat /\ LatestExpiry' \in Nat /\ LatestExpiry <= LatestExpiry'
  BY <1>0, LatestGrows DEF LeaseInv
<1>2. /\ item # NoItem => item.expires_at \in Nat
      /\ \A r \in late : r.expires_at \in Nat
      /\ \A c \in Coord : req[c].expires_at \in Nat
  BY LeaseAssumption DEF LeaseInv, TypeOK, LeaseItem, Request
<1>3. item' # NoItem => item'.expires_at <= LatestExpiry'
  BY <1>0, <1>1, <1>2 DEF ExpiryInv
<1>4. \A r \in late' : r.expires_at <= LatestExpiry'
  BY <1>0, <1>1, <1>2 DEF ExpiryInv
<1>5. \A d \in Coord : pc'[d] = "sent" => req'[d].expires_at <= LatestExpiry'
  BY <1>0, <1>1, <1>2 DEF ExpiryInv
<1> QED BY <1>0, <1>3, <1>4, <1>5 DEF ExpiryInv

\* Every step keeps the order of the expiries.
LEMMA ExpiryStep == LeaseInv /\ ExpiryInv /\ [Next]_vars => ExpiryInv'
<1> SUFFICES ASSUME LeaseInv, ExpiryInv, [Next]_vars PROVE ExpiryInv'
  OBVIOUS
<1>t. TypeOK
  BY DEF LeaseInv
<1>e. \A c \in Coord : ExpiryNow(c) \in Nat /\ 0 <= ExpiryNow(c)
  BY <1>t, ExpiryType, LeaseAssumption DEF ExpiryNow
<1>r. ASSUME NEW c \in Coord, Return(c)
      PROVE  pc'[c] # "sent" /\ \A d \in Coord : d # c => pc'[d] = pc[d] /\ req'[d] = req[d]
  BY <1>r, <1>t DEF Return, TypeOK
<1>1. CASE UNCHANGED vars
  BY <1>1 DEF vars, ExpiryInv, LatestExpiry
<1>2. CASE Tick
  BY <1>2, TickExpiry
<1>14. ASSUME NEW c \in Coord, step_clock(c) PROVE ExpiryInv'
  BY <1>14 DEF step_clock, call, ExpiryInv, LatestExpiry
<1>3. ASSUME NEW c \in Coord, acquire(c) PROVE ExpiryInv'
  BY <1>3, <1>e, SendExpiry DEF acquire, time, ExpiryNow
<1>4. ASSUME NEW c \in Coord, renew(c) PROVE ExpiryInv'
  BY <1>4, <1>e, SendExpiry DEF renew, time, ExpiryNow
<1>5. ASSUME NEW c \in Coord, write(c) PROVE ExpiryInv'
  BY <1>5, <1>e, SendExpiry DEF write, time
<1>6. ASSUME NEW c \in Coord, claim_lease(c) PROVE ExpiryInv'
  <2>1. pc'[c] # "sent" /\ \A d \in Coord : d # c => pc'[d] = pc[d] /\ req'[d] = req[d]
    BY <1>6, <1>t DEF claim_lease, TypeOK
  <2> QED BY <1>6, <2>1, QuietExpiry DEF claim_lease, time
<1>7. ASSUME NEW c \in Coord, read_lease(c) PROVE ExpiryInv'
  <2>1. pc'[c] # "sent" /\ \A d \in Coord : d # c => pc'[d] = pc[d] /\ req'[d] = req[d]
    BY <1>7, <1>t, <1>r DEF read_lease, TypeOK
  <2> QED BY <1>7, <2>1, QuietExpiry DEF read_lease, time
<1>8. ASSUME NEW c \in Coord, claim_check(c) PROVE ExpiryInv'
  <2>1. CASE Return(c)
    BY <1>8, <2>1, <1>r, QuietExpiry DEF claim_check, time
  <2>2. CASE Send(c, "claim", obs[c].epoch, ExpiryNow(c))
    BY <1>8, <2>2, <1>e, SendExpiry DEF claim_check, time
  <2> QED BY <1>8, <2>1, <2>2 DEF claim_check, ExpiryNow
<1>9. ASSUME NEW c \in Coord, serve(c) PROVE ExpiryInv'
  <2>0. PICK r \in Request : r = req[c]
    BY <1>t DEF TypeOK
  <2>1. /\ RequestInv(r) /\ r.by = c /\ Apply(r) /\ r.expires_at <= LatestExpiry
        /\ UNCHANGED <<now, req, late>>
    BY <1>9, <2>0 DEF serve, LeaseInv, CallInv, ExpiryInv, time
  <2>2. \A d \in Coord : pc'[d] = "sent" => pc[d] = "sent" /\ d # c
    BY <1>9, <1>t DEF serve, TypeOK
  <2> QED BY <2>1, <2>2, ApplyExpiry
<1>10. ASSUME NEW c \in Coord, deliver(c) PROVE ExpiryInv'
  BY <1>10, <1>r, QuietExpiry DEF deliver, time
<1>11. ASSUME NEW c \in Coord, transport_error(c) PROVE ExpiryInv'
  BY <1>11, <1>r, QuietExpiry DEF transport_error, Abandon, time
<1>12. ASSUME NEW c \in Coord, restart(c) PROVE ExpiryInv'
  BY <1>12, <1>r, QuietExpiry DEF restart, Abandon, time
<1>13. ASSUME NEW r \in late, serve_late(r) PROVE ExpiryInv'
  <2>1. /\ r \in Request /\ RequestInv(r) /\ Apply(r) /\ r.expires_at <= LatestExpiry
        /\ UNCHANGED <<now, pc, req>> /\ late' \subseteq late
    BY <1>13, <1>t DEF serve_late, LeaseInv, LateInv, ExpiryInv, TypeOK, time, call
  <2>2. \A d \in Coord : pc[d] = "sent" /\ d = r.by /\ req[d].op = "renew"
                           => r.expires_at <= req[d].expires_at + MaxSkew
    BY DEF ExpiryInv
  <2> QED BY <2>1, <2>2, ApplyExpiry
<1> QED
  BY <1>1, <1>2, <1>3, <1>4, <1>5, <1>6, <1>7, <1>8, <1>9, <1>10, <1>11, <1>12, <1>13, <1>14
     DEF Next

\* The expiries of an item, and of the requests of its holder, come in order.
LEMMA ExpiryInvariant == Spec => []ExpiryInv
<1>1. Init => ExpiryInv
  BY LeaseAssumption DEF Init, ExpiryInv
<1> QED BY <1>1, ExpiryStep, LeaseInvariant, PTL DEF Spec

\* Within an epoch a renewal its caller waits for takes back no more of the lease
\* than clocks are set back (renew computes the expiry before its write is sent).
THEOREM LeaseOnlyDelayOrStepShortens == Spec => OnlyDelayOrStepShortens
<1>1. LeaseInv /\ ExpiryInv /\ [Next]_vars =>
        [/\ item # NoItem /\ item' # NoItem /\ item'.epoch = item.epoch
         /\ item'.expires_at + MaxSkew < item.expires_at
         => late' # late]_vars
  <2> SUFFICES ASSUME LeaseInv, ExpiryInv, Next,
                      item # NoItem, item' # NoItem, item'.epoch = item.epoch,
                      item'.expires_at + MaxSkew < item.expires_at
               PROVE  late' # late
    BY DEF vars
  <2>0. item \in LeaseItem /\ item.expires_at \in Nat /\ item.epoch \in Nat
    BY LeaseAssumption DEF LeaseInv, TypeOK, LeaseItem
  <2>1. item' # item
    BY <2>0, LeaseAssumption
  <2>2. ASSUME NEW c \in Coord, serve(c) PROVE FALSE
    <3>0. PICK r \in Request : r = req[c]
      BY DEF LeaseInv, TypeOK
    <3>1. RequestInv(r) /\ r.by = c /\ Apply(r) /\ pc[c] = "sent" /\ r.expires_at \in Nat
      BY <2>2, <3>0, LeaseAssumption DEF serve, LeaseInv, CallInv, Request
    <3>2. /\ item'.expires_at = r.expires_at
          /\ \/ r.op = "renew" /\ item.holder = r.by
             \/ item'.epoch = item.epoch + 1
      BY <2>1, <3>1, ApplyItem
    <3>3. r.op = "renew" /\ item.holder = c
      BY <3>1, <3>2, <2>0
    <3>4. item.expires_at <= r.expires_at + MaxSkew
      BY <3>0, <3>1, <3>3 DEF ExpiryInv
    <3> QED BY <3>1, <3>2, <3>4, <2>0, LeaseAssumption
  <2>3. ASSUME NEW r \in late, serve_late(r) PROVE late' # late
    BY <2>3 DEF serve_late
  <2> QED
    BY <2>1, <2>2, <2>3 DEF Next, Tick, acquire, renew, claim_lease, write, read_lease,
       claim_check, deliver, transport_error, restart, step_clock
<1> QED
  BY <1>1, LeaseInvariant, ExpiryInvariant, PTL DEF Spec, OnlyDelayOrStepShortens

-----------------------------------------------------------------------------
(* Takeovers.                                                              *)

\* Whoever believes in the epoch of the item, or is about to, believes in an
\* expiry that the item has nearly reached; requests are applied in time or never.
LEMMA ApplyTakeover ==
  ASSUME LeaseInv, ExpiryInv, TakeoverInv, NEW c \in Coord, serve(c)
  PROVE  TakeoverInv'
<1>t. TypeOK
  BY DEF LeaseInv
<1>0. PICK r \in Request : r = req[c]
  BY <1>t DEF TypeOK
<1>1. /\ RequestInv(r) /\ r.by = c /\ Apply(r) /\ pc[c] = "sent" /\ r.expires_at \in Nat
      /\ UNCHANGED <<now, req, view, late>>
  BY <1>0, LeaseAssumption DEF serve, LeaseInv, CallInv, Request, time
<1>2. /\ obs'[c] = item' /\ pc'[c] = "served"
      /\ \A d \in Coord : d # c =>
           pc'[d] = pc[d] /\ obs'[d] = obs[d] /\ reply'[d] = reply[d]
  BY <1>t DEF serve, TypeOK
<1>9. LatestExpiry' = LatestExpiry
  BY <1>1 DEF LatestExpiry
<1>3. ASSUME NEW l \in LeaseItem, NEW d \in Coord, Granted(d, l.epoch),
             item' # NoItem, l.epoch = item'.epoch,
             item # NoItem /\ l.epoch = item.epoch => l.expires_at <= item.expires_at + MaxSkew,
             d = c /\ r.op = "renew" => l.expires_at <= r.expires_at + MaxSkew
      PROVE  l.expires_at <= item'.expires_at + MaxSkew
  <2>0. l.expires_at \in Nat /\ l.epoch \in 1..Len(grants) /\ Len(grants) \in Nat
    BY <1>t, <1>3, LeaseAssumption DEF LeaseItem, TypeOK, Granted
  <2>1. CASE item' = item
    BY <2>1, <1>3
  <2>2. CASE item' # item
    <3>1. /\ item'.expires_at = r.expires_at
          /\ item # NoItem =>
              \/ r.op = "renew" /\ item.holder = r.by /\ item'.epoch = item.epoch
              \/ item'.epoch = item.epoch + 1
      BY <1>1, <2>2, ApplyItem
    <3>2. item # NoItem
      BY <1>3, <2>0 DEF LeaseInv, ItemIsNewestGrant
    <3>3. item.epoch = Len(grants) /\ Granted(item.holder, item.epoch)
      BY <3>2 DEF LeaseInv, ItemIsNewestGrant
    <3>4. r.op = "renew" /\ item.holder = c /\ item'.epoch = item.epoch
      BY <1>1, <1>3, <2>0, <3>1, <3>2, <3>3
    <3>5. d = c
      BY <1>3, <3>3, <3>4 DEF Granted
    <3> QED BY <1>3, <3>1, <3>4, <3>5
  <2> QED BY <2>1, <2>2
<1>4. ASSUME NEW d \in Coord, pc'[d] = "sent", req'[d].op = "claim"
      PROVE  /\ obs'[d] # NoItem
             /\ takeover_eligible_millis(now + MaxSkew, obs[d].expires_at)'
  BY <1>1, <1>2, <1>4 DEF TakeoverInv, takeover_eligible_millis
<1>5. ASSUME NEW d \in Coord, view[d] # NoItem, item' # NoItem, view[d].epoch = item'.epoch
      PROVE  view[d].expires_at <= item'.expires_at + MaxSkew
  <2>1. view[d] \in LeaseItem /\ Granted(d, view[d].epoch)
    BY <1>5, <1>t DEF LeaseInv, ViewInv, TypeOK
  <2>2. d = c /\ r.op = "renew" => view[d].expires_at <= r.expires_at + MaxSkew
    BY <1>0, <1>1 DEF TakeoverInv
  <2>3. item # NoItem /\ view[d].epoch = item.epoch
          => view[d].expires_at <= item.expires_at + MaxSkew
    BY <1>5 DEF TakeoverInv
  <2> QED BY <1>3, <1>5, <2>1, <2>2, <2>3
<1>6. ASSUME NEW d \in Coord, pc'[d] = "served", reply'[d] = "ok", req'[d].op # "write",
             item' # NoItem, obs'[d].epoch = item'.epoch
      PROVE  obs'[d].expires_at <= item'.expires_at + MaxSkew
  <2>1. CASE d = c
    <3>1. item' \in LeaseItem
      BY <1>1, <1>6, ApplyKeeps DEF LeaseInv
    <3>2. item'.expires_at \in Nat
      BY <3>1, LeaseAssumption DEF LeaseItem
    <3> QED BY <2>1, <1>2, <3>2, LeaseAssumption
  <2>2. CASE d # c
    <3>1. /\ pc[d] = "served" /\ reply[d] = "ok" /\ req[d].op # "write"
          /\ obs'[d] = obs[d]
      BY <2>2, <1>1, <1>2, <1>6
    <3>2. obs[d] \in LeaseItem /\ Granted(d, obs[d].epoch)
      BY <3>1, <1>t DEF LeaseInv, CallInv, TypeOK
    <3>3. item # NoItem /\ obs[d].epoch = item.epoch
            => obs[d].expires_at <= item.expires_at + MaxSkew
      BY <3>1 DEF TakeoverInv
    <3> QED BY <1>3, <1>6, <2>2, <3>1, <3>2, <3>3
  <2> QED BY <2>1, <2>2
<1>7. late' = {}
  BY <1>1 DEF TakeoverInv
<1>8. ASSUME NEW d \in Coord
      PROVE  /\ view'[d] # NoItem => view'[d].expires_at <= LatestExpiry'
             /\ obs'[d] # NoItem => obs'[d].expires_at <= LatestExpiry'
             /\ pc'[d] = "sent" /\ req'[d].op = "renew"
                  => view'[d].expires_at <= req'[d].expires_at + MaxSkew
  <2>1. item' # NoItem => item'.expires_at <= LatestExpiry
    <3>1. CASE item' = item
      BY <3>1 DEF ExpiryInv
    <3>2. CASE item' # item
      BY <1>0, <1>1, <3>2, ApplyItem DEF ExpiryInv
    <3> QED BY <3>1, <3>2
  <2> QED BY <1>1, <1>2, <1>9, <2>1 DEF TakeoverInv
<1> QED BY <1>1, <1>4, <1>5, <1>6, <1>7, <1>8 DEF TakeoverInv

\* A step that leaves the item alone, adds no claim that was not eligible and
\* changes a view only to what the backend returned.
LEMMA QuietTakeover ==
  ASSUME LeaseInv, ExpiryInv, TakeoverInv, UNCHANGED <<now, item, late>>, NEW c \in Coord,
         \A d \in Coord : d # c =>
           /\ pc'[d] = pc[d] /\ req'[d] = req[d] /\ reply'[d] = reply[d]
           /\ obs'[d] = obs[d] /\ view'[d] = view[d],
         pc'[c] # "served",
         pc'[c] = "sent" /\ req'[c].op = "claim" =>
           /\ obs'[c] # NoItem
           /\ takeover_eligible_millis(now + MaxSkew, obs'[c].expires_at),
         pc'[c] = "sent" /\ req'[c].op = "renew" =>
           view'[c].expires_at <= req'[c].expires_at + MaxSkew,
         obs'[c] \in {NoItem, obs[c], item},
         \/ view'[c] \in {NoItem, view[c]}
         \/ /\ pc[c] = "served" /\ reply[c] = "ok" /\ req[c].op # "write"
            /\ view'[c] = obs[c]
  PROVE  TakeoverInv'
<1>0. LatestExpiry' = LatestExpiry
  BY DEF LatestExpiry
<1>1. late' = {}
  BY DEF TakeoverInv
<1>2. ASSUME NEW d \in Coord, pc'[d] = "sent", req'[d].op = "claim"
      PROVE  /\ obs'[d] # NoItem
             /\ takeover_eligible_millis(now + MaxSkew, obs[d].expires_at)'
  BY <1>2 DEF TakeoverInv, takeover_eligible_millis
<1>3. ASSUME NEW d \in Coord, view'[d] # NoItem, item' # NoItem, view'[d].epoch = item'.epoch
      PROVE  view'[d].expires_at <= item'.expires_at + MaxSkew
  BY <1>3 DEF TakeoverInv
<1>4. ASSUME NEW d \in Coord, pc'[d] = "served", reply'[d] = "ok", req'[d].op # "write",
             item' # NoItem, obs'[d].epoch = item'.epoch
      PROVE  obs'[d].expires_at <= item'.expires_at + MaxSkew
  BY <1>4 DEF TakeoverInv
<1>5. ASSUME NEW d \in Coord
      PROVE  /\ view'[d] # NoItem => view'[d].expires_at <= LatestExpiry'
             /\ obs'[d] # NoItem => obs'[d].expires_at <= LatestExpiry'
  BY <1>0 DEF TakeoverInv, ExpiryInv
<1>6. ASSUME NEW d \in Coord, pc'[d] = "sent", req'[d].op = "renew"
      PROVE  view'[d].expires_at <= req'[d].expires_at + MaxSkew
  BY <1>6 DEF TakeoverInv
<1> QED BY <1>1, <1>2, <1>3, <1>4, <1>5, <1>6 DEF TakeoverInv

\* Time goes on: an eligible takeover stays eligible.
LEMMA TickTakeover ==
  ASSUME LeaseInv, TakeoverInv, Tick
  PROVE  TakeoverInv'
<1>0. /\ now \in Nat /\ now' \in Nat /\ now <= now'
      /\ UNCHANGED <<item, pc, req, reply, obs, view, late>>
  BY DEF Tick, call, LeaseInv, TypeOK
<1>1. LatestExpiry \in Nat /\ LatestExpiry' \in Nat /\ LatestExpiry <= LatestExpiry'
  BY <1>0, LatestGrows DEF LeaseInv
<1>2. ASSUME NEW c \in Coord, obs[c] # NoItem,
             takeover_eligible_millis(now + MaxSkew, obs[c].expires_at)
      PROVE  takeover_eligible_millis(now + MaxSkew, obs[c].expires_at)'
  <2>1. obs[c].expires_at \in Nat
    BY <1>2, LeaseAssumption DEF LeaseInv, TypeOK, LeaseItem
  <2>2. saturating_add(obs[c].expires_at, TAKEOVER_SAFETY_MARGIN) \in 0..MaxMillis
    BY <2>1, LeaseAssumption, SaturatingAddType
  <2> QED BY <1>0, <1>2, <2>2, LeaseAssumption DEF takeover_eligible_millis
<1>3. ASSUME NEW c \in Coord
      PROVE  /\ view'[c] # NoItem => view'[c].expires_at <= LatestExpiry'
             /\ obs'[c] # NoItem => obs'[c].expires_at <= LatestExpiry'
  <2>1. /\ view[c] # NoItem => view[c].expires_at \in Nat
        /\ obs[c] # NoItem => obs[c].expires_at \in Nat
    BY LeaseAssumption DEF LeaseInv, TypeOK, LeaseItem
  <2> QED BY <1>0, <1>1, <2>1 DEF TakeoverInv
<1> QED BY <1>0, <1>2, <1>3 DEF TakeoverInv

\* Every step keeps it, when an abandoned request is never applied.
LEMMA TakeoverStep ==
  ASSUME MaxLate = 0, LeaseInv, ExpiryInv, TakeoverInv, [Next]_vars
  PROVE  TakeoverInv'
<1>t. TypeOK
  BY DEF LeaseInv
<1>l. \A c \in Coord : Abandon(c) => late' = late
  <2>1. Cardinality(late) = 0
    BY FS_EmptySet DEF TakeoverInv
  <2> QED BY <2>1 DEF Abandon
<1>r. ASSUME NEW c \in Coord, Return(c)
      PROVE  /\ pc'[c] = "idle" /\ obs'[c] = NoItem
             /\ \A d \in Coord : d # c =>
                  /\ pc'[d] = pc[d] /\ req'[d] = req[d] /\ reply'[d] = reply[d]
                  /\ obs'[d] = obs[d]
  BY <1>r, <1>t DEF Return, TypeOK
<1>s. ASSUME NEW c \in Coord, NEW op, NEW e, NEW t, Send(c, op, e, t)
      PROVE  /\ pc'[c] = "sent" /\ req'[c].op = op /\ obs' = obs
             /\ \A d \in Coord : d # c =>
                  /\ pc'[d] = pc[d] /\ req'[d] = req[d] /\ reply'[d] = reply[d]
                  /\ obs'[d] = obs[d]
  BY <1>s, <1>t DEF Send, TypeOK
<1>1. CASE UNCHANGED vars
  BY <1>1 DEF vars, TakeoverInv, LatestExpiry
<1>2. CASE Tick
  BY <1>2, TickTakeover
<1>14. ASSUME NEW c \in Coord, step_clock(c) PROVE TakeoverInv'
  BY <1>14 DEF step_clock, call, TakeoverInv, LatestExpiry
<1>3. ASSUME NEW c \in Coord, acquire(c) PROVE TakeoverInv'
  BY <1>3, <1>s, QuietTakeover DEF acquire, time
<1>4. ASSUME NEW c \in Coord, renew(c) PROVE TakeoverInv'
  <2>1. /\ view[c] # NoItem /\ UNCHANGED <<now, item, late, view>>
        /\ Send(c, "renew", view[c].epoch, ExpiryNow(c))
    BY <1>4 DEF renew, time, ExpiryNow
  <2>2. req'[c].expires_at = ExpiryNow(c)
    BY <2>1, <1>t DEF Send, TypeOK
  <2>3. view[c].expires_at <= ExpiryNow(c) + MaxSkew
    <3>1. /\ view[c].expires_at \in Nat /\ ExpiryNow(c) \in Nat /\ LatestExpiry \in Nat
          /\ LatestExpiry <= ExpiryNow(c) + MaxSkew
      BY <1>t, <2>1, ExpiryBounds, LeaseAssumption DEF TypeOK, LeaseItem
    <3> QED BY <2>1, <3>1, LeaseAssumption DEF TakeoverInv
  <2> QED BY <2>1, <2>2, <2>3, <1>s, QuietTakeover
<1>5. ASSUME NEW c \in Coord, write(c) PROVE TakeoverInv'
  BY <1>5, <1>s, QuietTakeover DEF write, time
<1>6. ASSUME NEW c \in Coord, claim_lease(c) PROVE TakeoverInv'
  <2>1. pc'[c] = "get" /\ \A d \in Coord : d # c => pc'[d] = pc[d]
    BY <1>6, <1>t DEF claim_lease, TypeOK
  <2> QED BY <1>6, <2>1, QuietTakeover DEF claim_lease, time
<1>7. ASSUME NEW c \in Coord, read_lease(c) PROVE TakeoverInv'
  <2>1. CASE Return(c)
    BY <1>7, <2>1, <1>r, QuietTakeover DEF read_lease, time
  <2>2. CASE ~Return(c)
    <3>1. /\ pc'[c] = "got" /\ obs'[c] = item /\ UNCHANGED <<req, reply>>
          /\ \A d \in Coord : d # c => pc'[d] = pc[d] /\ obs'[d] = obs[d]
      BY <1>7, <2>2, <1>t DEF read_lease, TypeOK
    <3> QED BY <1>7, <3>1, QuietTakeover DEF read_lease, time
  <2> QED BY <2>1, <2>2
<1>8. ASSUME NEW c \in Coord, claim_check(c) PROVE TakeoverInv'
  <2>0. /\ UNCHANGED <<now, item, late, view>> /\ obs[c] # NoItem
    BY <1>8 DEF claim_check, time, LeaseInv, CallInv
  <2>1. CASE Return(c)
    BY <2>0, <2>1, <1>r, QuietTakeover
  <2>2. CASE /\ takeover_eligible_millis(now_millis(c), obs[c].expires_at)
             /\ Send(c, "claim", obs[c].epoch, saturating_add(now_millis(c), LEASE_TTL))
    <3>1. /\ pc'[c] = "sent" /\ obs' = obs
          /\ \A d \in Coord : d # c =>
                  /\ pc'[d] = pc[d] /\ req'[d] = req[d] /\ reply'[d] = reply[d]
                  /\ obs'[d] = obs[d]
      BY <2>2, <1>s
    <3>2. takeover_eligible_millis(now + MaxSkew, obs[c].expires_at) /\ req'[c].op = "claim"
      <4>1. now_millis(c) \in Nat /\ now_millis(c) <= now + MaxSkew /\ now \in Nat
        BY <1>t, ExpiryBounds DEF TypeOK
      <4>2. obs[c].expires_at \in Nat
        BY <1>t, <2>0, LeaseAssumption DEF TypeOK, LeaseItem
      <4>3. saturating_add(obs[c].expires_at, TAKEOVER_SAFETY_MARGIN) \in 0..MaxMillis
        BY <4>2, SaturatingAddType, LeaseAssumption
      <4> QED BY <2>2, <1>s, <4>1, <4>3, LeaseAssumption DEF takeover_eligible_millis
    <3> QED BY <2>0, <3>1, <3>2, QuietTakeover
  <2> QED BY <1>8, <2>1, <2>2 DEF claim_check
<1>9. ASSUME NEW c \in Coord, serve(c) PROVE TakeoverInv'
  BY <1>9, ApplyTakeover
<1>10. ASSUME NEW c \in Coord, deliver(c) PROVE TakeoverInv'
  <2>0. /\ UNCHANGED <<now, item, late>> /\ Return(c) /\ pc[c] = "served"
    BY <1>10 DEF deliver, time
  <2>1. /\ \A d \in Coord : d # c => view'[d] = view[d]
        /\ \/ view'[c] \in {NoItem, view[c]}
           \/ reply[c] = "ok" /\ req[c].op # "write" /\ view'[c] = obs[c]
    <3>1. CASE reply[c] = "ok" /\ req[c].op # "write"
      <4>1. view' = [view EXCEPT ![c] = obs[c]]
        BY <1>10, <3>1 DEF deliver
      <4> QED BY <3>1, <4>1, <1>t DEF TypeOK
    <3>2. CASE reply[c] # "ok" /\ req[c].op = "renew"
      <4>1. view' = [view EXCEPT ![c] = NoItem]
        BY <1>10, <3>2 DEF deliver
      <4> QED BY <4>1, <1>t DEF TypeOK
    <3>3. CASE ~(reply[c] = "ok" /\ req[c].op # "write") /\ ~(reply[c] # "ok" /\ req[c].op = "renew")
      <4>1. view' = view
        BY <1>10, <3>3 DEF deliver
      <4> QED BY <4>1
    <3> QED BY <3>1, <3>2, <3>3
  <2> QED BY <2>0, <2>1, <1>r, QuietTakeover
<1>11. ASSUME NEW c \in Coord, transport_error(c) PROVE TakeoverInv'
  BY <1>11, <1>r, <1>l, QuietTakeover DEF transport_error, time
<1>12. ASSUME NEW c \in Coord, restart(c) PROVE TakeoverInv'
  <2>1. view'[c] = NoItem /\ \A d \in Coord : d # c => view'[d] = view[d]
    BY <1>12, <1>t DEF restart, TypeOK
  <2> QED BY <1>12, <2>1, <1>r, <1>l, QuietTakeover DEF restart, time
<1>13. \A r \in late : FALSE
  BY DEF TakeoverInv
<1> QED
  BY <1>1, <1>2, <1>3, <1>4, <1>5, <1>6, <1>7, <1>8, <1>9, <1>10, <1>11, <1>12, <1>13, <1>14
     DEF Next

\* A takeover whose read of the lease is still current finds every holder past
\* its own expiry: the safety margin covers the clocks' difference and, because a
\* holder may have renewed with a clock that was set back, covers it twice; no
\* region's clock reaches u64::MAX, and no request is applied after its caller
\* gave up.
THEOREM LeaseTakeoverAfterExpiry ==
  ASSUME 2 * MaxSkew <= TAKEOVER_SAFETY_MARGIN, MaxTime + MaxSkew < MaxMillis, MaxLate = 0
  PROVE  Spec => TakeoverAfterExpiry
<1>1. Init => TakeoverInv
  BY DEF Init, TakeoverInv
<1>2. LeaseInv /\ ExpiryInv /\ TakeoverInv /\ [Next]_vars => TakeoverInv'
  BY TakeoverStep
<1>3. LeaseInv /\ ExpiryInv /\ TakeoverInv =>
        \A c \in Coord : TakesOver(c) /\ obs[c] = item => HolderConsidersExpired
  <2> SUFFICES ASSUME LeaseInv, ExpiryInv, TakeoverInv, NEW c \in Coord, TakesOver(c),
                      obs[c] = item, NEW d \in Coord,
                      view[d] # NoItem, view[d].epoch = item.epoch
               PROVE  view[d].expires_at <= now_millis(d)
    BY DEF HolderConsidersExpired
  <2>1. /\ item # NoItem
        /\ takeover_eligible_millis(now + MaxSkew, item.expires_at)
    BY DEF TakesOver, TakeoverInv
  <2>2. view[d].expires_at <= item.expires_at + MaxSkew
    BY <2>1 DEF TakeoverInv
  <2>3. /\ item.expires_at \in Nat /\ view[d].expires_at \in Nat
        /\ now \in Nat /\ now <= MaxTime /\ skew[d] \in 0..MaxSkew
    BY <2>1, LeaseAssumption DEF LeaseInv, ExpiryInv, TypeOK, LeaseItem
  <2>4. now + MaxSkew < MaxMillis
    BY <2>3, LeaseAssumption
  <2>5. item.expires_at + TAKEOVER_SAFETY_MARGIN <= now + MaxSkew
    BY <2>1, <2>3, <2>4, LeaseAssumption DEF takeover_eligible_millis, saturating_add
  <2> QED BY <2>2, <2>3, <2>5, LeaseAssumption DEF now_millis
<1>4. LeaseInv /\ ExpiryInv /\ TakeoverInv =>
        [\A c \in Coord : TakesOver(c) /\ obs[c] = item => HolderConsidersExpired]_vars
  BY <1>3
<1> QED
  BY <1>1, <1>2, <1>4, LeaseInvariant, ExpiryInvariant, PTL DEF Spec, TakeoverAfterExpiry
=============================================================================
