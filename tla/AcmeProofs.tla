---------------------------- MODULE AcmeProofs ----------------------------
(***************************************************************************)
(* Proofs about Acme, for any sets of requests, keys and nonces, any TTL   *)
(* and any clock.                                                          *)
(***************************************************************************)
EXTENDS Acme, TLAPS

\* A nonce that was presented is neither spendable nor drawn again.
PresentedIsSpent ==
  \A r \in Requests : Presented(r) => msg[r].nonce \notin issued \cup fresh

\* A request has no result before it is handled, and one that got past its
\* nonce carries a nonce of this server.
RequestInv ==
  \A r \in Requests :
    /\ stage[r] \in {"idle", "admitted"} => result[r] = "none"
    /\ stage[r] = "admitted" => msg[r].flaw \notin EarlyFlaws /\ msg[r].nonce \in Nonces

\* What the clients were told about accounts is what the store holds.
AnswersMatchStore ==
  /\ \A r \in Requests : result[r] \in {"Ok", "Created"} =>
       /\ msg[r].signed_by = msg[r].jwk
       /\ \E a \in accounts : /\ a.key = msg[r].jwk /\ a.id = location[r]
                              /\ result[r] = "Created" => a.contact = r
  /\ \A a \in accounts : result[a.contact] = "Created" /\ msg[a.contact].jwk = a.key

NonceInv == TypeOK /\ PresentedIsSpent /\ RequestInv
----------------------------------------------------------------------------
\* The fields a message has once its nonce is read.
LEMMA MessageFields ==
  ASSUME NEW m \in Message
  PROVE  /\ m.flaw \in Flaws \cup {"none"}
         /\ m.flaw \notin EarlyFlaws => m.nonce \in Nonces \cup {Forged}
         /\ m.flaw = "none" => m.jwk \in Keys
<1>1. CASE m \in Rejected
  BY <1>1, FlawsAssumption DEF Rejected, EarlyFlaws
<1>2. CASE m \in Failing
  BY <1>2, FlawsAssumption DEF Failing, LateFlaws
<1>3. CASE m \in WellFormed
  BY <1>3 DEF WellFormed
<1> QED
  BY <1>1, <1>2, <1>3 DEF Message

\* A failed check never looks like a registration.
LEMMA ProblemType ==
  ASSUME NEW flaw
  PROVE  Problem(flaw) \in Results \ {"none", "Ok", "Created"}
BY DEF Problem, Results

\* The store after an issue has nonces that were there or the new one.
LEMMA IssueType ==
  ASSUME TypeOK, (\E n \in fresh : issue(n)) \/ issue_fails
  PROVE  /\ fresh' \subseteq fresh
         /\ issued' \subseteq Nonces
         /\ \A n \in Nonces : n \notin issued \cup fresh => n \notin issued' \cup fresh'
         /\ deadline' \in [Nonces -> Nat]
         /\ last_prune' \in Nat
<1>1. CASE issue_fails
  BY <1>1 DEF issue_fails, TypeOK, Unexpired
<1>2. ASSUME NEW n \in fresh, issue(n)
      PROVE  /\ fresh' \subseteq fresh
             /\ issued' \subseteq Nonces
             /\ \A k \in Nonces : k \notin issued \cup fresh => k \notin issued' \cup fresh'
             /\ deadline' \in [Nonces -> Nat]
             /\ last_prune' \in Nat
  <2>1. clock + TTL \in Nat
    BY TimeAssumption DEF TypeOK
  <2> QED
    BY <1>2, <2>1 DEF issue, TypeOK, Unexpired
<1> QED
  BY <1>1, <1>2

\* Reply changes the three variables of one request within their types.
LEMMA ReplyType ==
  ASSUME TypeOK, NEW r \in Requests, NEW outcome \in Results, NEW id \in Nat,
         Reply(r, outcome, id)
  PROVE  /\ stage' \in [Requests -> {"idle", "admitted", "handled", "answered", "server_error"}]
         /\ result' \in [Requests -> Results]
         /\ location' \in [Requests -> Nat]
         /\ stage'[r] = "handled" /\ result'[r] = outcome /\ location'[r] = id
         /\ \A s \in Requests \ {r} :
              stage'[s] = stage[s] /\ result'[s] = result[s] /\ location'[s] = location[s]
BY DEF Reply, TypeOK
----------------------------------------------------------------------------
\* Every action keeps the types.
LEMMA AcmeTypeStep == TypeOK /\ [Next]_vars => TypeOK'
<1> SUFFICES ASSUME TypeOK, [Next]_vars PROVE TypeOK'
  OBVIOUS
<1> USE DEF vars, nonceVars, accountVars, requestVars
<1>1. CASE Tick
  <2>1. clock' \in Nat
    BY <1>1, TimeAssumption DEF Tick
  <2> QED
    BY <1>1, <2>1 DEF Tick, TypeOK
<1>2. CASE new_nonce
  BY <1>2, IssueType DEF new_nonce, TypeOK
<1>3. ASSUME NEW r \in Requests, NEW m \in Message, new_account_reject(r, m) PROVE TypeOK'
  <2>1. Problem(m.flaw) \in Results
    BY ProblemType
  <2> QED
    BY <1>3, <2>1, ReplyType DEF new_account_reject, TypeOK
<1>4. ASSUME NEW r \in Requests, NEW m \in Message, new_account_bad_nonce(r, m) PROVE TypeOK'
  <2>1. "BadNonce" \in Results
    BY DEF Results
  <2> QED
    BY <1>4, <2>1, ReplyType DEF new_account_bad_nonce, TypeOK
<1>5. ASSUME NEW r \in Requests, NEW m \in Message, new_account_admit(r, m) PROVE TypeOK'
  BY <1>5 DEF new_account_admit, TypeOK
<1>6. ASSUME NEW r \in Requests, new_account_fail(r) PROVE TypeOK'
  <2>1. Problem(msg[r].flaw) \in Results
    BY ProblemType
  <2> QED
    BY <1>6, <2>1, ReplyType DEF new_account_fail, TypeOK
<1>7. ASSUME NEW r \in Requests, new_account_existing(r) PROVE TypeOK'
  <2>1. PICK a \in accounts : Reply(r, "Ok", a.id)
    BY <1>7 DEF new_account_existing, find_by_thumbprint
  <2>2. a.id \in Nat /\ "Ok" \in Results
    BY DEF TypeOK, Account, Results
  <2> QED
    BY <1>7, <2>1, <2>2, ReplyType DEF new_account_existing, TypeOK
<1>8. ASSUME NEW r \in Requests, new_account_absent(r) PROVE TypeOK'
  <2>1. "AccountDoesNotExist" \in Results
    BY DEF Results
  <2> QED
    BY <1>8, <2>1, ReplyType DEF new_account_absent, TypeOK
<1>9. ASSUME NEW r \in Requests, new_account_create(r) PROVE TypeOK'
  <2>1. "Created" \in Results /\ next_id \in Nat /\ next_id + 1 \in Nat \ {0}
    BY DEF Results, TypeOK
  <2>2. msg[r].jwk \in Keys
    BY <1>9, MessageFields DEF new_account_create, TypeOK, Passes, EarlyFlaws
  <2>3. accounts' \subseteq Account /\ id_index' \subseteq [id : Nat, key : Keys]
        /\ next_id' \in Nat \ {0}
    BY <1>9, <2>1, <2>2 DEF new_account_create, get_or_create, Account, TypeOK
  <2> QED
    BY <1>9, <2>1, <2>3, ReplyType DEF new_account_create, TypeOK
<1>10. ASSUME NEW r \in Requests, attach_replay_nonce(r) PROVE TypeOK'
  <2>1. (\E n \in fresh : issue(n)) \/ issue_fails
    BY <1>10 DEF attach_replay_nonce
  <2>2. stage' \in [Requests -> {"idle", "admitted", "handled", "answered", "server_error"}]
        /\ \A s \in Requests : stage'[s] # "idle" => stage[s] # "idle"
    BY <1>10 DEF attach_replay_nonce, TypeOK
  <2> QED
    BY <1>10, <2>1, <2>2, IssueType DEF attach_replay_nonce, TypeOK
<1>11. CASE UNCHANGED vars
  BY <1>11 DEF TypeOK
<1> QED
  BY <1>1, <1>2, <1>3, <1>4, <1>5, <1>6, <1>7, <1>8, <1>9, <1>10, <1>11
  DEF Next, Presentable

\* The types of the two stores and of the requests hold in every state.
THEOREM AcmeTypeCorrect == Spec => []TypeOK
<1>1. Init => TypeOK
  BY TimeAssumption DEF Init, TypeOK, Results, first_id
<1> QED
  BY <1>1, AcmeTypeStep, PTL DEF Spec
----------------------------------------------------------------------------
\* Presenting removes a nonce from the store, and issuing only adds nonces
\* nobody can have presented.
LEMMA NonceStep == NonceInv /\ [Next]_vars => NonceInv'
<1> SUFFICES ASSUME NonceInv, [Next]_vars PROVE PresentedIsSpent' /\ RequestInv'
  BY AcmeTypeStep DEF NonceInv
<1> USE DEF vars, nonceVars, accountVars, requestVars
<1>t. TypeOK /\ TypeOK' /\ PresentedIsSpent /\ RequestInv
  BY AcmeTypeStep DEF NonceInv
<1>n. \A r \in Requests : Presented(r) => msg[r].nonce \in Nonces \cup {Forged}
  BY <1>t, MessageFields DEF Presented, TypeOK
<1>1. CASE Tick \/ UNCHANGED vars
  BY <1>1, <1>t DEF Tick, PresentedIsSpent, RequestInv, Presented
<1>2. ASSUME (\E n \in fresh : issue(n)) \/ issue_fails,
             msg' = msg, \A r \in Requests : Presented(r)' => Presented(r)
      PROVE  PresentedIsSpent'
  <2> SUFFICES ASSUME NEW r \in Requests, Presented(r)'
               PROVE  msg[r].nonce \notin issued' \cup fresh'
    BY <1>2 DEF PresentedIsSpent
  <2>1. msg[r].nonce \notin issued \cup fresh /\ msg[r].nonce \in Nonces \cup {Forged}
    BY <1>2, <1>n, <1>t DEF PresentedIsSpent
  <2>2. fresh' \subseteq Nonces /\ issued' \subseteq Nonces
    BY <1>t DEF TypeOK
  <2> QED
    BY <1>2, <1>t, <2>1, <2>2, IssueType, ForgedAssumption
<1>3. CASE new_nonce
  <2>1. RequestInv'
    BY <1>3, <1>t DEF new_nonce, RequestInv
  <2>2. \A r \in Requests : Presented(r)' => Presented(r)
    BY <1>3 DEF new_nonce, Presented
  <2> QED
    BY <1>2, <1>3, <2>1, <2>2 DEF new_nonce
<1>4. ASSUME NEW r \in Requests, NEW m \in Presentable,
             new_account_reject(r, m)
      PROVE  PresentedIsSpent' /\ RequestInv'
  <2>1. msg' = [msg EXCEPT ![r] = m] /\ m.flaw \in EarlyFlaws
    BY <1>4 DEF new_account_reject, RejectedUnspent
  <2>2. stage' = [stage EXCEPT ![r] = "handled"]
        /\ \A s \in Requests \ {r} : result'[s] = result[s]
    BY <1>4, <1>t DEF new_account_reject, Reply, TypeOK
  <2>3. UNCHANGED <<issued, fresh>>
    BY <1>4 DEF new_account_reject
  <2> QED
    BY <2>1, <2>2, <2>3, <1>t DEF PresentedIsSpent, RequestInv, Presented, TypeOK
<1>5. ASSUME NEW r \in Requests, NEW m \in Presentable,
             new_account_bad_nonce(r, m) \/ new_account_admit(r, m)
      PROVE  PresentedIsSpent' /\ RequestInv'
  <2>1. /\ msg' = [msg EXCEPT ![r] = m] /\ m.flaw \notin EarlyFlaws
        /\ m.nonce \notin fresh
        /\ issued' = issued \ {m.nonce} /\ fresh' = fresh
        /\ stage[r] = "idle"
    BY <1>5 DEF new_account_bad_nonce, new_account_admit, RejectedUnspent, Presentable
  <2>2. /\ \/ stage' = [stage EXCEPT ![r] = "handled"]
           \/ /\ stage' = [stage EXCEPT ![r] = "admitted"]
              /\ result' = result /\ m.nonce \in Nonces
        /\ \A s \in Requests \ {r} : result'[s] = result[s]
    BY <1>5, <1>t DEF new_account_bad_nonce, new_account_admit, Reply, Consumable, TypeOK
  <2> QED
    BY <2>1, <2>2, <1>t DEF PresentedIsSpent, RequestInv, Presented, TypeOK
<1>6. ASSUME NEW r \in Requests,
             new_account_fail(r) \/ new_account_existing(r) \/ new_account_absent(r)
               \/ new_account_create(r)
      PROVE  PresentedIsSpent' /\ RequestInv'
  <2>1. /\ stage[r] = "admitted" /\ UNCHANGED <<issued, fresh, msg>>
        /\ stage' = [stage EXCEPT ![r] = "handled"]
        /\ \A s \in Requests \ {r} : result'[s] = result[s]
    BY <1>6, <1>t DEF new_account_fail, new_account_existing, new_account_absent,
                      new_account_create, Reply, TypeOK
  <2> QED
    BY <2>1, <1>t DEF PresentedIsSpent, RequestInv, Presented, TypeOK
<1>7. ASSUME NEW r \in Requests, attach_replay_nonce(r)
      PROVE  PresentedIsSpent' /\ RequestInv'
  <2>1. /\ UNCHANGED <<msg, result>>
        /\ stage[r] = "handled"
        /\ stage' = [stage EXCEPT ![r] = stage'[r]]
        /\ stage'[r] \in {"answered", "server_error"}
        /\ (\E n \in fresh : issue(n)) \/ issue_fails
    BY <1>7, <1>t DEF attach_replay_nonce, TypeOK
  <2>2. \A s \in Requests : Presented(s)' => Presented(s)
    BY <2>1, <1>t DEF Presented, TypeOK
  <2>3. RequestInv'
    BY <2>1, <1>t DEF RequestInv, TypeOK
  <2> QED
    BY <1>2, <2>1, <2>2, <2>3
<1> QED
  BY <1>1, <1>3, <1>4, <1>5, <1>6, <1>7 DEF Next

\* The nonce part of the inductive invariant.
LEMMA NonceInvariant == Spec => []NonceInv
<1>1. Init => NonceInv
  BY TimeAssumption DEF Init, NonceInv, TypeOK, Results, first_id,
                        PresentedIsSpent, RequestInv, Presented
<1> QED
  BY <1>1, NonceStep, PTL DEF Spec

\* A nonce is good for the first request that presents it, in time, and for
\* no other: the replay protection of the new-account handler.
THEOREM AcmeReplayReadsBadNonce == Spec => ReplayReadsBadNonce
<1> USE DEF vars, nonceVars, accountVars, requestVars
<1>1. ASSUME NonceInv, [Next]_vars, NEW r \in Requests,
             ~Presented(r), Presented(r)',
             \/ msg'[r].nonce \notin issued
             \/ clock > deadline[msg'[r].nonce]
             \/ \E s \in Requests : Presented(s) /\ msg[s].nonce = msg'[r].nonce
      PROVE  result'[r] = "BadNonce"
  <2>t. TypeOK /\ PresentedIsSpent
    BY <1>1 DEF NonceInv
  <2>1. ASSUME NEW q \in Requests, NEW m \in Presentable, new_account_bad_nonce(q, m)
        PROVE  result'[r] = "BadNonce"
    BY <1>1, <2>1, <2>t DEF new_account_bad_nonce, Reply, Presented, TypeOK
  <2>2. ASSUME NEW q \in Requests, NEW m \in Presentable, new_account_admit(q, m)
        PROVE  FALSE
    <3>1. q = r
      BY <1>1, <2>2, <2>t DEF new_account_admit, Presented, TypeOK
    <3>2. msg'[r] = m /\ m.nonce \in issued /\ clock <= deadline[m.nonce]
      BY <2>2, <3>1, <2>t DEF new_account_admit, Consumable, TypeOK
    <3>3. clock \in Nat /\ deadline[m.nonce] \in Nat
      BY <3>2, <2>t DEF TypeOK
    <3> QED
      BY <1>1, <3>2, <3>3, <2>t DEF PresentedIsSpent
  <2>3. ASSUME NEW q \in Requests, NEW m \in Presentable, new_account_reject(q, m)
        PROVE  FALSE
    BY <1>1, <2>3, <2>t DEF new_account_reject, RejectedUnspent, Reply, Presented, TypeOK
  <2>4. ASSUME NEW q \in Requests,
               \/ new_account_fail(q) \/ new_account_existing(q) \/ new_account_absent(q)
               \/ new_account_create(q) \/ attach_replay_nonce(q)
        PROVE  FALSE
    <3>1. msg' = msg /\ stage[q] # "idle"
          /\ \A s \in Requests \ {q} : stage'[s] = stage[s]
      BY <2>4, <2>t DEF new_account_fail, new_account_existing, new_account_absent,
                        new_account_create, attach_replay_nonce, Reply, TypeOK
    <3> QED
      BY <1>1, <3>1 DEF Presented
  <2>5. CASE Tick \/ new_nonce \/ UNCHANGED vars
    BY <1>1, <2>5 DEF Tick, new_nonce, Presented
  <2> QED
    BY <1>1, <2>1, <2>2, <2>3, <2>4, <2>5 DEF Next
<1>2. NonceInv /\ [Next]_vars => [\A r \in Requests : RefusesReplay(r)]_vars
  BY <1>1 DEF RefusesReplay
<1> QED
  BY <1>2, NonceInvariant, PTL DEF Spec, ReplayReadsBadNonce
----------------------------------------------------------------------------
\* The account part of the inductive invariant.
AccountInv == AccountIndexesAgree /\ AnswersMatchStore

\* A step that leaves the account store alone, and results and messages of
\* every request but perhaps an unanswered one.
LEMMA AccountFrame ==
  ASSUME NonceInv, AccountInv, TypeOK', UNCHANGED accountVars,
         NEW r \in Requests,
         result[r] \notin {"Ok", "Created"},
         \A s \in Requests \ {r} :
           result'[s] = result[s] /\ msg'[s] = msg[s] /\ location'[s] = location[s],
         result'[r] \notin {"Ok", "Created"}
  PROVE  AccountInv'
<1>1. \A a \in accounts : a.contact \in Requests \ {r}
  BY DEF AccountInv, AnswersMatchStore, NonceInv, TypeOK, Account
<1>2. AccountIndexesAgree'
  BY DEF AccountInv, AccountIndexesAgree, accountVars
<1>3. AnswersMatchStore'
  BY <1>1 DEF AccountInv, AnswersMatchStore, accountVars
<1> QED
  BY <1>2, <1>3 DEF AccountInv

\* The same for a step that changes no result and no message.
LEMMA AccountStutter ==
  ASSUME AccountInv, UNCHANGED accountVars,
         UNCHANGED <<result, msg, location>>
  PROVE  AccountInv'
BY DEF AccountInv, AccountIndexesAgree, AnswersMatchStore, accountVars

\* Every action keeps the account part of the invariant.
LEMMA AccountStep == NonceInv /\ NonceInv' /\ AccountInv /\ [Next]_vars => AccountInv'
<1> SUFFICES ASSUME NonceInv, NonceInv', AccountInv, [Next]_vars PROVE AccountInv'
  OBVIOUS
<1> USE DEF vars, nonceVars, requestVars
<1>t. TypeOK /\ TypeOK' /\ RequestInv /\ PresentedIsSpent
  BY DEF NonceInv
<1>a. AccountIndexesAgree /\ AnswersMatchStore
  BY DEF AccountInv
<1>1. CASE Tick \/ UNCHANGED vars
  BY <1>1, AccountStutter DEF Tick
<1>2. CASE new_nonce
  BY <1>2, AccountStutter DEF new_nonce
<1>3. ASSUME NEW r \in Requests, attach_replay_nonce(r) PROVE AccountInv'
  BY <1>3, AccountStutter DEF attach_replay_nonce
<1>4. ASSUME NEW r \in Requests, NEW m \in Presentable,
             \/ new_account_reject(r, m) \/ new_account_bad_nonce(r, m)
             \/ new_account_admit(r, m)
      PROVE  AccountInv'
  <2>1. stage[r] = "idle" /\ result[r] = "none"
    BY <1>4, <1>t DEF new_account_reject, new_account_bad_nonce, new_account_admit, RequestInv
  <2>2. UNCHANGED accountVars /\ msg' = [msg EXCEPT ![r] = m]
    BY <1>4 DEF new_account_reject, new_account_bad_nonce, new_account_admit
  <2>3. \A s \in Requests \ {r} : result'[s] = result[s] /\ location'[s] = location[s]
    BY <1>4, <1>t DEF new_account_reject, new_account_bad_nonce, new_account_admit, Reply, TypeOK
  <2>4. result'[r] \notin {"Ok", "Created"}
    BY <1>4, <1>t, <2>1, ProblemType
    DEF new_account_reject, new_account_bad_nonce, new_account_admit, Reply, TypeOK
  <2> QED
    BY <2>1, <2>2, <2>3, <2>4, <1>t, AccountFrame DEF TypeOK
<1>5. ASSUME NEW r \in Requests, new_account_fail(r) \/ new_account_absent(r)
      PROVE  AccountInv'
  <2>1. result[r] = "none" /\ UNCHANGED <<accountVars, msg>>
    BY <1>5, <1>t DEF new_account_fail, new_account_absent, RequestInv
  <2>2. \A s \in Requests \ {r} : result'[s] = result[s] /\ location'[s] = location[s]
    BY <1>5, <1>t DEF new_account_fail, new_account_absent, Reply, TypeOK
  <2>3. result'[r] \notin {"Ok", "Created"}
    BY <1>5, <1>t, ProblemType DEF new_account_fail, new_account_absent, Reply, TypeOK
  <2> QED
    BY <2>1, <2>2, <2>3, <1>t, AccountFrame
<1>6. ASSUME NEW r \in Requests, new_account_existing(r) PROVE AccountInv'
  <2>1. PICK a \in accounts : a.key = msg[r].jwk /\ Reply(r, "Ok", a.id)
    BY <1>6 DEF new_account_existing, find_by_thumbprint
  <2>2. /\ result[r] = "none" /\ UNCHANGED <<accountVars, msg>>
        /\ result'[r] = "Ok" /\ location'[r] = a.id
        /\ msg[r].signed_by = msg[r].jwk
        /\ \A s \in Requests \ {r} : result'[s] = result[s] /\ location'[s] = location[s]
    BY <1>6, <1>t, <2>1
    DEF new_account_existing, Passes, verify_signature, Reply, RequestInv, TypeOK
  <2>3. \A b \in accounts : b.contact \in Requests \ {r}
    BY <2>2, <1>t, <1>a DEF AnswersMatchStore, TypeOK, Account
  <2>4. AnswersMatchStore'
    BY <2>1, <2>2, <2>3, <1>a DEF AnswersMatchStore, accountVars
  <2>5. AccountIndexesAgree'
    BY <2>2, <1>a DEF AccountIndexesAgree, accountVars
  <2> QED
    BY <2>4, <2>5 DEF AccountInv
<1>7. ASSUME NEW r \in Requests, new_account_create(r) PROVE AccountInv'
  <2> DEFINE key == msg[r].jwk
             new == [id |-> next_id, key |-> key, contact |-> r]
             entry == [id |-> next_id, key |-> key]
  <2>1. /\ stage[r] = "admitted" /\ msg[r].signed_by = key
        /\ \A a \in accounts : a.key # key
        /\ UNCHANGED msg
    BY <1>7 DEF new_account_create, Passes, verify_signature, find_by_thumbprint
  <2>2. /\ next_id' = next_id + 1 /\ next_id \in Nat
        /\ accounts' = {a \in accounts : a.key # key} \cup {new}
        /\ id_index' = {i \in id_index : i.id # next_id} \cup {entry}
    BY <1>7, <1>t DEF new_account_create, get_or_create, TypeOK
  <2>3. /\ result[r] = "none" /\ result'[r] = "Created" /\ location'[r] = next_id
        /\ \A s \in Requests \ {r} : result'[s] = result[s] /\ location'[s] = location[s]
    BY <1>7, <1>t DEF new_account_create, Reply, RequestInv, TypeOK
  <2>4. accounts' = accounts \cup {new}
    BY <2>1, <2>2
  <2>5. \A a \in accounts : a.contact \in Requests \ {r} /\ a.id \in Nat /\ a.id < next_id
    BY <2>3, <1>t, <1>a DEF AnswersMatchStore, AccountIndexesAgree, TypeOK, Account
  <2>6. AnswersMatchStore'
    <3>1. ASSUME NEW s \in Requests, result'[s] \in {"Ok", "Created"}
          PROVE  /\ msg'[s].signed_by = msg'[s].jwk
                 /\ \E a \in accounts' : /\ a.key = msg'[s].jwk /\ a.id = location'[s]
                                         /\ result'[s] = "Created" => a.contact = s
      <4>1. CASE s = r
        <5>1. new \in accounts' /\ new.key = msg'[s].jwk /\ new.id = location'[s]
              /\ new.contact = s
          BY <4>1, <2>1, <2>3, <2>4
        <5> QED
          BY <4>1, <5>1, <2>1
      <4>2. CASE s # r
        BY <4>2, <3>1, <2>1, <2>3, <2>4, <1>a DEF AnswersMatchStore
      <4> QED
        BY <4>1, <4>2
    <3>2. ASSUME NEW a \in accounts'
          PROVE  result'[a.contact] = "Created" /\ msg'[a.contact].jwk = a.key
      BY <2>1, <2>3, <2>4, <2>5, <1>a DEF AnswersMatchStore
    <3> QED
      BY <3>1, <3>2 DEF AnswersMatchStore
  <2>7. AccountIndexesAgree'
    <3>1. \A a, b \in accounts' : a.key = b.key \/ a.id = b.id => a = b
      BY <2>1, <2>4, <2>5, <1>a DEF AccountIndexesAgree
    <3>2. \A i \in id_index : i.id # next_id
      BY <2>5, <1>a, <2>2 DEF AccountIndexesAgree
    <3>3. id_index' = {[id |-> a.id, key |-> a.key] : a \in accounts'}
      <4>1. id_index' = id_index \cup {entry} /\ entry = [id |-> new.id, key |-> new.key]
        BY <3>2, <2>2
      <4>2. id_index = {[id |-> a.id, key |-> a.key] : a \in accounts}
        BY <1>a DEF AccountIndexesAgree
      <4> HIDE DEF new, entry
      <4> QED
        BY <4>1, <4>2, <2>4
    <3>4. \A a \in accounts' : a.id < next_id'
      BY <2>2, <2>4, <2>5
    <3> QED
      BY <3>1, <3>3, <3>4 DEF AccountIndexesAgree
  <2> QED
    BY <2>6, <2>7 DEF AccountInv
<1> QED
  BY <1>1, <1>2, <1>3, <1>4, <1>5, <1>6, <1>7 DEF Next

\* The whole inductive invariant.
LEMMA AccountInvariant == Spec => [](NonceInv /\ AccountInv)
<1>1. Init => AccountInv
  BY DEF Init, AccountInv, AccountIndexesAgree, AnswersMatchStore
<1> QED
  BY <1>1, NonceInvariant, AccountStep, PTL DEF Spec

\* The two maps of the account store are inverse to each other.
THEOREM AcmeIndexesAgree == Spec => []AccountIndexesAgree
BY AccountInvariant, PTL DEF AccountInv

\* The account URL of an answer names the account of the key that signed the
\* request for ever, and no account is there that nobody was told of.
THEOREM AcmeLocationNamesSigner == Spec => []LocationNamesSigner
<1>1. NonceInv /\ AccountInv => LocationNamesSigner
  <2> SUFFICES ASSUME NonceInv, AccountInv PROVE LocationNamesSigner
    OBVIOUS
  <2>1. /\ TypeOK /\ AnswersMatchStore
        /\ \A a, b \in accounts : a.key = b.key \/ a.id = b.id => a = b
        /\ id_index = {[id |-> a.id, key |-> a.key] : a \in accounts}
    BY DEF NonceInv, AccountInv, AccountIndexesAgree
  <2>2. ASSUME NEW a \in accounts PROVE find_by_id(a.id) = {a}
    <3>1. ASSUME NEW b, b \in find_by_id(a.id) PROVE b = a
      <4>1. PICK i \in id_index : i.id = a.id /\ b \in find_by_thumbprint(i.key)
        BY <3>1 DEF find_by_id
      <4>2. PICK c \in accounts : i = [id |-> c.id, key |-> c.key]
        BY <4>1, <2>1
      <4>3. c = a /\ b \in accounts /\ b.key = c.key
        BY <4>1, <4>2, <2>1 DEF find_by_thumbprint
      <4> QED
        BY <4>3, <2>1
    <3>2. a \in find_by_id(a.id)
      <4>1. PICK i \in id_index : i = [id |-> a.id, key |-> a.key]
        BY <2>1
      <4>2. i.id = a.id /\ a \in find_by_thumbprint(i.key)
        BY <4>1 DEF find_by_thumbprint
      <4> QED
        BY <4>2 DEF find_by_id
    <3> QED
      BY <3>1, <3>2
  <2>3. ASSUME NEW r \in Requests, result[r] \in {"Ok", "Created"}
        PROVE  \E a \in accounts : find_by_id(location[r]) = {a} /\ a.key = msg[r].signed_by
    BY <2>1, <2>2, <2>3 DEF AnswersMatchStore
  <2>4. ASSUME NEW a \in accounts
        PROVE  \E r \in Requests :
                 result[r] = "Created" /\ location[r] = a.id /\ msg[r].signed_by = a.key
    <3>1. /\ a.contact \in Requests /\ result[a.contact] = "Created"
          /\ msg[a.contact].jwk = a.key
      BY <2>1 DEF AnswersMatchStore, TypeOK, Account
    <3>2. PICK b \in accounts : b.key = msg[a.contact].jwk /\ b.id = location[a.contact]
      BY <2>1, <3>1 DEF AnswersMatchStore
    <3>3. b = a /\ msg[a.contact].signed_by = a.key
      BY <2>1, <3>1, <3>2 DEF AnswersMatchStore
    <3> QED
      BY <3>1, <3>2, <3>3
  <2> QED
    BY <2>3, <2>4 DEF LocationNamesSigner
<1> QED
  BY <1>1, AccountInvariant, PTL

\* One key is told one account, and once that it was created.
THEOREM AcmeRegistrationIdempotent == Spec => []RegistrationIdempotent
<1>1. NonceInv /\ AccountInv => RegistrationIdempotent
  <2> SUFFICES ASSUME NonceInv, AccountInv PROVE RegistrationIdempotent
    OBVIOUS
  <2>1. TypeOK /\ AnswersMatchStore /\ \A a, b \in accounts : a.key = b.key => a = b
    BY DEF NonceInv, AccountInv, AccountIndexesAgree
  <2>2. ASSUME NEW r \in Requests, NEW s \in Requests,
               result[r] \in {"Ok", "Created"}, result[s] \in {"Ok", "Created"},
               msg[r].jwk = msg[s].jwk
        PROVE  /\ location[r] = location[s]
               /\ result[r] = "Created" /\ result[s] = "Created" => r = s
    BY <2>1, <2>2 DEF AnswersMatchStore
  <2>3. ASSUME NEW r \in Requests, result[r] = "Ok"
        PROVE  \E s \in Requests : result[s] = "Created" /\ msg[s].jwk = msg[r].jwk
    <3>1. PICK a \in accounts : a.key = msg[r].jwk
      BY <2>1, <2>3 DEF AnswersMatchStore
    <3>2. a.contact \in Requests /\ result[a.contact] = "Created" /\ msg[a.contact].jwk = a.key
      BY <2>1 DEF AnswersMatchStore, TypeOK, Account
    <3> QED
      BY <3>1, <3>2
  <2> QED
    BY <2>2, <2>3 DEF RegistrationIdempotent
<1> QED
  BY <1>1, AccountInvariant, PTL
----------------------------------------------------------------------------
\* Expired nonces never outlive the next issue: the bound on the memory of
\* the nonce store.
THEOREM AcmeOutstandingNoncesAreLive == Spec => []OutstandingNoncesAreLive
<1> USE DEF vars, nonceVars, accountVars, requestVars
<1>1. Init => OutstandingNoncesAreLive
  BY DEF Init, OutstandingNoncesAreLive
<1>2. TypeOK /\ OutstandingNoncesAreLive /\ [Next]_vars => OutstandingNoncesAreLive'
  <2> SUFFICES ASSUME TypeOK, OutstandingNoncesAreLive, [Next]_vars
               PROVE  OutstandingNoncesAreLive'
    OBVIOUS
  <2>1. ASSUME NEW n \in fresh, issue(n) PROVE OutstandingNoncesAreLive'
    <3>1. clock \in Nat /\ clock <= clock + TTL /\ n \in Nonces
      BY TimeAssumption DEF TypeOK
    <3>2. \A k \in issued' : clock <= deadline'[k]
      BY <2>1, <3>1 DEF issue, Unexpired, TypeOK
    <3> QED
      BY <2>1, <3>2 DEF issue, OutstandingNoncesAreLive
  <2>2. ASSUME issue_fails PROVE OutstandingNoncesAreLive'
    BY <2>2 DEF issue_fails, Unexpired, OutstandingNoncesAreLive
  <2>3. ASSUME issued' \subseteq issued, UNCHANGED <<deadline, last_prune>>
        PROVE  OutstandingNoncesAreLive'
    BY <2>3 DEF OutstandingNoncesAreLive
  <2>4. ASSUME NEW r \in Requests, NEW m \in Presentable,
               \/ new_account_reject(r, m) \/ new_account_bad_nonce(r, m)
               \/ new_account_admit(r, m)
        PROVE  OutstandingNoncesAreLive'
    BY <2>3, <2>4 DEF new_account_reject, new_account_bad_nonce, new_account_admit
  <2>5. ASSUME NEW r \in Requests,
               \/ new_account_fail(r) \/ new_account_existing(r) \/ new_account_absent(r)
               \/ new_account_create(r)
        PROVE  OutstandingNoncesAreLive'
    BY <2>3, <2>5 DEF new_account_fail, new_account_existing, new_account_absent,
                      new_account_create
  <2>6. CASE new_nonce \/ \E r \in Requests : attach_replay_nonce(r)
    BY <2>1, <2>2, <2>6 DEF new_nonce, attach_replay_nonce
  <2>7. CASE Tick \/ UNCHANGED vars
    BY <2>3, <2>7 DEF Tick
  <2> QED
    BY <2>4, <2>5, <2>6, <2>7 DEF Next
<1> QED
  BY <1>1, <1>2, AcmeTypeCorrect, PTL DEF Spec
============================================================================
