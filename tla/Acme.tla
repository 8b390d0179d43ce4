------------------------------- MODULE Acme -------------------------------
(***************************************************************************)
(* The ACME front end (crates/acme-core): anti-replay nonces, accounts and *)
(* the new-account handler.  Requests run on several threads; the nonce    *)
(* store and the account store have a mutex each, taken one after the      *)
(* other and never together, so a request is three steps: new_account up   *)
(* to consume_nonce, the rest of new_account, and the middleware that      *)
(* stamps a nonce on the response.                                         *)
(*                                                                         *)
(* `flaw' names the first check of the handler that fails, "none" if none  *)
(* does; the signature is not one of them, it verifies under the key that  *)
(* made it and no other.  A replayed or duplicated request is the same     *)
(* message handled as another request.  The 128 random bits of a nonce are *)
(* a value never drawn before.                                             *)
(***************************************************************************)
EXTENDS Integers, FiniteSets

CONSTANTS Requests,   \* handler invocations; bound on how many there are
          Keys,       \* account keys; a key and its thumbprint are the same
          Nonces,     \* bound: the nonces the random generator draws
          Forged,     \* a nonce value the server never issues
          Flaws,      \* the defects that requests have
          TTL,        \* ttl_millis
          MaxTime     \* bound on the clock

EarlyFlaws == {"content_type", "envelope", "alg", "no_nonce"}

LateFlaws == {"no_url", "url", "binding", "kid", "jwk", "payload"}

ASSUME ForgedAssumption == Forged \notin Nonces
ASSUME FlawsAssumption == Flaws \subseteq EarlyFlaws \cup LateFlaws
ASSUME TimeAssumption == TTL \in Nat /\ MaxTime \in Nat
ASSUME SomeAssumption == Requests # {} /\ Keys # {}

VARIABLES clock,        \* the reading of the injected Clock
          fresh,        \* nonces not drawn yet
          issued,       \* keys of NonceStore::issued
          deadline,     \* its values; kept as history once a nonce is gone
          last_prune,   \* history: the reading of the last issue
          accounts,     \* AccountStore::by_thumbprint
          id_index,     \* AccountStore::id_index
          next_id,      \* AccountStore::next_id
          stage,        \* how far each request is
          msg,          \* the message it carries
          result,       \* the handler's result
          location      \* id in the Location header, 0 for none

nonceVars == <<fresh, issued, deadline, last_prune>>
accountVars == <<accounts, id_index, next_id>>
requestVars == <<stage, msg, result, location>>
vars == <<clock, nonceVars, accountVars, requestVars>>

\* A message that fails before its nonce is read carries nothing else, and
\* the signature and onlyReturnExisting are told apart in messages without a
\* flaw only: a bad payload and a bad signature are answered alike.
Rejected == [flaw : Flaws \cap EarlyFlaws]

Failing == [flaw : Flaws \cap LateFlaws, nonce : Nonces \cup {Forged}]

\* `jwk' is the key in the protected header, `signed_by' the one that signed.
WellFormed == [flaw : {"none"}, nonce : Nonces \cup {Forged}, jwk : Keys, signed_by : Keys,
               only_return_existing : BOOLEAN]

Message == Rejected \cup Failing \cup WellFormed

\* What an idle request carries.
NoMessage == [flaw |-> "none"]

\* The contact of an account is the request it came with.
Account == [id : Nat, key : Keys, contact : Requests]

Results == {"none", "Malformed", "BadSignatureAlgorithm", "BadNonce", "UrlMismatch",
            "BadPublicKey", "AccountDoesNotExist", "Ok", "Created"}
----------------------------------------------------------------------------
first_id == 1

Init ==
  /\ clock = 0
  /\ fresh = Nonces /\ issued = {} /\ deadline = [n \in Nonces |-> 0] /\ last_prune = 0
  /\ accounts = {} /\ id_index = {} /\ next_id = first_id
  /\ stage = [r \in Requests |-> "idle"]
  /\ msg = [r \in Requests |-> NoMessage]
  /\ result = [r \in Requests |-> "none"]
  /\ location = [r \in Requests |-> 0]

\* SystemTime is not monotonic: any reading may follow any other.
Tick ==
  /\ clock' \in 0..MaxTime
  /\ UNCHANGED <<nonceVars, accountVars, requestVars>>

Unexpired == {n \in issued : clock <= deadline[n]}

issue(n) ==
  /\ fresh' = fresh \ {n}
  /\ issued' = Unexpired \cup {n}
  /\ deadline' = [deadline EXCEPT ![n] = clock + TTL]
  /\ last_prune' = clock

\* The random generator fails after the pruning.
issue_fails ==
  /\ issued' = Unexpired
  /\ last_prune' = clock
  /\ UNCHANGED <<fresh, deadline>>

\* GET directory, HEAD or GET new-nonce: only the middleware has an effect.
new_nonce ==
  /\ (\E n \in fresh : issue(n)) \/ issue_fails
  /\ UNCHANGED <<clock, accountVars, requestVars>>

\* The error of a failed check; Malformed for a bad signature too.
Problem(flaw) ==
  CASE flaw = "alg" -> "BadSignatureAlgorithm"
    [] flaw = "no_nonce" -> "BadNonce"
    [] flaw = "url" -> "UrlMismatch"
    [] flaw = "jwk" -> "BadPublicKey"
    [] OTHER -> "Malformed"

\* The url is checked before the nonce is consumed.
RejectedUnspent_url_first(m) == m.flaw \in EarlyFlaws \cup {"no_url", "url"}

\* The checks before consume_nonce.
RejectedUnspent(m) == m.flaw \in EarlyFlaws

\* NonceStore::consume returns Ok; it removes the nonce in any case.
Consumable(nonce) == nonce \in issued /\ clock <= deadline[nonce]

Reply(r, outcome, id) ==
  /\ stage' = [stage EXCEPT ![r] = "handled"]
  /\ result' = [result EXCEPT ![r] = outcome]
  /\ location' = [location EXCEPT ![r] = id]

new_account_reject(r, m) ==
  /\ stage[r] = "idle"
  /\ RejectedUnspent(m)
  /\ msg' = [msg EXCEPT ![r] = m]
  /\ Reply(r, Problem(m.flaw), 0)
  /\ UNCHANGED <<clock, nonceVars, accountVars>>

new_account_bad_nonce(r, m) ==
  /\ stage[r] = "idle"
  /\ ~RejectedUnspent(m)
  /\ ~Consumable(m.nonce)
  /\ issued' = issued \ {m.nonce}
  /\ msg' = [msg EXCEPT ![r] = m]
  /\ Reply(r, "BadNonce", 0)
  /\ UNCHANGED <<clock, fresh, deadline, last_prune, accountVars>>

new_account_admit(r, m) ==
  /\ stage[r] = "idle"
  /\ ~RejectedUnspent(m)
  /\ Consumable(m.nonce)
  /\ issued' = issued \ {m.nonce}
  /\ msg' = [msg EXCEPT ![r] = m]
  /\ stage' = [stage EXCEPT ![r] = "admitted"]
  /\ UNCHANGED <<clock, fresh, deadline, last_prune, accountVars, result, location>>
----------------------------------------------------------------------------
\* The signature is not verified.
verify_signature_skipped(m) == TRUE

verify_signature(m) == m.signed_by = m.jwk

\* The checks after consume_nonce: url, key source, key, signature, payload.
Passes(m) == m.flaw = "none" /\ verify_signature(m)

new_account_fail(r) ==
  /\ stage[r] = "admitted"
  /\ ~Passes(msg[r])
  /\ Reply(r, Problem(msg[r].flaw), 0)
  /\ UNCHANGED <<clock, nonceVars, accountVars, msg>>

\* The account of the key is never found.
find_by_thumbprint_misses(key) == {}

find_by_thumbprint(key) == {a \in accounts : a.key = key}

find_by_id(id) == UNION {find_by_thumbprint(i.key) : i \in {j \in id_index : j.id = id}}

\* The id is used again for the next account.
get_or_create_same_id(r, key) ==
  LET account == [id |-> next_id, key |-> key, contact |-> r]
  IN  /\ next_id' = next_id
      /\ accounts' = {a \in accounts : a.key # key} \cup {account}
      /\ id_index' = {i \in id_index : i.id # next_id} \cup {[id |-> next_id, key |-> key]}

\* Its own lookup repeats the miss of find_by_thumbprint under the same
\* lock.  HashMap::insert replaces the entry of an equal key.
get_or_create(r, key) ==
  LET account == [id |-> next_id, key |-> key, contact |-> r]
  IN  /\ next_id' = next_id + 1
      /\ accounts' = {a \in accounts : a.key # key} \cup {account}
      /\ id_index' = {i \in id_index : i.id # next_id} \cup {[id |-> next_id, key |-> key]}

\* The three outcomes of the closure run under the accounts mutex.
new_account_existing(r) ==
  /\ stage[r] = "admitted"
  /\ Passes(msg[r])
  /\ \E a \in find_by_thumbprint(msg[r].jwk) : Reply(r, "Ok", a.id)
  /\ UNCHANGED <<clock, nonceVars, accountVars, msg>>

new_account_absent(r) ==
  /\ stage[r] = "admitted"
  /\ Passes(msg[r])
  /\ find_by_thumbprint(msg[r].jwk) = {}
  /\ msg[r].only_return_existing
  /\ Reply(r, "AccountDoesNotExist", 0)
  /\ UNCHANGED <<clock, nonceVars, accountVars, msg>>

new_account_create(r) ==
  /\ stage[r] = "admitted"
  /\ Passes(msg[r])
  /\ find_by_thumbprint(msg[r].jwk) = {}
  /\ ~msg[r].only_return_existing
  /\ get_or_create(r, msg[r].jwk)
  /\ Reply(r, "Created", next_id)
  /\ UNCHANGED <<clock, nonceVars, msg>>

\* The middleware after the handler.  When the generator fails the client
\* sees a server error whatever the handler did.
attach_replay_nonce(r) ==
  /\ stage[r] = "handled"
  /\ \/ \E n \in fresh : issue(n) /\ stage' = [stage EXCEPT ![r] = "answered"]
     \/ issue_fails /\ stage' = [stage EXCEPT ![r] = "server_error"]
  /\ UNCHANGED <<clock, accountVars, msg, result, location>>
----------------------------------------------------------------------------
\* A client only has nonces it was given, or invents one.
Presentable == {m \in Message : m.flaw \notin EarlyFlaws => m.nonce \notin fresh}

Next ==
  \/ Tick
  \/ new_nonce
  \/ \E r \in Requests :
       \/ \E m \in Presentable :
            new_account_reject(r, m) \/ new_account_bad_nonce(r, m) \/ new_account_admit(r, m)
       \/ new_account_fail(r)
       \/ new_account_existing(r)
       \/ new_account_absent(r)
       \/ new_account_create(r)
       \/ attach_replay_nonce(r)

Spec == Init /\ [][Next]_vars
----------------------------------------------------------------------------
\* The types of the two stores and of the requests; ids start at 1.
TypeOK ==
  /\ clock \in Nat /\ last_prune \in Nat
  /\ fresh \subseteq Nonces /\ issued \subseteq Nonces
  /\ deadline \in [Nonces -> Nat]
  /\ accounts \subseteq Account
  /\ id_index \subseteq [id : Nat, key : Keys]
  /\ next_id \in Nat \ {0}
  /\ stage \in [Requests -> {"idle", "admitted", "handled", "answered", "server_error"}]
  /\ msg \in [Requests -> Message \cup {NoMessage}]
  /\ \A r \in Requests : stage[r] # "idle" => msg[r] \in Message
  /\ result \in [Requests -> Results]
  /\ location \in [Requests -> Nat]

\* The request got as far as consume_nonce.
Presented(r) == stage[r] # "idle" /\ msg[r].flaw \notin EarlyFlaws

\* A step in which r presents a nonce that is unknown, expired or was
\* presented before answers badNonce.
RefusesReplay(r) ==
  /\ ~Presented(r) /\ Presented(r)'
  /\ \/ msg'[r].nonce \notin issued
     \/ clock > deadline[msg'[r].nonce]
     \/ \E s \in Requests : Presented(s) /\ msg[s].nonce = msg'[r].nonce
  => result'[r] = "BadNonce"

\* "Consume the nonce before any other semantic check so a replayed request
\* always reads as badNonce": a request whose nonce was presented before, on
\* whatever thread and whatever became of it, or whose nonce is unknown or
\* expired, is answered badNonce, with whatever defect the checks after the
\* nonce would find.  A nonce that was refused as expired stays refused when
\* the clock is set back.
ReplayReadsBadNonce == [][\A r \in Requests : RefusesReplay(r)]_vars

\* "An ACME account is its key": requests for one key, concurrent or
\* repeated after a lost response, are told one and the same account, and
\* exactly one of them that it was created.
RegistrationIdempotent ==
  /\ \A r, s \in Requests :
       /\ result[r] \in {"Ok", "Created"} /\ result[s] \in {"Ok", "Created"}
       /\ msg[r].jwk = msg[s].jwk
       => /\ location[r] = location[s]
          /\ result[r] = "Created" /\ result[s] = "Created" => r = s
  /\ \A r \in Requests : result[r] = "Ok" =>
       \E s \in Requests : result[s] = "Created" /\ msg[s].jwk = msg[r].jwk

\* find_by_id and find_by_thumbprint agree: the two maps of the account
\* store are inverse to each other, so an account URL names one key for ever.
AccountIndexesAgree ==
  /\ \A a, b \in accounts : a.key = b.key \/ a.id = b.id => a = b
  /\ id_index = {[id |-> a.id, key |-> a.key] : a \in accounts}
  /\ \A a \in accounts : a.id < next_id

\* The account URL in an answer goes on naming the account of the key that
\* signed the request, through both maps of the store and whatever accounts
\* are created later, and every account is one that its key holder was told
\* of: a request that fails after its nonce leaves none behind.
LocationNamesSigner ==
  /\ \A r \in Requests : result[r] \in {"Ok", "Created"} =>
       \E a \in accounts : find_by_id(location[r]) = {a} /\ a.key = msg[r].signed_by
  /\ \A a \in accounts : \E r \in Requests :
       result[r] = "Created" /\ location[r] = a.id /\ msg[r].signed_by = a.key

\* "Memory is bounded by issue-rate x TTL: expired entries are pruned on
\* every issue": no outstanding nonce had expired when the last one was
\* issued, also when the clock was set back in between.
OutstandingNoncesAreLive == \A n \in issued : last_prune <= deadline[n]
============================================================================
