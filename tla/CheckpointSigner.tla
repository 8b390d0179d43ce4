-------------------------- MODULE CheckpointSigner --------------------------
(***************************************************************************)
(* Signing a checkpoint (crates/checkpoint-signer): build its signature    *)
(* input, have the HSM sign it, retry transient failures with a backoff on *)
(* the injected clock (FakeClock), and frame the object to publish.        *)
(*                                                                         *)
(* The HSM is the in-memory one (crates/cloud-memory), a PKCS#11 token     *)
(* (crates/cloud-softhsm) whose operations are steps of a session each, or *)
(* any other implementation of the trait, which may answer anything.  The  *)
(* token is external: a user logged in stays logged in for all sessions of *)
(* the process until the last one closes, and a private key is only found  *)
(* while logged in.                                                        *)
(***************************************************************************)
EXTENDS FakeClock, AwsErrors, FiniteSets

CONSTANTS Signers,       \* callers, each of one sign_checkpoint
          Casts,         \* who takes part: [hsm, actors, max_retries], hsm being the
                         \* implementation in use, of {"memory", "softhsm", "other"}
          Requests,      \* what to sign: [log_id_len, tree_size]
          base_backoff, max_backoff   \* RetryPolicy, with max_retries

ASSUME SignerAssumption ==
  /\ Signers \subseteq Sleepers /\ Ticker \notin Signers
  /\ \A c \in Casts : c.max_retries \in Nat
  /\ base_backoff \in Nat /\ max_backoff \in Nat

VARIABLES cast,          \* the HSM and the processes of this behaviour
          keys,          \* handles of the keys the HSM holds
          next_id,       \* MemoryHsm: the next handle
          session,       \* [Signers -> the step of its PKCS#11 session, or "none"]
          loggedIn,      \* the token's login state
          signer         \* [Signers -> the call under way]

hsmVars == <<cast, keys, next_id, session, loggedIn>>
vars == <<clockVars, hsmVars, signer>>

NoKey == 0
P1363_SIGNATURE_LEN == 64
Signature(len) == [type |-> "Ok", len |-> len]

NoError == [type |-> "None"]

\* calls: how often hsm.sign was called; failed, error: when it last failed, and
\* how, while its backoff is under way.
NewSigner ==
  [pc |-> "new", handle |-> NoKey, req |-> [log_id_len |-> 0, tree_size |-> 0],
   retries |-> 0, calls |-> 0, failed |-> 0, error |-> NoError, result |-> [type |-> "None"]]

Init ==
  /\ ClockInit
  /\ cast \in Casts /\ keys = {} /\ next_id = 1
  /\ session = [s \in Signers |-> "none"] /\ loggedIn = FALSE
  /\ signer = [s \in Signers |-> NewSigner]

-----------------------------------------------------------------------------
(* The schedule of retries.                                                *)

\* backoff_for: base_backoff * 2^retry_index, capped.
backoff_for(retry_index) ==
  LET scaled == base_backoff * 2^(IF retry_index < 63 THEN retry_index ELSE 63)
  IN  IF scaled < max_backoff THEN scaled ELSE max_backoff

\* trust_anchor_id_len_byte: the log's id fits its length byte.
InputAssembles(req) == req.log_id_len \in 1..255

\* checkpoint_object_key depends on the tree size, never on the signature.
Framed(req, len) == [type |-> "Ok", key |-> req.tree_size, len |-> len]

Finish(s, result) == [signer[s] EXCEPT !.pc = "done", !.result = result]

\* Every failure is retried.
Retries_any(s, error) == signer[s].retries < cast.max_retries

\* Only transient failures are retried, and not for ever.
Retries(s, error) == is_retryable(error) /\ signer[s].retries < cast.max_retries

\* The count of the retries that were made.
Attempts_retries(s) == signer[s].retries

\* The first attempt and the retries.
Attempts(s) == signer[s].retries + 1

\* What sign_with_retry and sign_checkpoint do with the HSM's answer.
Returned(s, result) ==
  \/ /\ result.type = "Ok"
     /\ signer' = [signer EXCEPT ![s] = Finish(s,
          IF result.len = P1363_SIGNATURE_LEN THEN Framed(signer[s].req, result.len)
          ELSE [type |-> "MalformedSignature", actual |-> result.len])]
     /\ UNCHANGED clockVars
  \/ /\ result.type # "Ok" /\ Retries(s, result)
     /\ signer' = [signer EXCEPT ![s].pc = "backoff", ![s].retries = @ + 1,
                                 ![s].failed = nanos, ![s].error = result]
     /\ sleep' = [sleep EXCEPT ![s] = FallAsleep(nanos + backoff_for(signer[s].retries))]
     /\ UNCHANGED <<nanos, thread, applied, ticks, next, ticking>>
  \/ /\ result.type # "Ok" /\ ~Retries(s, result)
     /\ signer' = [signer EXCEPT ![s] = Finish(s,
          [type |-> "HsmSigningFailed", attempts |-> Attempts(s), source |-> result])]
     /\ UNCHANGED clockVars

\* A key to sign with, or an error and none.
Generated(s, handle) ==
  /\ signer' = [signer EXCEPT ![s].pc = IF handle = NoKey THEN "done" ELSE "ready",
                              ![s].handle = handle]
  /\ UNCHANGED clockVars

-----------------------------------------------------------------------------
(* The caller.                                                             *)

GenerateKey(s) ==
  /\ signer[s].pc = "new"
  /\ signer' = [signer EXCEPT ![s].pc = "generate"]
  /\ UNCHANGED <<clockVars, hsmVars>>

\* A caller configured with the handle of a key that does not exist.
UseUnknownKey(s) ==
  /\ signer[s].pc = "new"
  /\ signer' = [signer EXCEPT ![s].pc = "ready"]
  /\ UNCHANGED <<clockVars, hsmVars>>

sign_checkpoint(s, req) ==
  /\ signer[s].pc = "ready"
  /\ signer' = [signer EXCEPT ![s] =
       IF InputAssembles(req) THEN [@ EXCEPT !.pc = "sign", !.req = req, !.calls = 1]
       ELSE Finish(s, [type |-> "Input"])]
  /\ UNCHANGED <<clockVars, hsmVars>>

\* The caller asks for the public key before it signs.
GetPublicKey(s) ==
  /\ signer[s].pc = "ready"
  /\ signer' = [signer EXCEPT ![s].pc = "lookup"]
  /\ UNCHANGED <<clockVars, hsmVars>>

\* The public key, or an error and the end.
Exported(s, result) ==
  /\ signer' = [signer EXCEPT ![s] = IF result.type = "Ok" THEN [@ EXCEPT !.pc = "ready"]
                                     ELSE Finish(s, [type |-> "NoPublicKey", source |-> result])]
  /\ UNCHANGED clockVars

\* The backoff is over: the HSM is asked again.
Retry(s) ==
  /\ signer[s].pc = "backoff" /\ sleep[s].pc = "awake"
  /\ signer' = [signer EXCEPT ![s].pc = "sign", ![s].calls = @ + 1,
                              ![s].failed = 0, ![s].error = NoError]
  /\ UNCHANGED <<clockVars, hsmVars>>

-----------------------------------------------------------------------------
(* MemoryHsm.                                                              *)

\* generate_key: next_id.fetch_add, then the insertion under the lock.
MemoryDrawId(s) ==
  /\ cast.hsm = "memory" /\ signer[s].pc = "generate"
  /\ next_id' = next_id + 1
  /\ signer' = [signer EXCEPT ![s].pc = "insert", ![s].handle = next_id]
  /\ UNCHANGED <<clockVars, cast, keys, session, loggedIn>>

MemoryInsert(s) ==
  /\ signer[s].pc = "insert"
  /\ keys' = keys \cup {signer[s].handle}
  /\ Generated(s, signer[s].handle)
  /\ UNCHANGED <<cast, next_id, session, loggedIn>>

MemorySign(s) ==
  /\ cast.hsm = "memory" /\ signer[s].pc = "sign"
  /\ Returned(s, IF signer[s].handle \in keys THEN Signature(64) ELSE NotFound)
  /\ UNCHANGED hsmVars

MemoryGetPublicKey(s) ==
  /\ cast.hsm = "memory" /\ signer[s].pc = "lookup"
  /\ Exported(s, IF signer[s].handle \in keys THEN [type |-> "Ok"] ELSE NotFound)
  /\ UNCHANGED hsmVars

\* Any other implementation of Hsm.
OtherGenerates(s) ==
  /\ cast.hsm = "other" /\ signer[s].pc = "generate"
  /\ Generated(s, 1)
  /\ UNCHANGED hsmVars

OtherExports(s, result) ==
  /\ cast.hsm = "other" /\ signer[s].pc = "lookup"
  /\ Exported(s, result)
  /\ UNCHANGED hsmVars

OtherSigns(s, result) ==
  /\ cast.hsm = "other" /\ signer[s].pc = "sign"
  /\ Returned(s, result)
  /\ UNCHANGED hsmVars

-----------------------------------------------------------------------------
(* SoftHsm: one session per operation.                                     *)

Token(s, step) ==
  cast.hsm = "softhsm" /\ signer[s].pc \in {"generate", "lookup", "sign"} /\ session[s] = step

\* map_pkcs11: a fault of the device may go away.
map_pkcs11(rv) ==
  Transport(rv \in {"DeviceError", "DeviceMemory", "DeviceRemoved", "FunctionFailed",
                    "GeneralError", "HostMemory"})

\* The operation is over and its session is dropped.  C_Logout is called.
CloseSession_logging_out(s) ==
  /\ session' = [session EXCEPT ![s] = "none"]
  /\ loggedIn' = FALSE

\* The operation is over and its session is dropped; the login ends with the
\* last session.
CloseSession(s) ==
  /\ session' = [session EXCEPT ![s] = "none"]
  /\ loggedIn' = (loggedIn /\ \E r \in Signers : r # s /\ session[r] # "none")

Outcome(s, result) ==
  /\ CloseSession(s)
  /\ CASE signer[s].pc = "sign" -> Returned(s, result)
       [] signer[s].pc = "lookup" -> Exported(s, result)
       [] signer[s].pc = "generate" -> Generated(s, NoKey)

OpenSession(s) ==
  /\ Token(s, "none")
  /\ session' = [session EXCEPT ![s] = "opened"]
  /\ UNCHANGED <<clockVars, cast, keys, next_id, loggedIn, signer>>

\* UserAlreadyLoggedIn counts as success.
Login(s) ==
  /\ Token(s, "opened")
  /\ session' = [session EXCEPT ![s] = "ready"]
  /\ loggedIn' = TRUE
  /\ UNCHANGED <<clockVars, cast, keys, next_id, signer>>

GenerateKeyPair(s) ==
  /\ Token(s, "ready") /\ signer[s].pc = "generate"
  /\ keys' = keys \cup {next_id} /\ next_id' = next_id + 1
  /\ Generated(s, next_id)
  /\ CloseSession(s)
  /\ UNCHANGED cast

\* find_key: private objects are not found unless logged in.
FindKey(s) ==
  /\ Token(s, "ready") /\ signer[s].pc = "sign"
  /\ \/ /\ signer[s].handle \in keys /\ loggedIn
        /\ session' = [session EXCEPT ![s] = "found"]
        /\ UNCHANGED <<clockVars, loggedIn, signer>>
     \/ /\ ~(signer[s].handle \in keys /\ loggedIn)
        /\ Outcome(s, NotFound)
  /\ UNCHANGED <<cast, keys, next_id>>

\* Public objects are found in any session.
FindPublicKey(s) ==
  /\ Token(s, "ready") /\ signer[s].pc = "lookup"
  /\ Outcome(s, IF signer[s].handle \in keys THEN [type |-> "Ok"] ELSE NotFound)
  /\ UNCHANGED <<cast, keys, next_id>>

\* The mechanism signs the digest; a signature of another length is terminal.
SignDigest(s, len) ==
  /\ Token(s, "found")
  /\ Outcome(s, IF len = P1363_SIGNATURE_LEN THEN Signature(len) ELSE Transport(FALSE))
  /\ UNCHANGED <<cast, keys, next_id>>

\* The token fails at any step, or the blocking task does not join.
TokenFails(s, rv) ==
  /\ \E step \in {"none", "opened", "ready", "found"} : Token(s, step)
  /\ Outcome(s, map_pkcs11(rv))
  /\ UNCHANGED <<cast, keys, next_id>>

-----------------------------------------------------------------------------
Lengths == {P1363_SIGNATURE_LEN, 72}
Faults == {"DeviceError", "PinIncorrect"}
Answers == {Signature(len) : len \in Lengths} \cup {Transport(TRUE), Transport(FALSE)}

HsmStep(s) ==
  \/ MemoryDrawId(s) \/ MemoryInsert(s) \/ MemorySign(s) \/ MemoryGetPublicKey(s)
  \/ OtherGenerates(s) \/ (\E result \in Answers : OtherExports(s, result))
  \/ (\E result \in Answers : OtherSigns(s, result))
  \/ OpenSession(s) \/ Login(s) \/ GenerateKeyPair(s) \/ FindKey(s) \/ FindPublicKey(s)
  \/ (\E len \in Lengths : SignDigest(s, len))
  \/ (\E rv \in Faults : TokenFails(s, rv))

SignerStep(s) ==
  \/ HsmStep(s) \/ Retry(s)
  \/ Sleeping(s) /\ UNCHANGED <<hsmVars, signer>>

MoveClock(t) ==
  /\ \/ \E delta \in Deltas : Advance(t, delta)
     \/ \E to \in Times : Set(t, to)
     \/ Swap(t) \/ Reject(t) \/ Notify(t)
  /\ UNCHANGED <<hsmVars, signer>>

TickerStep == Ticker \in cast.actors /\ (AwaitTick \/ Tick \/ Sleeping(Ticker)) /\ UNCHANGED <<hsmVars, signer>>

Next ==
  \/ TickerStep
  \/ \E t \in Threads \cap cast.actors : MoveClock(t)
  \/ \E s \in Signers \cap cast.actors :
       \/ GenerateKey(s) \/ UseUnknownKey(s) \/ GetPublicKey(s)
       \/ \E req \in Requests : sign_checkpoint(s, req)
       \/ SignerStep(s)

\* A call of the HSM returns, a task that can run does, and a call that moves
\* the clock ends; nobody need start to sign or to move the clock.
Fairness ==
  /\ \A s \in Signers : WF_vars(SignerStep(s))
  /\ \A t \in Threads :
       WF_vars((Swap(t) \/ Reject(t) \/ Notify(t)) /\ UNCHANGED <<hsmVars, signer>>)
  /\ WF_vars(TickerStep)

Spec == Init /\ [][Next]_vars /\ Fairness

-----------------------------------------------------------------------------
\* The variables have their types; a signer is in one session at a time, and
\* only while the token works for it.
TypeOK ==
  /\ nanos \in 0..MaxNanos /\ applied \in 0..MaxNanos /\ Len(ticks) <= MaxTicks
  /\ \A s \in Signers :
       /\ signer[s].retries \in 0..cast.max_retries
       /\ session[s] # "none" => cast.hsm = "softhsm" /\ signer[s].pc \in {"generate", "lookup", "sign"}
  /\ loggedIn => \E s \in Signers : session[s] # "none"

\* The number of attempts that is reported is the number of calls of the HSM,
\* one more than the retries and never past the budget, and the budget is used
\* up before a transient failure is reported.
AttemptsAccountedFor ==
  \A s \in Signers :
    /\ signer[s].calls <= cast.max_retries + 1
    /\ signer[s].result.type = "HsmSigningFailed" =>
         /\ signer[s].result.attempts = signer[s].calls
         /\ is_retryable(signer[s].result.source) => signer[s].calls = cast.max_retries + 1

\* A key that generate_key returned is found again, whatever other sessions of
\* the process log in, log out or fail, and two callers never share one.
KeyNeverLost ==
  /\ \A s \in Signers :
       signer[s].result.type \in {"HsmSigningFailed", "NoPublicKey"}
         /\ signer[s].result.source = NotFound
         => signer[s].handle = NoKey
  /\ cast.hsm # "other" => \A r, s \in Signers :
       r # s /\ signer[r].handle # NoKey => signer[r].handle # signer[s].handle

\* The HSM is asked again no sooner than the backoff of that retry has passed on
\* the clock, and only after a failure that may go away.
BackoffPasses ==
  [][\A s \in Signers :
       signer'[s].calls = signer[s].calls + 1 /\ signer[s].calls > 0
         => /\ is_retryable(signer[s].error)
            /\ nanos >= signer[s].failed + backoff_for(signer[s].retries - 1)]_vars

\* Every advance counts: the clock is never behind what the completed advances
\* come to, however threads interleave.
NoAdvanceLost == nanos >= applied

\* The ticks of an Interval are the multiples of its period, in order, none
\* early and none skipped, also when the clock jumps.
TicksOnSchedule ==
  \A i \in DOMAIN ticks : ticks[i] = i * Period /\ ticks[i] <= nanos

\* Types, with nobody logged in to the token without a session, and a clock
\* that counts every advance and ticks on schedule.
ClockInv == TypeOK /\ NoAdvanceLost /\ TicksOnSchedule

\* Whoever sleeps until a time that the clock has reached wakes up, also if the
\* clock is never moved again: no wake-up is lost between the check and the wait.
SleepersWake ==
  \A s \in Sleepers :
    (sleep[s].pc # "awake" /\ sleep[s].deadline <= nanos) ~> (sleep[s].pc = "awake")

\* Once the clock gets to its last time, a signing that has begun ends, with an
\* object or an error, unless it waits for a time past that.
SigningEnds ==
  <>(nanos = MaxNanos) =>
    \A s \in Signers :
      (signer[s].pc = "sign") ~>
        \/ signer[s].pc = "done"
        \/ signer[s].pc = "backoff" /\ sleep[s].pc # "awake" /\ sleep[s].deadline > MaxNanos

\* Whoever waits for the clock or the HSM comes back.
WaitsEnd == SleepersWake /\ SigningEnds
=============================================================================
