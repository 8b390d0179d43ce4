------------------------------ MODULE MCSigner ------------------------------
(* Two callers of a token or of MemoryHsm, one caller of any other HSM     *)
(* while two threads move the clock, and a ticker while they do.           *)
EXTENDS CheckpointSigner

CONSTANTS s1, s2, ticker, t1, t2

MCRequests == {[log_id_len |-> n, tree_size |-> 1] : n \in {255, 256}}

Cast(hsm, actors, max_retries) == [hsm |-> hsm, actors |-> actors, max_retries |-> max_retries]

MCCasts ==
  { Cast("softhsm", {s1, s2}, 0), Cast("softhsm", {s1, t1}, 1), Cast("memory", {s1, s2}, 1),
    Cast("other", {s1, t1, t2}, 2), Cast("other", {ticker, t1, t2}, 0) }
=============================================================================
