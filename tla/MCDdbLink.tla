----------------------------- MODULE MCDdbLink -----------------------------
(* Deployments of DdbLink for TLC. *)
EXTENDS DdbLink

CONSTANTS k1, k2, c1, c2

FanIn == {<<"a", "c">>, <<"b", "c">>}
MCLinks == FanIn \cup {<<"c", "a">>}

\* Two regions replicate into a third, with lags, stalls and a failure.
Disturbed ==
  [links |-> FanIn, writers |-> {"a", "b"}, keys |-> {k1}, contents |-> {c1},
   policies |-> {1, Stalled}, initial_lag |-> 1, fresh |-> FALSE, pauses |-> FALSE,
   max_time |-> 3, max_writes |-> 2, max_failures |-> 1]

\* One region is written and nothing fails.
Calm ==
  [links |-> {<<"a", "c">>}, writers |-> {"a"}, keys |-> {k1, k2}, contents |-> {c1, c2},
   policies |-> {0}, initial_lag |-> 0, fresh |-> TRUE, pauses |-> TRUE,
   max_time |-> 4, max_writes |-> 3, max_failures |-> 0]

\* The same with a lag, stalls and a failure, on one key.
Lagging ==
  [Calm EXCEPT !.keys = {k1}, !.policies = {1, Stalled}, !.initial_lag = 1, !.pauses = FALSE,
               !.max_failures = 1]

\* Two links form a cycle: copies come back to the region that is written.
Cyclic ==
  [Calm EXCEPT !.links = {<<"a", "c">>, <<"c", "a">>}, !.keys = {k1}, !.pauses = FALSE,
               !.max_writes = 2]

\* A key may return to a content it had before.
Returning == [Calm EXCEPT !.keys = {k1}, !.fresh = FALSE, !.pauses = FALSE, !.max_time = 5]

\* Two regions write one key, each replicating into the third as fast as it can.
Contested ==
  [Disturbed EXCEPT !.contents = {c1, c2}, !.policies = {0}, !.initial_lag = 0, !.max_time = 2, !.max_writes = 3,
                    !.max_failures = 0]

MCSetups == {Disturbed, Calm, Lagging, Cyclic, Contested}
ReturningOnly == {Returning}
============================================================================
