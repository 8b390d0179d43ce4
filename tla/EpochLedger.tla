---------------------------- MODULE EpochLedger ----------------------------
(***************************************************************************)
(* What the primary-region lease of the coordination crate promises,       *)
(* without clocks, messages or storage: epochs are granted one after the   *)
(* other, each to one coordinator; a coordinator only ever believes in an  *)
(* epoch that was granted to it; and a fenced write is only applied under  *)
(* the newest epoch.  Lease.tla is shown to implement this specification.  *)
(***************************************************************************)
EXTENDS Naturals, Sequences

CONSTANT Coord        \* the coordinators (holder ids), one per region instance

VARIABLES
  grants,             \* grants[e] is the coordinator epoch e was granted to
  belief,             \* belief[c] is the epoch c acts under, 0 when it is not primary
  wrote               \* the epoch of the last fenced write, 0 before the first

ledgerVars == <<grants, belief, wrote>>

LedgerInit ==
  /\ grants = <<>>
  /\ belief = [c \in Coord |-> 0]
  /\ wrote = 0

\* acquire grants epoch 1, every takeover grants the next epoch.
Grant(c) ==
  /\ grants' = Append(grants, c)
  /\ UNCHANGED <<belief, wrote>>

\* A coordinator hears, possibly much later, that an epoch was granted to it.
Learn(c, e) ==
  /\ grants[e] = c
  /\ belief[c] <= e
  /\ belief' = [belief EXCEPT ![c] = e]
  /\ UNCHANGED <<grants, wrote>>

\* A demoted, or restarted, coordinator stops acting as primary.
StandDown(c) ==
  /\ belief' = [belief EXCEPT ![c] = 0]
  /\ UNCHANGED <<grants, wrote>>

\* A fenced write is applied: only ever under the newest epoch.
FencedWrite ==
  /\ grants # <<>>
  /\ wrote' = Len(grants)
  /\ UNCHANGED <<grants, belief>>

LedgerNext ==
  \/ \E c \in Coord : Grant(c) \/ StandDown(c)
  \/ \E c \in Coord : \E e \in DOMAIN grants : Learn(c, e)
  \/ FencedWrite

LedgerSpec == LedgerInit /\ [][LedgerNext]_ledgerVars
=============================================================================
