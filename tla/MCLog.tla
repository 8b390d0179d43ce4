------------------------------- MODULE MCLog -------------------------------
\* The log and its documents in one run.  The two share no state, so their
\* steps commute and the interleavings add nothing: the log grows while no
\* document is under way, and documents move while the log is empty.
EXTENDS TransparencyLog, Documents

MCInit == Init /\ DocInit

MCNext ==
  \/ stage = "start" /\ ledger = <<>> /\ Next /\ UNCHANGED docVars
  \/ main = <<>> /\ ~forked /\ DocNext /\ UNCHANGED vars

MCSpec == MCInit /\ [][MCNext]_<<vars, docVars>>

MCClaimInputs ==
  {<<"Dns", <<>>>>, <<"Dns", <<<<>>>>>>, <<"Dns", <<<<0, 0, 0, 0>>>>>>,
   <<"Dns", <<<<0>>, <<1, 2>>>>>>, <<"Dns", <<<<1, 2, 3>>, <<1, 2, 3>>, <<1, 2, 3>>, <<1, 2, 3>>>>>>,
   <<"DnsWildcard", <<<<1>>>>>>, <<"Ipv4", <<<<2>>>>>>, <<"Ipv4", <<<<0>>, <<1>>>>>>,
   <<"Ipv6", <<<<0, 1>>>>>>}

MCPublicKeys == {<<>>, <<1>>, <<0, 3, 0>>, [i \in 1..16 |-> 0]}

MCIds == {<<>>, <<0>>, <<1, 0>>, <<0, 0, 0, 1>>}

MCHashes == {<<0>>, <<1>>}

MCSigningKeys == {<<0>>, <<1>>}

MCVerifyingKeys ==
  [algorithm : {"EcdsaP256Sha256"}, spki : MCSigningKeys \cup {<<>>}]
  \cup {[algorithm |-> "Ed25519", spki |-> <<0>>]}
============================================================================
