------------------------------ MODULE MCAcme ------------------------------
(***************************************************************************)
(* Acme for TLC.  Requests, keys and nonces are interchangeable, and every *)
(* property of the run is a safety property that treats them alike, so     *)
(* their symmetry is sound.                                                *)
(***************************************************************************)
EXTENDS Acme, TLC

Symmetry == Permutations(Requests) \cup Permutations(Keys) \cup Permutations(Nonces)
============================================================================
