------------------------------ MODULE MCLease ------------------------------
(* Model-checking instance of Lease: coordinators are interchangeable.     *)
EXTENDS Lease, TLC

CoordSymmetry == Permutations(Coord)
=============================================================================
