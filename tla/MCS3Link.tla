----------------------------- MODULE MCS3Link -----------------------------
(* Model-checking instance of S3Link: keys are interchangeable.            *)
EXTENDS S3Link

KeySymmetry == Permutations(Key)
=============================================================================
