---------------------------- MODULE MCRegistration ----------------------------
(* Instances of Registration for TLC.                                        *)
EXTENDS Registration, TLC

CONSTANT i1

OneUse == i1 :> 1
Symmetry == Permutations(Requests) \cup Permutations(Fingerprints) \cup Permutations(Names)
=============================================================================
