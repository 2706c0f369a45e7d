---------------------------- MODULE MCMfaFactor ----------------------------
(* Instances of MfaFactor for TLC: requests, secrets and recovery codes are  *)
(* interchangeable model values.                                             *)
EXTENDS MfaFactor, TLC

Symmetry ==
    Permutations(Requests) \cup Permutations(Secrets) \cup Permutations(CodeIds)

=============================================================================
