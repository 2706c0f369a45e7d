--------------------------- MODULE MCCredentials ---------------------------
(* Instances of Credentials for TLC: small sets of model values, of which     *)
(* requests, session ids, reset links and challenge ids are interchangeable.  *)
EXTENDS Credentials, TLC

Symmetry ==
    Permutations(Requests) \cup Permutations(SessionIds)
        \cup Permutations(ResetIds) \cup Permutations(ChallengeIds)

=============================================================================
