--------------------------- MODULE MCRegistration ---------------------------
(* The instance of Registration for TLC; its constants are in               *)
(* registration.cfg.                                                         *)
EXTENDS Registration, TLC

Symmetry == Permutations(Requests) \cup Permutations(Users) \cup Permutations(Links)

=============================================================================
