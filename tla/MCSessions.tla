----------------------------- MODULE MCSessions -----------------------------
(* Instances of Sessions for TLC. *)
EXTENDS Sessions, TLC

Symmetry ==
  Permutations(Users) \cup Permutations(Clients) \cup Permutations(Procs) \cup Permutations(Tokens)
=============================================================================
