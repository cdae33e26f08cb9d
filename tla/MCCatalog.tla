----------------------------- MODULE MCCatalog -----------------------------
(* Instances of Catalog for TLC. *)
EXTENDS Catalog, TLC

Symmetry == Permutations(Users) \cup Permutations(Orgs) \cup Permutations(Procs) \cup Permutations(Slugs) \cup Permutations(Types)
=============================================================================
