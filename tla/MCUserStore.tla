----------------------------- MODULE MCUserStore -----------------------------
(***************************************************************************)
(* UserStore for TLC: names and adding threads are interchangeable.        *)
(***************************************************************************)
EXTENDS UserStore, TLC

Symmetry == Permutations(Names) \cup Permutations(Adders)

=============================================================================
