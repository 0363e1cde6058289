------------------------------ MODULE MCPdAlarm ------------------------------
(***************************************************************************)
(* PdAlarm for TLC: the threads of the pool are interchangeable.           *)
(***************************************************************************)
EXTENDS PdAlarm, TLC

Symmetry == Permutations(Jobs)

=============================================================================
