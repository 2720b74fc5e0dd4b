------------------------------ MODULE MCLease ------------------------------
(* AccountLease with interchangeable runtimes. *)
EXTENDS AccountLease, TLC

Symmetry == Permutations(Holders)

=============================================================================
