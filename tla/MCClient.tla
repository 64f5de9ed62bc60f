------------------------------ MODULE MCClient ------------------------------
(* Values of the constants of KeyExchange for TLC. *)
EXTENDS KeyExchange, TLC

Symmetry == Permutations(User)
=============================================================================
