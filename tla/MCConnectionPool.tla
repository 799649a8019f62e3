-------------------------- MODULE MCConnectionPool --------------------------
(***************************************************************************)
(* Symmetry for model checking ConnectionPool.                             *)
(***************************************************************************)
EXTENDS ConnectionPool, TLC

Symmetry == Permutations(Threads) \union Permutations(Names)
=============================================================================
