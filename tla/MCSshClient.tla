----------------------------- MODULE MCSshClient ----------------------------
(***************************************************************************)
(* Symmetry for model checking SshClient.                                  *)
(***************************************************************************)
EXTENDS SshClient, TLC

Symmetry == Permutations(Threads)
=============================================================================
