----------------------------- MODULE MCVarsCache -----------------------------
(* The tasks of two hosts; a third may be added, or found by a reload, and   *)
(* is the implicit localhost.                                                *)
EXTENDS VarsCache

Two   == {1, 2}
Three == {1, 2, 3}
Found == {{1, 2}, {1, 3}}
=============================================================================
