----------------------- MODULE MCWorkspaceIntegration -----------------------
(* An instance of WorkspaceIntegration for TLC: two files, and executors   *)
(* that change one file, change both, or delete one and change the other.  *)
EXTENDS WorkspaceIntegration

TwoFiles == 1 .. 2
Trees == {<<2, 1>>, <<2, 2>>, <<1, 0>>}
=============================================================================
