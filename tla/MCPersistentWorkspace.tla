----------------------- MODULE MCPersistentWorkspace -----------------------
(* Instances of PersistentWorkspace for TLC.                               *)
EXTENDS PersistentWorkspace, TLC

Symmetric == Permutations(Tabs)
=============================================================================
