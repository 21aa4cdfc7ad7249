-------------------------- MODULE MCCompilerClient --------------------------
(* Instances of CompilerClient for TLC.                                    *)
EXTENDS CompilerClient

CONSTANTS demo, t1
=============================================================================
