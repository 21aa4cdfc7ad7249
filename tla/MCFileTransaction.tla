-------------------------- MODULE MCFileTransaction --------------------------
(* Instances of FileTransaction for TLC.                                   *)
EXTENDS FileTransaction, TLC

CONSTANTS p1, p2, p3, f1, f2

(* Two promotions of the same files and a bare recover().                  *)
TwoAndRecovery == [p \in Procs |-> IF p = p3 THEN {} ELSE Files]

(* The two promotions and the files are interchangeable.                   *)
Symmetric == Permutations({p1, p2}) \cup Permutations(Files)

(* The same single file for everyone.                                      *)
OneFileEach == [p \in Procs |-> {f1}]
=============================================================================
