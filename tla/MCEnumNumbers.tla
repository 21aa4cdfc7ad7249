--------------------------- MODULE MCEnumNumbers ---------------------------
(***************************************************************************)
(* Instances of EnumNumbers for TLC.  Members are told apart by identity   *)
(* only, and so are declarations.                                          *)
(***************************************************************************)
EXTENDS EnumNumbers, TLC

Symmetric == Permutations(Members) \cup Permutations(Declarations)
=============================================================================
