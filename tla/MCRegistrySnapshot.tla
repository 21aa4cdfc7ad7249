------------------------- MODULE MCRegistrySnapshot -------------------------
(* Instances of RegistrySnapshot for TLC.                                  *)
EXTENDS RegistrySnapshot, TLC

CONSTANTS p1, p2, v1, v2, A, B

\* The first version, a second one, and a first version of other content.
First == v1 :> A
Second == v1 :> A @@ v2 :> A
Rewritten == v1 :> B

AllTexts == {First, Second, Rewritten}
Rivals == {First, Rewritten}

\* A candidate, published, and published with a state for the second version;
\* retired at once.
SomeDocs == {v1 :> 1, v1 :> 2, v1 :> 2 @@ v2 :> 1, v1 :> 4}
OneDoc == {v1 :> 1}
=============================================================================
