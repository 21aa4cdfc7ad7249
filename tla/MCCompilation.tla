--------------------------- MODULE MCCompilation ---------------------------
(* Instances of Compilation for TLC.                                       *)
EXTENDS Compilation

CONSTANTS d1, c1

\* The author adds an enum member before the others, or a registered name
\* that sorts before the other: compiled apart, the three texts give the same
\* member and the same name different numbers.
Plain == [names |-> {2}, history |-> <<<<"a">>>>]
MoreMembers == [names |-> {2}, history |-> <<<<"b", "a">>>>]
MoreNames == [names |-> {1, 2}, history |-> <<<<"a">>>>]

AllTexts == {Plain, MoreMembers, MoreNames}
NamesInNewFile == {<<Plain, MoreNames>>}

\* One member after another is declared before those there are, in a workspace
\* that was compiled when there was one.
MostMembers == [names |-> {2}, history |-> <<<<"c", "b", "a">>>>]
GrowingEnum == {Plain, MoreMembers, MostMembers}
Once == {Plain}

Nothing == {}
=============================================================================
