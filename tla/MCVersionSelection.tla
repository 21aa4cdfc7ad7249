------------------------- MODULE MCVersionSelection -------------------------
(* The instance of VersionSelection for TLC.                               *)
EXTENDS VersionSelection

\* Two matching versions, one between them and one on either side.
UpToFour == 4
=============================================================================
