--------------------------- MODULE AtomicPromotion ---------------------------
(***************************************************************************)
(* What FileTransaction.promote promises its callers, with no lock, no     *)
(* journal and no intermediate state: each promotion is decided exactly    *)
(* once, and a committed one puts all of its files in place in one step    *)
(* while every other decision leaves all of them alone.                    *)
(***************************************************************************)
CONSTANTS
    Procs,     \* compiler processes, each performing one promotion
    Files,     \* destinations in the workspace
    Writes,    \* Writes[p]: the destinations p promotes
    Base,      \* the content a file had before any promotion
    Absent     \* the file does not exist

VARIABLES
    content,   \* content[f]: what a reader of the recovered workspace finds
    result     \* result[p]: the decision taken on p's promotion

vars == <<content, result>>

Init ==
    /\ content \in [Files -> {Base, Absent}]
    /\ result = [p \in Procs |-> "none"]

(* The whole set of files of p takes effect.  The staged content of p is   *)
(* named by p itself.                                                      *)
Apply(p) ==
    /\ result[p] = "none"
    /\ content' = [f \in Files |-> IF f \in Writes[p] THEN p ELSE content[f]]
    /\ result' = [result EXCEPT ![p] = "committed"]

(* The promotion failed, was refused the lock, or was only a recovery: no  *)
(* file changes.                                                           *)
Decline(p) ==
    /\ result[p] = "none"
    /\ \E r \in {"failed", "contended", "recovered"} :
          result' = [result EXCEPT ![p] = r]
    /\ UNCHANGED content

Next == \E p \in Procs : Apply(p) \/ Decline(p)

Spec == Init /\ [][Next]_vars
=============================================================================
