-------------------------- MODULE VersionSelection --------------------------
(***************************************************************************)
(* The version that a reference to a model selects, while versions are     *)
(* published: for the compiler (registry/resolver.py) and for the registry *)
(* lock (registry/snapshot.py), which each have a resolver of their own.   *)
(*                                                                         *)
(* All references are to one model, whose published versions never change  *)
(* (RegistrySnapshot).  Left out: projections, whose versions are never    *)
(* breaking, as targets; a model and a type of the same qualified name.    *)
(***************************************************************************)
EXTENDS Naturals, FiniteSets, FiniteSetsExt

CONSTANTS
    MaxVersion,   \* bound: greatest version published or asked for
    None          \* refused

ASSUME ConstantsAssumption == MaxVersion \in Nat /\ None \notin Nat

VARIABLE versions   \* the published versions: [version -> is it breaking?]

Published == DOMAIN versions

\* compute_version_signature, and the hash of the object that holds version v:
\* hashes of different texts.
Signature(v) == <<"signature", v>>
ContentHash(v) == <<"object", v>>

\* VersionSpec; "none" is a reference without one.
Open == [kind : {"none"}]
Bounded == [kind : {"min"}, low : 0..MaxVersion]
           \cup [kind : {"range"}, low : 0..MaxVersion, high : 0..MaxVersion + 1]
Exact == [kind : {"exact"}, version : 0..MaxVersion]
Pinned == UNION {[kind : {"pinned"}, version : {v}, hash : {Signature(v), ContentHash(v)}] :
                     v \in 0..MaxVersion}

Init == versions = [v \in {} |-> FALSE]

\* The author adds a version, after or between those there are.
Publish ==
    \E v \in (0..MaxVersion) \ Published, breaking \in BOOLEAN :
        versions' = [w \in Published \cup {v} |-> IF w = v THEN breaking ELSE versions[w]]

Next == Publish

Spec == Init /\ [][Next]_versions

-----------------------------------------------------------------------------
(* The two resolvers.                                                      *)

InRange(sel, v) == sel.low <= v /\ (sel.kind = "range" => v < sel.high)

(* Defects that an edit of this code could introduce.  Each is a variant   *)
(* of the definition its comment names, and is used by nothing.            *)
ClosedRange(sel, v) ==              \* LockInRange: the upper bound included
    sel.low <= v /\ (sel.kind = "range" => v <= sel.high)

BreakBelow(low, v) ==               \* Breaks: not the selected version itself
    \E w \in Published : low < w /\ w < v /\ versions[w]

\* A breaking version after the one asked for, up to the one selected.
Breaks(low, v) == \E w \in Published : low < w /\ w <= v /\ versions[w]

\* The greatest of the matching versions, unless there is none or there is a
\* breaking change on the way.
Greatest(matching, low) ==
    IF matching = {} \/ Breaks(low, Max(matching)) THEN None ELSE Max(matching)

\* The compiler, given a specification (resolve_model_ref); a reference
\* without one asks for version 1 or more (resolve_ref_type).
CompilerSelects(sel) ==
    CASE sel.kind = "none" -> Greatest({v \in Published : 1 <= v}, 1)
      [] sel.kind \in {"min", "range"} ->
            Greatest({v \in Published : InRange(sel, v)}, sel.low)
      [] sel.kind = "exact" -> IF sel.version \in Published THEN sel.version ELSE None
      [] sel.kind = "pinned" ->
            IF sel.version \in Published /\ sel.hash = Signature(sel.version)
            THEN sel.version ELSE None

LockInRange(sel, v) == InRange(sel, v)

\* The lock (_format_dependency and _resolve_dependency_entry); a reference
\* without a specification asks for "latest".
LockSelects(sel) ==
    CASE sel.kind = "none" ->
            IF Published = {} THEN None ELSE Greatest(Published, Min(Published))
      [] sel.kind \in {"min", "range"} ->
            Greatest({v \in Published : LockInRange(sel, v)}, sel.low)
      [] sel.kind = "exact" -> IF sel.version \in Published THEN sel.version ELSE None
      [] sel.kind = "pinned" ->
            IF sel.version \in Published /\ sel.hash = ContentHash(sel.version)
            THEN sel.version ELSE None

-----------------------------------------------------------------------------
(* Properties.                                                             *)

\* Versions have a number and a kind of change.
TypeOK == versions \in UNION {[S -> BOOLEAN] : S \in SUBSET (0..MaxVersion)}

\* What compiles can be locked, with the version it was compiled against.  A
\* version 0 is beyond the compiler's reading of a reference without a version,
\* but not beyond the lock's.
LockAgrees ==
    \A sel \in Open \cup Bounded \cup Exact :
        /\ CompilerSelects(sel) # None
        /\ sel \in Open => 0 \notin Published
        => LockSelects(sel) = CompilerSelects(sel)

NoBreakBetween(old, new) ==
    old # None /\ new # None =>
        old <= new /\ \A w \in Published' : old < w /\ w <= new => ~versions'[w]

\* When a version is published and a reference still resolves, for either
\* resolver, it resolves to the same version or a later one, and no breaking
\* change is between the two (docs/language-reference.md, line 474).
MovesForwardSafely ==
    [][\A sel \in Open \cup Bounded \cup Exact \cup Pinned :
          /\ NoBreakBetween(CompilerSelects(sel), CompilerSelects(sel)')
          /\ NoBreakBetween(LockSelects(sel), LockSelects(sel)')]_versions

\* A reference that is refused because of a breaking change stays refused,
\* whatever is published after it.
StaysRefused ==
    [][\A sel \in Bounded :
          /\ \E v \in Published : InRange(sel, v)
          /\ CompilerSelects(sel) = None
          => CompilerSelects(sel)' = None]_versions

-----------------------------------------------------------------------------
(* What the documentation says and the code does not do; see README.md.    *)

\* A pinned version is "rejected unless it also matches the declared content
\* hash; hash is a hexadecimal signature" (docs/language-reference.md, line
\* 148): what compiles can be locked.
PinnedLockAgrees ==
    \A sel \in Pinned :
        CompilerSelects(sel) # None => LockSelects(sel) = CompilerSelects(sel)

\* "If that version carries changeKind: breaking, the compiler raises an
\* error" (docs/language-reference.md, line 474).
BreakingNotSelected ==
    \A sel \in Bounded :
        CompilerSelects(sel) # None => ~versions[CompilerSelects(sel)]
=============================================================================
