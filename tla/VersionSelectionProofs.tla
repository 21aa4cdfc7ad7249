----------------------- MODULE VersionSelectionProofs -----------------------
(***************************************************************************)
(* Proofs about VersionSelection, for any number of versions.              *)
(***************************************************************************)
EXTENDS VersionSelection, WellFoundedInduction, TLAPS

-----------------------------------------------------------------------------
(* The least and the greatest of the versions.                             *)

\* A set of natural numbers that is not empty has a least element.
LEMMA MinExists ==
    ASSUME NEW S \in SUBSET Nat, S # {}
    PROVE  Min(S) \in S /\ \A y \in S : Min(S) <= y
<1> DEFINE R == OpToRel(<, Nat)
<1>1. IsWellFoundedOn(R, Nat)
    BY NatLessThanWellFounded
<1> HIDE DEF R
<1>2. PICK x \in S : \A y \in S : ~ (<<y, x>> \in R)
    BY <1>1, WFMin
<1>3. \A y \in S : ~ (y < x)
    BY <1>2 DEF R, OpToRel
<1>4. \A y \in S : x <= y
    BY <1>3
<1> QED
    BY <1>4 DEF Min

\* So has one that is bounded a greatest.
LEMMA MaxExists ==
    ASSUME NEW S \in SUBSET Nat, S # {}, NEW b \in Nat, \A x \in S : x <= b
    PROVE  Max(S) \in S /\ \A y \in S : y <= Max(S)
<1> DEFINE T == {b - x : x \in S}
<1>1. \A x \in S : b - x \in Nat
    OBVIOUS
<1>1a. T \in SUBSET Nat /\ T # {}
    BY <1>1
<1>2. Min(T) \in T /\ \A y \in T : Min(T) <= y
    BY <1>1a, MinExists
<1>3. PICK x \in S : Min(T) = b - x
    BY <1>2
<1>4. \A y \in S : b - x <= b - y
    BY <1>2, <1>3
<1>5. \A y \in S : x >= y
    BY <1>4
<1>6. Max(S) \in S /\ \A y \in S : Max(S) >= y
    BY <1>5 DEF Max
<1> QED
    BY <1>6
-----------------------------------------------------------------------------

Selections == Open \cup Bounded \cup Exact \cup Pinned

\* Versions are added, and never changed.
Grown ==
    /\ Published' \subseteq 0..MaxVersion
    /\ Published \subseteq Published'
    /\ \A w \in Published : versions'[w] = versions[w]

LEMMA Types == TypeOK => Published \subseteq 0..MaxVersion
  BY DEF TypeOK, Published

LEMMA PublishGrows == TypeOK /\ Publish => TypeOK' /\ Grown
<1> SUFFICES ASSUME TypeOK, Publish PROVE TypeOK' /\ Grown
  OBVIOUS
<1>0. PICK v \in (0..MaxVersion) \ Published, breaking \in BOOLEAN :
          versions' = [w \in Published \cup {v} |->
                          IF w = v THEN breaking ELSE versions[w]]
  BY DEF Publish
<1>1. /\ Published \subseteq 0..MaxVersion
      /\ \A w \in Published : versions[w] \in BOOLEAN
  BY DEF TypeOK, Published
<1>2. versions' \in [Published \cup {v} -> BOOLEAN]
  BY <1>0, <1>1
<1>2a. Published \cup {v} \in SUBSET (0..MaxVersion)
  BY <1>1
<1>3. TypeOK'
  BY <1>2, <1>2a, Zenon DEF TypeOK
<1>4. Published' = Published \cup {v}
  BY <1>2 DEF Published
<1>5. Grown
  BY <1>0, <1>2a, <1>4 DEF Grown
<1>. QED
  BY <1>3, <1>5

\* Selections are between the versions there may be.
LEMMA SelectionsTyped ==
  /\ \A sel \in Bounded : /\ sel.kind \in {"min", "range"}
                          /\ sel.low \in 0..MaxVersion
                          /\ sel.kind = "range" => sel.high \in 0..MaxVersion + 1
  /\ \A sel \in Open : sel.kind = "none"
  /\ \A sel \in Exact : sel.kind = "exact"
  /\ \A sel \in Pinned : sel.kind = "pinned"
  BY DEF Bounded, Open, Exact, Pinned

\* The greatest of some published versions.
LEMMA GreatestExists ==
  ASSUME TypeOK, NEW S \in SUBSET Published, S # {}
  PROVE  /\ Max(S) \in S
         /\ Max(S) \in 0..MaxVersion
         /\ \A y \in S : y <= Max(S)
<1>1. MaxVersion \in Nat /\ S \in SUBSET Nat /\ \A y \in S : y <= MaxVersion
  BY Types, ConstantsAssumption
<1>2. Max(S) \in S /\ \A y \in S : y <= Max(S)
  BY <1>1, MaxExists
<1>. QED
  BY <1>2, Types

LEMMA LeastExists ==
  ASSUME TypeOK, Published # {}
  PROVE  /\ Min(Published) \in Published
         /\ Min(Published) \in 0..MaxVersion
         /\ \A y \in Published : Min(Published) <= y
<1>1. Published \in SUBSET Nat
  BY Types, ConstantsAssumption
<1>2. Min(Published) \in Published /\ \A y \in Published : Min(Published) <= y
  BY <1>1, MinExists
<1>. QED
  BY <1>2, Types

LEMMA GreatestIs ==
  ASSUME NEW S, NEW low, Greatest(S, low) # None
  PROVE  S # {} /\ Greatest(S, low) = Max(S) /\ ~Breaks(low, Max(S))
  BY DEF Greatest

-----------------------------------------------------------------------------

THEOREM TypeInvariant == Spec => []TypeOK
<1>1. Init => TypeOK
  <2> SUFFICES ASSUME Init PROVE TypeOK
    OBVIOUS
  <2>1. versions \in [{} -> BOOLEAN]
    BY DEF Init
  <2>. QED
    BY <2>1 DEF TypeOK
<1>2. TypeOK /\ [Next]_versions => TypeOK'
  BY PublishGrows DEF Next, TypeOK
<1>. QED
  BY <1>1, <1>2, PTL DEF Spec

\* What compiles can be locked, with the version it was compiled against.
THEOREM LockAlwaysAgrees == Spec => []LockAgrees
<1>1. TypeOK => LockAgrees
  <2> SUFFICES ASSUME TypeOK, NEW sel \in Open \cup Bounded \cup Exact,
                      CompilerSelects(sel) # None,
                      sel \in Open => 0 \notin Published
               PROVE  LockSelects(sel) = CompilerSelects(sel)
    BY DEF LockAgrees
  <2>1. CASE sel \in Bounded
    BY <2>1, SelectionsTyped DEF CompilerSelects, LockSelects, LockInRange
  <2>2. CASE sel \in Exact
    BY <2>2, SelectionsTyped DEF CompilerSelects, LockSelects
  <2>3. CASE sel \in Open
    <3>1. sel.kind = "none"
      BY <2>3, SelectionsTyped
    <3>2. {v \in Published : 1 <= v} = Published
      BY <2>3, Types, ConstantsAssumption
    <3>3. CompilerSelects(sel) = Greatest(Published, 1)
      BY <3>1, <3>2 DEF CompilerSelects
    <3>4. /\ Published # {}
          /\ CompilerSelects(sel) = Max(Published)
          /\ ~Breaks(1, Max(Published))
      BY <3>3, GreatestIs
    <3>5. 1 <= Min(Published) /\ Min(Published) \in Nat
      BY <2>3, <3>4, LeastExists
    <3>6. ~Breaks(Min(Published), Max(Published))
      BY <3>4, <3>5, Types, ConstantsAssumption DEF Breaks
    <3>7. LockSelects(sel) = Greatest(Published, Min(Published))
      BY <3>1, <3>4 DEF LockSelects
    <3>. QED
      BY <3>4, <3>6, <3>7 DEF Greatest
  <2>. QED
    BY <2>1, <2>2, <2>3
<1>. QED
  BY <1>1, TypeInvariant, PTL

\* When versions are added, a selection from more of them, starting no later,
\* moves forward, and over no breaking change.
LEMMA SelectionMoves ==
  ASSUME TypeOK, Grown,
         NEW S \in SUBSET Published, NEW T \in SUBSET Published', S \subseteq T, S # {},
         NEW low \in Nat, \A y \in S : low <= y,
         ~ \E w \in Published' : low < w /\ w <= Max(T) /\ versions'[w]
  PROVE  NoBreakBetween(Max(S), Max(T))
<1>1. Max(S) \in S /\ Max(S) \in Nat
  BY GreatestExists, ConstantsAssumption
<1>2. Max(T) \in Nat /\ \A y \in T : y <= Max(T)
  <2>1. T \subseteq 0..MaxVersion /\ T # {}
    BY DEF Grown
  <2>2. MaxVersion \in Nat /\ T \in SUBSET Nat /\ \A y \in T : y <= MaxVersion
    BY <2>1, ConstantsAssumption
  <2>. QED
    BY <2>1, <2>2, MaxExists
<1>3. Max(S) <= Max(T)
  BY <1>1, <1>2
<1>4. \A w \in Published' : Max(S) < w => low < w
  BY <1>1, ConstantsAssumption DEF Grown
<1>. QED
  BY <1>3, <1>4 DEF NoBreakBetween

\* A reference that resolves before and after a version is published moves
\* forward, and over no breaking change, for the compiler and for the lock.
THEOREM MovesForwardAlways == Spec => MovesForwardSafely
<1> DEFINE Moves(sel) == /\ NoBreakBetween(CompilerSelects(sel), CompilerSelects(sel)')
                         /\ NoBreakBetween(LockSelects(sel), LockSelects(sel)')
<1>1. TypeOK /\ [Next]_versions =>
          [\A sel \in Open \cup Bounded \cup Exact \cup Pinned : Moves(sel)]_versions
  <2> SUFFICES ASSUME TypeOK, Publish,
                      NEW sel \in Open \cup Bounded \cup Exact \cup Pinned
               PROVE  Moves(sel)
    BY DEF Next
  <2>0. TypeOK' /\ Grown
    BY PublishGrows
  <2>1. CASE sel \in Bounded
    <3> DEFINE S == {v \in Published : InRange(sel, v)}
               T == {v \in Published' : InRange(sel, v)}
    <3>1. sel.kind \in {"min", "range"} /\ sel.low \in Nat
      BY <2>1, SelectionsTyped, ConstantsAssumption
    <3>2. /\ CompilerSelects(sel) = Greatest(S, sel.low)
          /\ LockSelects(sel) = Greatest(S, sel.low)
      BY <3>1 DEF CompilerSelects, LockSelects, LockInRange
    <3>3. /\ CompilerSelects(sel)' = LockSelects(sel)'
          /\ CompilerSelects(sel)' # None =>
                /\ CompilerSelects(sel)' = Max(T)
                /\ ~ \E w \in Published' : sel.low < w /\ w <= Max(T) /\ versions'[w]
      BY <3>1 DEF CompilerSelects, LockSelects, LockInRange, InRange, Greatest, Breaks, Published
    <3>4. S \subseteq T /\ S \subseteq Published /\ T \subseteq Published'
      BY <2>0 DEF Grown
    <3>5. \A y \in S : sel.low <= y
      BY DEF InRange
    <3>6. CompilerSelects(sel) # None => S # {} /\ CompilerSelects(sel) = Max(S)
      BY <3>2, GreatestIs
    <3> HIDE DEF S, T
    <3>7. CompilerSelects(sel) # None /\ CompilerSelects(sel)' # None =>
              NoBreakBetween(Max(S), Max(T))
      BY <2>0, <3>1, <3>3, <3>4, <3>5, <3>6, SelectionMoves
    <3>. QED
      BY <3>2, <3>3, <3>6, <3>7 DEF NoBreakBetween
  <2>2. CASE sel \in Open
    <3>1. sel.kind = "none"
      BY <2>2, SelectionsTyped
    <3>2. NoBreakBetween(CompilerSelects(sel), CompilerSelects(sel)')
      <4> DEFINE S == {v \in Published : 1 <= v}
                 T == {v \in Published' : 1 <= v}
      <4>1. CompilerSelects(sel) # None => S # {} /\ CompilerSelects(sel) = Max(S)
        BY <3>1 DEF CompilerSelects, Greatest
      <4>2. CompilerSelects(sel)' # None =>
                /\ CompilerSelects(sel)' = Max(T)
                /\ ~ \E w \in Published' : 1 < w /\ w <= Max(T) /\ versions'[w]
        BY <3>1 DEF CompilerSelects, Greatest, Breaks, Published
      <4>3. /\ S \subseteq T /\ S \subseteq Published /\ T \subseteq Published'
            /\ \A y \in S : 1 <= y
        BY <2>0 DEF Grown
      <4> HIDE DEF S, T
      <4>4. CompilerSelects(sel) # None /\ CompilerSelects(sel)' # None =>
                NoBreakBetween(Max(S), Max(T))
        BY <2>0, <4>1, <4>2, <4>3, SelectionMoves
      <4>. QED
        BY <4>1, <4>2, <4>4 DEF NoBreakBetween
    <3>3. NoBreakBetween(LockSelects(sel), LockSelects(sel)')
      <4>1. LockSelects(sel) # None =>
                Published # {} /\ LockSelects(sel) = Max(Published)
        BY <3>1 DEF LockSelects, Greatest
      <4>2. LockSelects(sel)' # None =>
                /\ LockSelects(sel)' = Max(Published')
                /\ Published' # {}
                /\ ~ \E w \in Published' : /\ Min(Published') < w
                                           /\ w <= Max(Published')
                                           /\ versions'[w]
        BY <3>1 DEF LockSelects, Greatest, Breaks, Published
      <4>3. Published' # {} => /\ Min(Published') \in Nat
                               /\ \A y \in Published' : Min(Published') <= y
        <5>1. Published' \in SUBSET Nat
          BY <2>0, ConstantsAssumption DEF Grown
        <5>. QED
          BY <5>1, MinExists
      <4>4. LockSelects(sel) # None /\ LockSelects(sel)' # None =>
                NoBreakBetween(Max(Published), Max(Published'))
        BY <2>0, <4>1, <4>2, <4>3, SelectionMoves DEF Grown
      <4>. QED
        BY <4>1, <4>2, <4>4 DEF NoBreakBetween
    <3>. QED
      BY <3>2, <3>3
  <2>3. CASE sel \in Exact \cup Pinned
    <3>1. /\ CompilerSelects(sel) \in {None, sel.version}
          /\ CompilerSelects(sel)' \in {None, sel.version}
          /\ LockSelects(sel) \in {None, sel.version}
          /\ LockSelects(sel)' \in {None, sel.version}
      BY <2>3, SelectionsTyped DEF CompilerSelects, LockSelects
    <3>2. sel.version \in Nat
      BY <2>3, ConstantsAssumption DEF Exact, Pinned
    <3>3. \A w \in Published' : w \in Nat
      BY <2>0, ConstantsAssumption DEF Grown
    <3>. QED
      BY <3>1, <3>2, <3>3 DEF NoBreakBetween
  <2>. QED
    BY <2>1, <2>2, <2>3
<1>. QED
  BY <1>1, TypeInvariant, PTL DEF Spec, MovesForwardSafely

\* A reference refused because of a breaking change stays refused.
THEOREM StaysRefusedAlways == Spec => StaysRefused
<1> DEFINE Stays == \A sel \in Bounded :
                        /\ \E v \in Published : InRange(sel, v)
                        /\ CompilerSelects(sel) = None
                        => CompilerSelects(sel)' = None
<1>1. TypeOK /\ [Next]_versions => [Stays]_versions
  <2> SUFFICES ASSUME TypeOK, Publish, NEW sel \in Bounded,
                      NEW u \in Published, InRange(sel, u), CompilerSelects(sel) = None
               PROVE  CompilerSelects(sel)' = None
    BY DEF Next
  <2> DEFINE S == {v \in Published : InRange(sel, v)}
             T == {v \in Published' : InRange(sel, v)}
  <2>0. TypeOK' /\ Grown
    BY PublishGrows
  <2>1. sel.kind \in {"min", "range"} /\ sel.low \in Nat
    BY SelectionsTyped, ConstantsAssumption
  <2>2. S # {} /\ S \subseteq Published
    OBVIOUS
  <2>3. Max(S) \in S /\ Max(S) \in Nat
    BY <2>2, GreatestExists, ConstantsAssumption
  <2>4. PICK w \in Published : sel.low < w /\ w <= Max(S) /\ versions[w]
    BY <2>1, <2>2, <2>3, ConstantsAssumption DEF CompilerSelects, Greatest, Breaks
  <2>5. S \subseteq T /\ T \subseteq Published'
    BY <2>0 DEF Grown
  <2>6. Max(T) \in Nat /\ \A y \in T : y <= Max(T)
    <3>1. T \subseteq 0..MaxVersion /\ T # {}
      BY <2>0, <2>2, <2>5 DEF Grown
    <3> HIDE DEF T
    <3>2. MaxVersion \in Nat /\ T \in SUBSET Nat /\ \A y \in T : y <= MaxVersion
      BY <3>1, ConstantsAssumption
    <3>. QED
      BY <3>1, <3>2, MaxExists
  <2>7. /\ w \in Published' /\ sel.low < w /\ w <= Max(T) /\ versions'[w]
    <3>1. w \in Nat
      BY Types, ConstantsAssumption
    <3>. QED
      BY <2>0, <2>3, <2>4, <2>5, <2>6, <3>1 DEF Grown
  <2>8. CompilerSelects(sel)' = IF T = {} \/ \E x \in Published' : sel.low < x /\ x <= Max(T) /\ versions'[x]
                                THEN None ELSE Max(T)
    BY <2>1 DEF CompilerSelects, Greatest, Breaks, InRange, Published
  <2>. QED
    BY <2>7, <2>8
<1>. QED
  BY <1>1, TypeInvariant, PTL DEF Spec, StaysRefused
=============================================================================
