-------------------------- MODULE EnumNumbersProofs --------------------------
(***************************************************************************)
(* Proofs about EnumNumbers for any declarations, any finite set of member *)
(* names and any bounds.                                                   *)
(***************************************************************************)
EXTENDS EnumNumbers, FiniteSetTheorems, WellFoundedInduction, TLAPS

-----------------------------------------------------------------------------
(* The least and the greatest element of a set of numbers.                 *)

\* A set of natural numbers that is not empty has a least element.
LEMMA MinExists ==
    ASSUME NEW S \in SUBSET Nat, S # {}
    PROVE  Min(S) \in S /\ \A y \in S : Min(S) <= y
<1> DEFINE R == OpToRel(<, Nat)
<1>1. IsWellFoundedOn(R, Nat)
    BY NatLessThanWellFounded
<1> HIDE DEF R
<1>2. PICK x \in S : \A y \in S : ~ (<<y, x>> \in R)
    BY <1>1, WFMin
<1>3. \A y \in S : ~ (y < x)
    BY <1>2 DEF R, OpToRel
<1>4. \A y \in S : x <= y
    BY <1>3
<1> QED
    BY <1>4 DEF Min

\* So has one that is bounded a greatest.
LEMMA MaxExists ==
    ASSUME NEW S \in SUBSET Nat, S # {}, NEW b \in Nat, \A x \in S : x <= b
    PROVE  Max(S) \in S /\ \A y \in S : y <= Max(S)
<1> DEFINE T == {b - x : x \in S}
<1>1. \A x \in S : b - x \in Nat
    OBVIOUS
<1>1a. T \in SUBSET Nat /\ T # {}
    BY <1>1
<1>2. Min(T) \in T /\ \A y \in T : Min(T) <= y
    BY <1>1a, MinExists
<1>3. PICK x \in S : Min(T) = b - x
    BY <1>2
<1>4. \A y \in S : b - x <= b - y
    BY <1>2, <1>3
<1>5. \A y \in S : x >= y
    BY <1>4
<1>6. Max(S) \in S /\ \A y \in S : Max(S) >= y
    BY <1>5 DEF Max
<1> QED
    BY <1>6
-----------------------------------------------------------------------------
(* The next number.                                                        *)

\* The numbers of an entry are positive and bounded.
LEMMA NumbersType ==
    ASSUME NEW entry \in Allocations
    PROVE  Numbers(entry) \subseteq 1..MaxNumber
<1>1. /\ Range(entry.members) \subseteq 1..MaxNumber
      /\ Range(entry.reservations) \subseteq 1..MaxNumber
    BY DEF Allocations, Numberings, Range
<1> QED
    BY <1>1 DEF Numbers

\* The next number is greater than all numbers of the entry, and is the
\* successor of one of them unless there are none.
LEMMA NextNumberIsNext ==
    ASSUME NEW entry \in Allocations
    PROVE  /\ NextNumber(entry) \in Nat \ {0}
           /\ \A k \in Numbers(entry) : k < NextNumber(entry)
           /\ NextNumber(entry) - 1 \in Numbers(entry) \cup {0}
<1> DEFINE S == Numbers(entry) \cup {0}
<1>1. S \in SUBSET Nat /\ S # {} /\ \A x \in S : x <= MaxNumber
    BY NumbersType, ConstantsAssumption
<1> HIDE DEF S
<1>2. Max(S) \in S /\ \A y \in S : y <= Max(S)
    BY <1>1, MaxExists, ConstantsAssumption
<1>3. NextNumber(entry) = Max(S) + 1
    BY DEF NextNumber, S
<1>4. Max(S) \in Nat
    BY <1>1, <1>2
<1>5. NextNumber(entry) - 1 = Max(S)
    BY <1>3, <1>4
<1>6. \A k \in Numbers(entry) : k \in Nat /\ k <= Max(S)
    BY <1>1, <1>2 DEF S
<1>7. \A k \in Numbers(entry) : k < NextNumber(entry)
    BY <1>3, <1>4, <1>6
<1>8. NextNumber(entry) \in Nat \ {0}
    BY <1>3, <1>4
<1> QED
    BY <1>2, <1>5, <1>7, <1>8 DEF S

-----------------------------------------------------------------------------
(* The order of the walk.                                                  *)

\* A member that is seen has a first version and a place there.
LEMMA FirstSeen ==
    ASSUME NEW history \in Seq(MemberLists), NEW n \in Seen(history)
    PROVE  LET v == FirstVersion(history, n)
               i == Place(history[v], n)
           IN  /\ v \in Nat /\ v \in DOMAIN history
               /\ i \in Nat /\ i \in DOMAIN history[v] /\ history[v][i] = n
<1> DEFINE V == {w \in DOMAIN history : n \in Range(history[w])}
           v == FirstVersion(history, n)
<1>1. V \in SUBSET Nat /\ V # {}
    BY DEF Seen
<1>2. v \in V
    BY <1>1, MinExists DEF FirstVersion
<1>3. \E i \in DOMAIN history[v] : history[v][i] = n
    BY <1>2 DEF Range
<1>4. history[v] \in MemberLists
    BY <1>2
<1>5. DOMAIN history[v] \subseteq Nat
    BY <1>4 DEF MemberLists
<1> QED
    BY <1>1, <1>2, <1>3, <1>5 DEF Place

\* The walk meets any two members one after the other.
LEMMA SeenBeforeIsTotal ==
    ASSUME NEW history \in Seq(MemberLists),
           NEW m \in Seen(history), NEW n \in Seen(history), m # n
    PROVE  SeenBefore(history, m, n) \/ SeenBefore(history, n, m)
<1>1. FirstVersion(history, m) \in Nat /\ FirstVersion(history, n) \in Nat
    BY FirstSeen
<1>2. CASE FirstVersion(history, m) # FirstVersion(history, n)
    BY <1>1, <1>2 DEF SeenBefore
<1>3. CASE FirstVersion(history, m) = FirstVersion(history, n)
  <2> DEFINE v == FirstVersion(history, m)
             i == Place(history[v], m)
             j == Place(history[v], n)
  <2>1. i \in Nat /\ j \in Nat /\ history[v][i] = m /\ history[v][j] = n
      BY <1>3, FirstSeen
  <2>2. i < j \/ j < i
      BY <2>1
  <2> QED
      BY <1>3, <2>2 DEF SeenBefore
<1> QED
    BY <1>2, <1>3

\* The order is strict and transitive.
LEMMA SeenBeforeIsStrict ==
    ASSUME NEW history \in Seq(MemberLists), NEW m \in Seen(history)
    PROVE  ~ SeenBefore(history, m, m)
BY FirstSeen DEF SeenBefore

LEMMA SeenBeforeIsTransitive ==
    ASSUME NEW history \in Seq(MemberLists), NEW l \in Seen(history),
           NEW m \in Seen(history), NEW n \in Seen(history),
           SeenBefore(history, l, m), SeenBefore(history, m, n)
    PROVE  SeenBefore(history, l, n)
<1> DEFINE First(x) == FirstVersion(history, x)
           At(x) == Place(history[First(x)], x)
<1>1. /\ First(l) \in Nat /\ First(m) \in Nat /\ First(n) \in Nat
      /\ At(l) \in Nat /\ At(m) \in Nat /\ At(n) \in Nat
    BY FirstSeen
<1>2. /\ First(l) < First(m) \/ (First(l) = First(m) /\ At(l) < At(m))
      /\ First(m) < First(n) \/ (First(m) = First(n) /\ At(m) < At(n))
    BY DEF SeenBefore
<1> HIDE DEF First, At
<1>3. First(l) < First(n) \/ (First(l) = First(n) /\ At(l) < At(n))
    BY <1>1, <1>2
<1> QED
    BY <1>3 DEF SeenBefore, First, At

-----------------------------------------------------------------------------
(* Fresh numbers.                                                          *)

\* A version declares members.
LEMMA SeenAreMembers ==
    ASSUME NEW history \in Seq(MemberLists)
    PROVE  Seen(history) \subseteq Members
<1> SUFFICES ASSUME NEW v \in DOMAIN history
             PROVE  Range(history[v]) \subseteq Members
    BY DEF Seen
<1>1. history[v] \in MemberLists
    OBVIOUS
<1>2. PICK n \in 1..Cardinality(Members) : history[v] \in [1..n -> Members]
    BY <1>1 DEF MemberLists
<1> QED
    BY <1>2 DEF Range

\* The rank that the walk gives to a member is a number, and greater for the
\* member that is met later.
LEMMA RankGrows ==
    ASSUME NEW history \in Seq(MemberLists),
           NEW U \in SUBSET Seen(history), NEW m \in U, NEW n \in U,
           SeenBefore(history, m, n)
    PROVE  LET rank(x) == Cardinality({l \in U : SeenBefore(history, l, x)})
           IN  rank(m) \in Nat /\ rank(n) \in Nat /\ rank(m) < rank(n)
<1> DEFINE Before(x) == {l \in U : SeenBefore(history, l, x)}
<1>1. IsFiniteSet(U)
    BY SeenAreMembers, ConstantsAssumption, FS_Subset
<1>2. Before(m) \subseteq Before(n)
    BY SeenBeforeIsTransitive
<1>3. m \in Before(n) /\ m \notin Before(m)
    BY SeenBeforeIsStrict
<1>4. IsFiniteSet(Before(n)) /\ IsFiniteSet(Before(m))
    BY <1>1, FS_Subset
<1> HIDE DEF Before
<1>5. Cardinality(Before(m)) \in Nat /\ Cardinality(Before(n)) \in Nat
    BY <1>4, FS_CardinalityType
<1>6. Cardinality(Before(m)) <= Cardinality(Before(n))
    BY <1>2, <1>4, FS_Subset
<1>7. Cardinality(Before(n)) # Cardinality(Before(m))
    BY <1>2, <1>3, <1>4, FS_Subset
<1>8. Cardinality(Before(m)) < Cardinality(Before(n))
    BY <1>5, <1>6, <1>7
<1> QED
    BY <1>5, <1>8 DEF Before

\* A fresh number exceeds all numbers of the entry.
LEMMA FreshIsNew ==
    ASSUME NEW history \in Seq(MemberLists), NEW entry \in Allocations,
           NEW n \in Unnumbered(history, entry)
    PROVE  Fresh(history, entry, n) \in Nat
           /\ Fresh(history, entry, n) >= NextNumber(entry)
<1> DEFINE B == {m \in Unnumbered(history, entry) : SeenBefore(history, m, n)}
<1>1. B \subseteq Members
    BY SeenAreMembers DEF Unnumbered
<1>2. IsFiniteSet(B)
    BY <1>1, ConstantsAssumption, FS_Subset
<1>3. Cardinality(B) \in Nat
    BY <1>2, FS_CardinalityType
<1>4. NextNumber(entry) \in Nat
    BY NextNumberIsNext
<1>5. Fresh(history, entry, n) = NextNumber(entry) + Cardinality(B)
    BY DEF Fresh
<1> QED
    BY <1>3, <1>4, <1>5

\* Two members get different fresh numbers.
LEMMA FreshIsInjective ==
    ASSUME NEW history \in Seq(MemberLists), NEW entry \in Allocations,
           NEW m \in Unnumbered(history, entry),
           NEW n \in Unnumbered(history, entry), m # n
    PROVE  Fresh(history, entry, m) # Fresh(history, entry, n)
<1> DEFINE U == Unnumbered(history, entry)
           Rank(x) == Cardinality({l \in U : SeenBefore(history, l, x)})
<1>1. U \in SUBSET Seen(history)
    BY DEF Unnumbered
<1>2. SeenBefore(history, m, n) \/ SeenBefore(history, n, m)
    BY <1>1, SeenBeforeIsTotal
<1>3. SeenBefore(history, m, n) =>
        Rank(m) \in Nat /\ Rank(n) \in Nat /\ Rank(m) < Rank(n)
    BY <1>1, RankGrows
<1>4. SeenBefore(history, n, m) =>
        Rank(m) \in Nat /\ Rank(n) \in Nat /\ Rank(n) < Rank(m)
    BY <1>1, RankGrows
<1>5. /\ Fresh(history, entry, m) = NextNumber(entry) + Rank(m)
      /\ Fresh(history, entry, n) = NextNumber(entry) + Rank(n)
    BY DEF Fresh
<1>6. NextNumber(entry) \in Nat
    BY NextNumberIsNext
<1> HIDE DEF Rank
<1> QED
    BY <1>2, <1>3, <1>4, <1>5, <1>6

-----------------------------------------------------------------------------
(* One allocation.                                                         *)

\* What the lemmas below assume of a history and of the entry it is allocated
\* against.
Allocatable(history, entry) ==
    /\ history \in Seq(MemberLists) /\ history # <<>>
    /\ entry \in Allocations /\ Unambiguous(entry)
    /\ Reintroduced(history, entry) = {}

\* The latest members are seen.
LEMMA LatestIsSeen ==
    ASSUME NEW history \in Seq(MemberLists), history # <<>>
    PROVE  Latest(history) \subseteq Seen(history)
<1>1. Len(history) \in DOMAIN history
    OBVIOUS
<1> QED
    BY <1>1 DEF Latest, Seen

\* A member has its old number, or one that is greater than all numbers of
\* the entry.
LEMMA NumberOldOrNew ==
    ASSUME NEW history, NEW entry, Allocatable(history, entry),
           NEW n \in DOMAIN entry.members \cup Seen(history)
    PROVE  \/ /\ n \in DOMAIN entry.members
              /\ NumberOf(history, entry, n) = entry.members[n]
              /\ entry.members[n] \in Numbers(entry)
           \/ /\ n \in Unnumbered(history, entry)
              /\ NumberOf(history, entry, n) = Fresh(history, entry, n)
              /\ Fresh(history, entry, n) \in Nat
              /\ Fresh(history, entry, n) >= NextNumber(entry)
<1>1. CASE n \in DOMAIN entry.members
    BY <1>1 DEF NumberOf, Numbers, Range
<1>2. CASE n \notin DOMAIN entry.members
  <2>1. n \in Unnumbered(history, entry)
      BY <1>2 DEF Unnumbered
  <2> QED
      BY <1>2, <2>1, FreshIsNew DEF NumberOf, Allocatable
<1> QED
    BY <1>1, <1>2

\* No two members have the same number.
LEMMA NumberOfIsInjective ==
    ASSUME NEW history, NEW entry, Allocatable(history, entry),
           NEW m \in DOMAIN entry.members \cup Seen(history),
           NEW n \in DOMAIN entry.members \cup Seen(history), m # n
    PROVE  NumberOf(history, entry, m) # NumberOf(history, entry, n)
<1> DEFINE Old(x) == /\ x \in DOMAIN entry.members
                     /\ NumberOf(history, entry, x) = entry.members[x]
                     /\ entry.members[x] \in Numbers(entry)
           New(x) == /\ x \in Unnumbered(history, entry)
                     /\ NumberOf(history, entry, x) = Fresh(history, entry, x)
                     /\ Fresh(history, entry, x) \in Nat
                     /\ Fresh(history, entry, x) >= NextNumber(entry)
<1>1. (Old(m) \/ New(m)) /\ (Old(n) \/ New(n))
    BY NumberOldOrNew
<1>2. /\ NextNumber(entry) \in Nat
      /\ \A k \in Numbers(entry) : k \in Nat /\ k < NextNumber(entry)
    BY NextNumberIsNext, NumbersType DEF Allocatable
<1>3. CASE Old(m) /\ Old(n)
    BY <1>3 DEF Allocatable, Unambiguous, IsInjective
<1>4. CASE New(m) /\ New(n)
    BY <1>4, FreshIsInjective DEF Allocatable
<1>5. CASE Old(m) /\ New(n)
    BY <1>2, <1>5
<1>6. CASE New(m) /\ Old(n)
    BY <1>2, <1>6
<1> QED
    BY <1>1, <1>3, <1>4, <1>5, <1>6

\* No member has the number of a reservation.
LEMMA NumberOfIsNotReserved ==
    ASSUME NEW history, NEW entry, Allocatable(history, entry),
           NEW m \in DOMAIN entry.members \cup Seen(history),
           NEW n \in DOMAIN entry.reservations
    PROVE  NumberOf(history, entry, m) # entry.reservations[n]
<1>1. entry.reservations[n] \in Numbers(entry)
    BY DEF Numbers, Range
<1>2. /\ NextNumber(entry) \in Nat
      /\ \A k \in Numbers(entry) : k \in Nat /\ k < NextNumber(entry)
    BY NextNumberIsNext, NumbersType DEF Allocatable
<1>3. CASE m \in DOMAIN entry.members
  <2>1. entry.members[m] \in Range(entry.members)
        /\ entry.reservations[n] \in Range(entry.reservations)
      BY <1>3 DEF Range
  <2>2. entry.members[m] # entry.reservations[n]
      BY <2>1 DEF Allocatable, Unambiguous
  <2> QED
      BY <1>3, <2>2 DEF NumberOf
<1>4. CASE m \notin DOMAIN entry.members
    BY <1>1, <1>2, <1>4, NumberOldOrNew
<1> QED
    BY <1>3, <1>4

\* The names of the new entry.
LEMMA AllocatedNames ==
    ASSUME NEW history, NEW entry, Allocatable(history, entry)
    PROVE  LET new == Allocated(history, entry)
           IN  /\ DOMAIN new.members = Latest(history)
               /\ DOMAIN new.reservations =
                    DOMAIN entry.reservations \cup Removed(history, entry)
               /\ \A n \in Latest(history) :
                    new.members[n] = NumberOf(history, entry, n)
               /\ \A n \in Removed(history, entry) :
                    new.reservations[n] = NumberOf(history, entry, n)
               /\ \A n \in DOMAIN entry.reservations \ Removed(history, entry) :
                    new.reservations[n] = entry.reservations[n]
               /\ Latest(history) \cup Removed(history, entry) =
                    DOMAIN entry.members \cup Seen(history)
               /\ Latest(history) \cap DOMAIN new.reservations = {}
<1>1. Latest(history) \subseteq Seen(history)
    BY LatestIsSeen DEF Allocatable
<1> QED
    BY <1>1 DEF Allocated, Removed, Allocatable, Reintroduced

\* The new entry is unambiguous again.
LEMMA AllocatedUnambiguous ==
    ASSUME NEW history, NEW entry, Allocatable(history, entry)
    PROVE  Unambiguous(Allocated(history, entry))
<1> DEFINE new == Allocated(history, entry)
           Walked == DOMAIN entry.members \cup Seen(history)
           N(n) == NumberOf(history, entry, n)
<1>1. /\ DOMAIN new.members \subseteq Walked
      /\ \A n \in DOMAIN new.members : new.members[n] = N(n)
    BY AllocatedNames
<1>2. \A n \in DOMAIN new.reservations :
        \/ n \in Walked /\ new.reservations[n] = N(n)
        \/ n \in DOMAIN entry.reservations
           /\ new.reservations[n] = entry.reservations[n]
    BY AllocatedNames
<1>3. DOMAIN new.members \cap DOMAIN new.reservations = {}
    BY AllocatedNames
<1>4. \A m, n \in Walked : m # n => N(m) # N(n)
    BY NumberOfIsInjective
<1>5. \A m \in Walked, n \in DOMAIN entry.reservations :
        N(m) # entry.reservations[n]
    BY NumberOfIsNotReserved
<1>6. \A m, n \in DOMAIN entry.reservations :
        m # n => entry.reservations[m] # entry.reservations[n]
    BY DEF Allocatable, Unambiguous, IsInjective
<1> HIDE DEF new, Walked, N
<1>7. IsInjective(new.members)
    BY <1>1, <1>4 DEF IsInjective
<1>8. IsInjective(new.reservations)
    BY <1>2, <1>4, <1>5, <1>6 DEF IsInjective
<1>9. Range(new.members) \cap Range(new.reservations) = {}
  <2> SUFFICES ASSUME NEW m \in DOMAIN new.members,
                      NEW n \in DOMAIN new.reservations
               PROVE  new.members[m] # new.reservations[n]
      BY DEF Range
  <2>1. m # n /\ m \in Walked /\ new.members[m] = N(m)
      BY <1>1, <1>3
  <2> QED
      BY <1>2, <1>4, <1>5, <2>1
<1> QED
    BY <1>3, <1>7, <1>8, <1>9 DEF Unambiguous, new

\* Its next number is not smaller.
LEMMA NextNumberGrows ==
    ASSUME NEW history, NEW entry, Allocatable(history, entry),
           Allocated(history, entry) \in Allocations
    PROVE  NextNumber(entry) <= NextNumber(Allocated(history, entry))
<1> DEFINE new == Allocated(history, entry)
           old == NextNumber(entry) - 1
<1>1. /\ NextNumber(entry) \in Nat \ {0} /\ NextNumber(new) \in Nat \ {0}
      /\ \A k \in Numbers(new) : k \in Nat /\ k < NextNumber(new)
      /\ old \in Numbers(entry) \cup {0}
    BY NextNumberIsNext, NumbersType DEF Allocatable
<1>2. \A n \in DOMAIN entry.members \cup Seen(history) :
         NumberOf(history, entry, n) \in Numbers(new)
    BY AllocatedNames DEF Numbers, Range
<1>3. CASE old = 0
    BY <1>1, <1>3
<1>4. CASE old \in Range(entry.members)
  <2>1. PICK n \in DOMAIN entry.members : entry.members[n] = old
      BY <1>4 DEF Range
  <2>2. old \in Numbers(new)
      BY <1>2, <2>1 DEF NumberOf
  <2> QED
      BY <1>1, <2>2
<1>5. CASE old \in Range(entry.reservations)
  <2>1. PICK n \in DOMAIN entry.reservations : entry.reservations[n] = old
      BY <1>5 DEF Range
  <2>2. CASE n \in Removed(history, entry)
    <3>1. n \in Seen(history) /\ n \in Unnumbered(history, entry)
        BY <2>1, <2>2 DEF Allocatable, Unambiguous, Removed, Unnumbered
    <3>2. NumberOf(history, entry, n) \in Nat
          /\ NumberOf(history, entry, n) >= NextNumber(entry)
        BY <3>1, FreshIsNew DEF Allocatable, NumberOf, Unnumbered
    <3>3. NumberOf(history, entry, n) < NextNumber(new)
        BY <1>1, <1>2, <3>1
    <3>4. NextNumber(entry) \in Nat /\ NextNumber(new) \in Nat
        BY <1>1
    <3> QED
        BY <3>2, <3>3, <3>4
  <2>3. CASE n \notin Removed(history, entry)
    <3>1. old \in Numbers(new)
        BY <2>1, <2>3, AllocatedNames DEF Numbers, Range
    <3> QED
        BY <1>1, <3>1
  <2> QED
      BY <2>2, <2>3
<1> QED
    BY <1>1, <1>3, <1>4, <1>5 DEF Numbers

-----------------------------------------------------------------------------
(* Types.                                                                  *)

\* The source stays a list of versions.
LEMMA SourceTyped ==
    ASSUME TypeOK, NEW d \in Declarations, AddVersion(d) \/ DeleteVersion(d)
    PROVE  source' \in [Declarations -> Seq(MemberLists)]
<1>1. source[d] \in Seq(MemberLists)
    BY DEF TypeOK
<1>2. CASE AddVersion(d)
  <2>1. PICK list \in MemberLists :
           source' = [source EXCEPT ![d] = Append(@, list)]
      BY <1>2 DEF AddVersion
  <2>2. Append(source[d], list) \in Seq(MemberLists)
      BY <1>1
  <2> QED
      BY <2>1, <2>2 DEF TypeOK
<1>3. CASE DeleteVersion(d)
  <2>1. SubSeq(source[d], 1, Len(source[d]) - 1) \in Seq(MemberLists)
      BY <1>1, <1>3 DEF DeleteVersion
  <2> QED
      BY <1>3, <2>1 DEF DeleteVersion, TypeOK
<1> QED
    BY <1>2, <1>3

\* No entry is an entry.
LEMMA NoEntryTyped ==
    NoEntry \in Allocations /\ Unambiguous(NoEntry) /\ Numbers(NoEntry) = {}
<1>1. Nothing \in [{} -> 1..MaxNumber] /\ {} \in SUBSET Members
    BY DEF Nothing
<1>2. Nothing \in Numberings
    BY <1>1 DEF Numberings
<1>3. DOMAIN Nothing = {}
    BY DEF Nothing
<1> QED
    BY <1>2, <1>3 DEF NoEntry, Allocations, Unambiguous, IsInjective, Range,
       Numbers

\* An allocation within the bound is an entry.
LEMMA AllocatedTyped ==
    ASSUME NEW history, NEW entry, Allocatable(history, entry),
           Numbers(Allocated(history, entry)) \subseteq 1..MaxNumber
    PROVE  Allocated(history, entry) \in Allocations
<1> DEFINE new == Allocated(history, entry)
<1>1. DOMAIN entry.members \subseteq Members
      /\ DOMAIN entry.reservations \subseteq Members
    BY DEF Allocatable, Allocations, Numberings
<1>2. Latest(history) \subseteq Members /\ Removed(history, entry) \subseteq Members
    BY <1>1, SeenAreMembers, LatestIsSeen DEF Allocatable, Removed
<1>3. /\ DOMAIN new.members \in SUBSET Members
      /\ DOMAIN new.reservations \in SUBSET Members
    BY <1>1, <1>2, AllocatedNames
<1>4. /\ \A n \in DOMAIN new.members : new.members[n] \in 1..MaxNumber
      /\ \A n \in DOMAIN new.reservations : new.reservations[n] \in 1..MaxNumber
    BY DEF Numbers, Range
<1>5. /\ new.members = [n \in DOMAIN new.members |-> new.members[n]]
      /\ new.reservations = [n \in DOMAIN new.reservations |-> new.reservations[n]]
      /\ new = [members |-> new.members, reservations |-> new.reservations]
    BY DEF Allocated
<1>6. new.members \in Numberings /\ new.reservations \in Numberings
  <2> HIDE DEF new
  <2>1. /\ new.members \in [DOMAIN new.members -> 1..MaxNumber]
        /\ new.reservations \in [DOMAIN new.reservations -> 1..MaxNumber]
      BY <1>4, <1>5
  <2> QED
      BY <1>3, <2>1 DEF Numberings
<1> QED
    BY <1>5, <1>6 DEF Allocations

-----------------------------------------------------------------------------
(* The invariant.                                                          *)

\* What was given and where it is now: an entry holds pairs that were given,
\* and nothing that was ever given is beyond its next number.
Accounted(d) ==
    /\ OneOwner(given[d])
    /\ Pairs(ledger[d].members) \cup Pairs(ledger[d].reservations)
          \subseteq given[d]
    /\ \A p \in given[d] : p[2] < NextNumber(ledger[d])

AllAccounted == \A d \in Declarations \ lapsed : Accounted(d)

Inv == TypeOK /\ LedgerUnambiguous /\ AllAccounted

\* It holds initially.
LEMMA InvInit == Init => Inv
<1> SUFFICES ASSUME Init PROVE Inv
    OBVIOUS
<1>1. TypeOK
    BY NoEntryTyped DEF Init, TypeOK
<1>2. LedgerUnambiguous
    BY NoEntryTyped DEF Init, LedgerUnambiguous
<1>3. ASSUME NEW d \in Declarations PROVE Accounted(d)
  <2>1. Pairs(NoEntry.members) = {} /\ Pairs(NoEntry.reservations) = {}
      BY DEF NoEntry, Pairs, Nothing
  <2> QED
      BY <2>1 DEF Init, Accounted, OneOwner
<1> QED
    BY <1>1, <1>2, <1>3 DEF Inv, AllAccounted

\* A declared entry can be allocated against when nothing is reintroduced.
LEMMA CompileAllocates ==
    ASSUME Inv, Compile, NEW d \in Declared
    PROVE  /\ Allocatable(source[d], ledger[d])
           /\ ledger'[d] = Allocated(source[d], ledger[d])
           /\ ledger'[d] \in Allocations
           /\ Unambiguous(ledger'[d])
           /\ NextNumber(ledger[d]) <= NextNumber(ledger'[d])
<1>1. Allocatable(source[d], ledger[d])
    BY DEF Inv, TypeOK, LedgerUnambiguous, Compile, Declared, Allocatable
<1>2. ledger'[d] = Allocated(source[d], ledger[d])
    BY DEF Compile, NextLedger, Declared
<1>3. Allocated(source[d], ledger[d]) \in Allocations
    BY <1>1, AllocatedTyped DEF Compile
<1> QED
    BY <1>1, <1>2, <1>3, AllocatedUnambiguous, NextNumberGrows

\* The pairs of an entry are pairs of a member and a number.
LEMMA PairsTyped ==
    ASSUME NEW entry \in Allocations
    PROVE  /\ Pairs(entry.members) \subseteq Members \X (1..MaxNumber)
           /\ Pairs(entry.reservations) \subseteq Members \X (1..MaxNumber)
BY DEF Allocations, Numberings, Pairs

\* A pair of the new entry is one of the old entry or has a number that was
\* never given.
LEMMA PairsOldOrNew ==
    ASSUME NEW history, NEW entry, Allocatable(history, entry),
           NEW p \in Pairs(Allocated(history, entry).members)
                       \cup Pairs(Allocated(history, entry).reservations)
    PROVE  \/ p \in Pairs(entry.members) \cup Pairs(entry.reservations)
           \/ p[2] \in Nat /\ p[2] >= NextNumber(entry)
<1> DEFINE new == Allocated(history, entry)
<1>1. ASSUME NEW n \in DOMAIN entry.members \cup Seen(history),
             p = <<n, NumberOf(history, entry, n)>>
      PROVE  \/ p \in Pairs(entry.members)
             \/ p[2] \in Nat /\ p[2] >= NextNumber(entry)
    BY <1>1, NumberOldOrNew DEF Pairs
<1>2. CASE p \in Pairs(new.members)
    BY <1>1, <1>2, AllocatedNames DEF Pairs
<1>3. CASE p \in Pairs(new.reservations)
  <2>1. PICK n \in DOMAIN new.reservations : p = <<n, new.reservations[n]>>
      BY <1>3 DEF Pairs
  <2>2. CASE n \in Removed(history, entry)
      BY <1>1, <2>1, <2>2, AllocatedNames
  <2>3. CASE n \notin Removed(history, entry)
      BY <2>1, <2>3, AllocatedNames DEF Pairs
  <2> QED
      BY <2>2, <2>3
<1> QED
    BY <1>2, <1>3

\* No two pairs of an unambiguous entry share a number.
LEMMA PairsHaveOneOwner ==
    ASSUME NEW entry \in Allocations, Unambiguous(entry)
    PROVE  OneOwner(Pairs(entry.members) \cup Pairs(entry.reservations))
BY DEF OneOwner, Pairs, Unambiguous, IsInjective, Range

\* A compilation keeps account of a declaration it finds in the source.
LEMMA CompileAccounts ==
    ASSUME Inv, Compile, NEW d \in Declared, d \notin lapsed
    PROVE  Accounted(d)'
<1> DEFINE new == Pairs(ledger'[d].members) \cup Pairs(ledger'[d].reservations)
           old == Pairs(ledger[d].members) \cup Pairs(ledger[d].reservations)
<1>1. /\ Allocatable(source[d], ledger[d])
      /\ ledger'[d] = Allocated(source[d], ledger[d])
      /\ ledger'[d] \in Allocations /\ Unambiguous(ledger'[d])
      /\ NextNumber(ledger[d]) <= NextNumber(ledger'[d])
    BY CompileAllocates
<1>2. Accounted(d) /\ d \in Declarations
    BY DEF Inv, AllAccounted, Declared
<1>3. given'[d] = given[d] \cup new
    BY <1>2 DEF Compile
<1>4. /\ NextNumber(ledger[d]) \in Nat /\ NextNumber(ledger'[d]) \in Nat
      /\ \A k \in Numbers(ledger'[d]) : k \in Nat /\ k < NextNumber(ledger'[d])
    BY <1>1, NextNumberIsNext, NumbersType DEF Allocatable
<1>5. \A p \in given[d] : p[2] \in Nat
    BY <1>2 DEF Inv, TypeOK
<1>6. \A p \in new : p[2] \in Numbers(ledger'[d])
    BY DEF Pairs, Numbers, Range
<1>7. \A p \in new : p \in given[d] \/ p[2] >= NextNumber(ledger[d])
    BY <1>1, <1>2, PairsOldOrNew DEF Accounted
<1>8. OneOwner(new)
    BY <1>1, PairsHaveOneOwner
<1> HIDE DEF new
<1>9. OneOwner(given[d] \cup new)
  <2> SUFFICES ASSUME NEW p \in given[d] \cup new, NEW q \in given[d] \cup new,
                      p[2] = q[2]
               PROVE  p[1] = q[1]
      BY DEF OneOwner
  <2>1. p \in given[d] /\ q \in given[d] => p[1] = q[1]
      BY <1>2 DEF Accounted, OneOwner
  <2>2. p \in new /\ q \in new => p[1] = q[1]
      BY <1>8 DEF OneOwner
  <2>3. p \in given[d] /\ q \in new => q \in given[d]
      BY <1>2, <1>4, <1>5, <1>7 DEF Accounted
  <2>4. p \in new /\ q \in given[d] => p \in given[d]
      BY <1>2, <1>4, <1>5, <1>7 DEF Accounted
  <2> QED
      BY <2>1, <2>2, <2>3, <2>4
<1>10. \A p \in given[d] \cup new : p[2] < NextNumber(ledger'[d])
    BY <1>1, <1>2, <1>4, <1>5, <1>6 DEF Accounted
<1> QED
    BY <1>3, <1>9, <1>10 DEF Accounted, new

\* A declaration that the source does not have and whose entry is not dropped
\* had none.
LEMMA CompileSkips ==
    ASSUME Inv, Compile, NEW d \in Declarations \ Declared
    PROVE  /\ ledger'[d] = NoEntry
           /\ d \notin lapsed' => Accounted(d)'
<1>1. ledger'[d] = NoEntry
    BY DEF Compile, NextLedger
<1>2. ASSUME d \notin lapsed'
      PROVE  Accounted(d)'
  <2>1. d \notin lapsed /\ ledger[d] = NoEntry
      BY <1>2 DEF Compile
  <2>2. Pairs(NoEntry.members) = {} /\ Pairs(NoEntry.reservations) = {}
      BY DEF NoEntry, Pairs, Nothing
  <2>3. given'[d] = given[d]
      BY <1>1, <2>2 DEF Compile
  <2>4. Accounted(d)
      BY <2>1 DEF Inv, AllAccounted
  <2> QED
      BY <1>1, <2>1, <2>3, <2>4 DEF Accounted
<1> QED
    BY <1>1, <1>2

\* A compilation keeps the invariant.
LEMMA CompileKeepsInv == Inv /\ Compile => Inv'
<1> SUFFICES ASSUME Inv, Compile PROVE Inv'
    OBVIOUS
<1>1. \A d \in Declarations : ledger'[d] \in Allocations /\ Unambiguous(ledger'[d])
    BY CompileAllocates, CompileSkips, NoEntryTyped DEF Declared
<1>2. ledger' \in [Declarations -> Allocations]
    BY <1>1 DEF Compile, NextLedger
<1>3. given' \in [Declarations -> SUBSET (Members \X (1..MaxNumber))]
  <2>1. \A d \in Declarations :
           given[d] \cup Pairs(ledger'[d].members)
                    \cup Pairs(ledger'[d].reservations)
             \in SUBSET (Members \X (1..MaxNumber))
      BY <1>1, PairsTyped DEF Inv, TypeOK
  <2> QED
      BY <2>1 DEF Compile
<1>4. TypeOK'
    BY <1>2, <1>3 DEF Inv, TypeOK, Compile
<1>5. LedgerUnambiguous'
    BY <1>1 DEF LedgerUnambiguous
<1>6. ASSUME NEW d \in Declarations, d \notin lapsed' PROVE Accounted(d)'
  <2>1. d \notin lapsed
      BY <1>6 DEF Compile
  <2> QED
      BY <1>6, <2>1, CompileAccounts, CompileSkips DEF Declared
<1> QED
    BY <1>4, <1>5, <1>6 DEF Inv, AllAccounted

\* So does every step.
LEMMA InvStep == Inv /\ [Next]_vars => Inv'
<1> SUFFICES ASSUME Inv, [Next]_vars PROVE Inv'
    OBVIOUS
<1>1. ASSUME NEW d \in Declarations, AddVersion(d) \/ DeleteVersion(d)
      PROVE  Inv'
  <2>1. source' \in [Declarations -> Seq(MemberLists)]
      BY <1>1, SourceTyped DEF Inv
  <2>2. UNCHANGED <<ledger, given, lapsed>>
      BY <1>1 DEF AddVersion, DeleteVersion
  <2> QED
      BY <2>1, <2>2 DEF Inv, TypeOK, LedgerUnambiguous, AllAccounted, Accounted
<1>2. CASE Compile
    BY <1>2, CompileKeepsInv
<1>3. CASE UNCHANGED vars
    BY <1>3 DEF vars, Inv, TypeOK, LedgerUnambiguous, AllAccounted, Accounted
<1> QED
    BY <1>1, <1>2, <1>3 DEF Next

LEMMA Invariant == Spec => []Inv
BY InvInit, InvStep, PTL DEF Spec

-----------------------------------------------------------------------------
(* Results.                                                                *)

\* Every variable keeps its type.
THEOREM TypeCorrect == Spec => []TypeOK
<1>1. Inv => TypeOK
    BY DEF Inv
<1> QED
    BY <1>1, Invariant, PTL

\* No entry of the ledger ever has one name for two things or one number for
\* two names.
THEOREM AlwaysUnambiguous == Spec => []LedgerUnambiguous
<1>1. Inv => LedgerUnambiguous
    BY DEF Inv
<1> QED
    BY <1>1, Invariant, PTL

\* Whatever is done to the source, no compilation gives a number again that
\* an earlier one gave to another member, unless the entry was dropped.
THEOREM NeverReused == Spec => []NumberNeverReused
<1>1. Inv => NumberNeverReused
    BY DEF Inv, AllAccounted, Accounted, NumberNeverReused
<1> QED
    BY <1>1, Invariant, PTL

\* While versions are only added, the unless is void: numbers are never
\* reassigned.
THEOREM AdditiveNeverReassigned == AdditiveSpec => []NumberNeverReassigned
<1> DEFINE Kept == /\ lapsed = {}
                   /\ \A d \in Declarations : source[d] = <<>> => ledger[d] = NoEntry
                   /\ Inv
           Step == (\E d \in Declarations : AddVersion(d)) \/ Compile
<1>1. Init => Kept
    BY InvInit DEF Init
<1>2. Kept /\ [Step]_vars => Kept'
  <2> SUFFICES ASSUME Kept, [Step]_vars PROVE Kept'
      OBVIOUS
  <2>1. Inv'
      BY InvStep DEF Next
  <2>2. ASSUME NEW d \in Declarations, AddVersion(d)
        PROVE  Kept'
    <3>1. PICK list \in MemberLists :
             source' = [source EXCEPT ![d] = Append(@, list)]
        BY <2>2 DEF AddVersion
    <3>2. Append(source[d], list) # <<>>
      <4>1. source[d] \in Seq(MemberLists)
          BY DEF Inv, TypeOK
      <4>2. Len(Append(source[d], list)) = Len(source[d]) + 1
          BY <4>1
      <4> QED
          BY <4>1, <4>2
    <3>3. \A e \in Declarations : source'[e] = <<>> => source[e] = <<>>
        BY <3>1, <3>2 DEF Inv, TypeOK
    <3>4. ledger' = ledger /\ lapsed' = lapsed
        BY <2>2 DEF AddVersion
    <3> HIDE DEF Inv
    <3>5. \A e \in Declarations : source'[e] = <<>> => ledger'[e] = NoEntry
        BY <3>3, <3>4
    <3> QED
        BY <2>1, <3>4, <3>5
  <2>3. CASE Compile
    <3>1. lapsed' = {}
        BY <2>3 DEF Compile, Declared
    <3>2. \A d \in Declarations : source'[d] = <<>> => ledger'[d] = NoEntry
        BY <2>3, CompileSkips DEF Compile, Declared
    <3> QED
        BY <2>1, <3>1, <3>2
  <2>4. CASE UNCHANGED vars
      BY <2>1, <2>4 DEF vars
  <2> QED
      BY <2>2, <2>3, <2>4
<1>3. Kept => NumberNeverReassigned
    BY DEF Inv, AllAccounted, Accounted, NumberNeverReassigned
<1> QED
    BY <1>1, <1>2, <1>3, PTL DEF AdditiveSpec

\* A member that is live before and after a compilation keeps its number.
THEOREM LiveStable == Spec => LiveNumbersStable
<1> DEFINE A == \A d \in Declarations :
                  \A n \in DOMAIN ledger[d].members \cap DOMAIN ledger'[d].members :
                     ledger'[d].members[n] = ledger[d].members[n]
<1>1. Inv /\ [Next]_vars => [A]_vars
  <2> SUFFICES ASSUME Inv, Next, NEW d \in Declarations,
                      NEW n \in DOMAIN ledger[d].members
                                  \cap DOMAIN ledger'[d].members
               PROVE  ledger'[d].members[n] = ledger[d].members[n]
      OBVIOUS
  <2>1. CASE Compile
    <3>1. d \in Declared
        BY <2>1, CompileSkips DEF NoEntry, Nothing
    <3> QED
        BY <2>1, <3>1, CompileAllocates, AllocatedNames DEF NumberOf
  <2>2. CASE \E e \in Declarations : AddVersion(e) \/ DeleteVersion(e)
      BY <2>2 DEF AddVersion, DeleteVersion
  <2> QED
      BY <2>1, <2>2 DEF Next
<1> QED
    BY <1>1, Invariant, PTL DEF Spec, LiveNumbersStable

\* A removed member is never live again while its declaration is there.
THEOREM RemovedForEver == Spec => RemovedStaysRemoved
<1> DEFINE A == \A d \in Declared :
                  DOMAIN ledger[d].reservations \subseteq
                    DOMAIN ledger'[d].reservations \ DOMAIN ledger'[d].members
<1>1. Inv /\ [Next]_vars => [A]_vars
  <2> SUFFICES ASSUME Inv, Next, NEW d \in Declared
               PROVE  DOMAIN ledger[d].reservations \subseteq
                        DOMAIN ledger'[d].reservations \ DOMAIN ledger'[d].members
      OBVIOUS
  <2>1. CASE Compile
      BY <2>1, CompileAllocates, AllocatedNames
  <2>2. CASE \E e \in Declarations : AddVersion(e) \/ DeleteVersion(e)
    <3>1. ledger' = ledger
        BY <2>2 DEF AddVersion, DeleteVersion
    <3> QED
        BY <3>1 DEF Inv, LedgerUnambiguous, Unambiguous, Declared
  <2> QED
      BY <2>1, <2>2 DEF Next
<1> QED
    BY <1>1, Invariant, PTL DEF Spec, RemovedStaysRemoved

\* A compilation numbers every member of every declared version.
THEOREM AllNumbered == Spec => EveryMemberNumbered
<1> DEFINE A == ledger' # ledger =>
                  \A d \in Declared : Seen(source[d]) \subseteq Names(ledger'[d])
<1>1. Inv /\ [Next]_vars => [A]_vars
  <2> SUFFICES ASSUME Inv, Next, ledger' # ledger, NEW d \in Declared
               PROVE  Seen(source[d]) \subseteq Names(ledger'[d])
      OBVIOUS
  <2>1. Compile
      BY DEF Next, AddVersion, DeleteVersion
  <2> QED
      BY <2>1, CompileAllocates, AllocatedNames DEF Names
<1> QED
    BY <1>1, Invariant, PTL DEF Spec, EveryMemberNumbered
=============================================================================
