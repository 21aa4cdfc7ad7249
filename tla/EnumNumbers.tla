---------------------------- MODULE EnumNumbers ----------------------------
(***************************************************************************)
(* The ledger of Protobuf enum numbers, enum-numbers.lock                  *)
(* (registry/enum_numbers.py), over a long series of edits of the source   *)
(* and recompilations.                                                     *)
(*                                                                         *)
(* An enum-backed declaration has a history of versions, each a list of    *)
(* members without duplicates (validation/semantic.py rejects the others). *)
(* Compiling reads the ledger, gives a number to every member that has     *)
(* none, and replaces the ledger; the ledger reaches the workspace in the  *)
(* same atomic promotion as the artifacts (AtomicPromotion), so that one   *)
(* compilation is one step here.  A compilation that is refused because a  *)
(* removed member is back changes nothing, for any declaration.            *)
(***************************************************************************)
EXTENDS Naturals, FiniteSets, FiniteSetsExt, Functions, Sequences

CONSTANTS
    Declarations,   \* the qualified names a declaration may have
    Members,        \* the names a member may have
    MaxVersions,    \* bound: versions in the history of a declaration
    MaxNumber       \* bound: no compilation that needs a greater number

ASSUME ConstantsAssumption ==
    /\ IsFiniteSet(Members)
    /\ MaxVersions \in Nat
    /\ MaxNumber \in Nat

VARIABLES
    source,   \* the versions declared, lowest first; <<>> when not declared
    ledger,   \* the entry of each declaration; NoEntry when it has none
    given,    \* history only: the pairs of a name and a number ever written
    lapsed    \* history only: declarations whose entry was dropped

vars == <<source, ledger, given, lapsed>>

(***************************************************************************)
(* Data.                                                                   *)
(***************************************************************************)

\* What a version may declare: at least one member, none twice.
MemberLists ==
    {list \in UNION {[1..n -> Members] : n \in 1..Cardinality(Members)} :
        IsInjective(list)}

Numberings == UNION {[names -> 1..MaxNumber] : names \in SUBSET Members}

\* EnumNumberAllocation.  An absent entry and an empty one are the same to
\* _allocate_one, and no compilation writes an empty one.
Allocations == [members : Numberings, reservations : Numberings]

Nothing == [n \in {} |-> 0]

NoEntry == [members |-> Nothing, reservations |-> Nothing]

Numbers(entry) == Range(entry.members) \cup Range(entry.reservations)

Names(entry) == DOMAIN entry.members \cup DOMAIN entry.reservations

Pairs(numbering) == {<<n, numbering[n]>> : n \in DOMAIN numbering}

Declared == {d \in Declarations : source[d] # <<>>}

Latest(history) == Range(history[Len(history)])

\* The members of all versions.
Seen(history) == UNION {Range(history[v]) : v \in DOMAIN history}

(***************************************************************************)
(* The walk over the versions, lowest first, and over the members of each  *)
(* in their order: a comes before b when it is met first.                  *)
(***************************************************************************)
FirstVersion(history, n) == Min({v \in DOMAIN history : n \in Range(history[v])})

Place(list, n) == CHOOSE i \in DOMAIN list : list[i] = n

(* Defects that an edit of this code could introduce.  Each is a variant   *)
(* of the definition its comment names, and is used by nothing; two more   *)
(* are further down, where what they need is defined.                      *)
OrderOfVersions(history, a, b) ==           \* SeenBefore: one number a version
    FirstVersion(history, a) < FirstVersion(history, b)
NextAfterLive(entry) ==                     \* NextNumber: reservations forgotten
    Max(Range(entry.members) \cup {0}) + 1
NothingReintroduced(history, entry) == {}   \* Reintroduced: no test

SeenBefore(history, a, b) ==
    LET va == FirstVersion(history, a)
        vb == FirstVersion(history, b)
    IN  \/ va < vb
        \/ va = vb /\ Place(history[va], a) < Place(history[vb], b)

(***************************************************************************)
(* _allocate_one.                                                          *)
(***************************************************************************)

\* The smallest number that is greater than all the entry holds.
NextNumber(entry) == Max(Numbers(entry) \cup {0}) + 1

\* The removed members that the latest version declares again.
Reintroduced(history, entry) == Latest(history) \cap DOMAIN entry.reservations

\* The members the walk numbers: the test is for a live member only, so a
\* reserved member that an old version still declares is numbered again.
Unnumbered(history, entry) == Seen(history) \ DOMAIN entry.members

\* A member's number is given when the walk first meets it.
Fresh(history, entry, n) ==
    NextNumber(entry)
      + Cardinality({m \in Unnumbered(history, entry) :
                        SeenBefore(history, m, n)})

RenumberedFromOne(history, entry, n) ==     \* NumberOf: the ledger is not read
    IF n \in Seen(history) THEN Fresh(history, NoEntry, n) ELSE entry.members[n]

NumberOf(history, entry, n) ==
    IF n \in DOMAIN entry.members THEN entry.members[n]
                                  ELSE Fresh(history, entry, n)

\* The numbered members that the latest version does not declare.
Removed(history, entry) ==
    (DOMAIN entry.members \cup Seen(history)) \ Latest(history)

\* Removed members move to the reservations, over an older reservation.
Allocated(history, entry) ==
    [members      |-> [n \in Latest(history) |-> NumberOf(history, entry, n)],
     reservations |-> [n \in DOMAIN entry.reservations
                               \cup Removed(history, entry) |->
                         IF n \in Removed(history, entry)
                         THEN NumberOf(history, entry, n)
                         ELSE entry.reservations[n]]]

(***************************************************************************)
(* allocate_enum_numbers: the new ledger has the declarations of the       *)
(* source and no others.                                                   *)
(***************************************************************************)
NextLedger ==
    [d \in Declarations |->
        IF d \in Declared THEN Allocated(source[d], ledger[d]) ELSE NoEntry]

(***************************************************************************)
(* Actions.                                                                *)
(***************************************************************************)
Init ==
    /\ source = [d \in Declarations |-> <<>>]
    /\ ledger = [d \in Declarations |-> NoEntry]
    /\ given = [d \in Declarations |-> {}]
    /\ lapsed = {}

AddUnchecked(d) ==                          \* AddVersion: duplicates accepted
    /\ Len(source[d]) < MaxVersions
    /\ \E m \in Members : source' = [source EXCEPT ![d] = Append(@, <<m, m>>)]
    /\ UNCHANGED <<ledger, given, lapsed>>

\* Authors add a version, declaring the enum if it is the first, and delete
\* the latest version, withdrawing the declaration if it is the last.  Between
\* two compilations these make any other edit.
AddVersion(d) ==
    /\ Len(source[d]) < MaxVersions
    /\ \E list \in MemberLists :
          source' = [source EXCEPT ![d] = Append(@, list)]
    /\ UNCHANGED <<ledger, given, lapsed>>

DeleteVersion(d) ==
    /\ source[d] # <<>>
    /\ source' = [source EXCEPT ![d] = SubSeq(@, 1, Len(@) - 1)]
    /\ UNCHANGED <<ledger, given, lapsed>>

Compile ==
    /\ \A d \in Declared : Reintroduced(source[d], ledger[d]) = {}
    /\ \A d \in Declared : Numbers(Allocated(source[d], ledger[d]))
                              \subseteq 1..MaxNumber
    /\ ledger' = NextLedger
    /\ given' = [d \in Declarations |->
                    given[d] \cup Pairs(ledger'[d].members)
                             \cup Pairs(ledger'[d].reservations)]
    /\ lapsed' = lapsed \cup {d \in Declarations \ Declared :
                                 ledger[d] # NoEntry}
    /\ UNCHANGED source

Next ==
    \/ \E d \in Declarations : AddVersion(d) \/ DeleteVersion(d)
    \/ Compile

Spec == Init /\ [][Next]_vars

\* Versions are only added, the policy that _allocate_one relies on.
AdditiveSpec ==
    Init /\ [][(\E d \in Declarations : AddVersion(d)) \/ Compile]_vars

(***************************************************************************)
(* Properties.                                                             *)
(***************************************************************************)

\* Every variable has its type.
TypeOK ==
    /\ source \in [Declarations -> Seq(MemberLists)]
    /\ ledger \in [Declarations -> Allocations]
    /\ given \in [Declarations -> SUBSET (Members \X (1..MaxNumber))]
    /\ lapsed \subseteq Declarations

\* In an entry no name is both live and reserved, and no two names share a
\* number, whatever was done to the source between compilations: the emitters
\* write both lists into one Protobuf enum.
Unambiguous(entry) ==
    /\ DOMAIN entry.members \cap DOMAIN entry.reservations = {}
    /\ IsInjective(entry.members)
    /\ IsInjective(entry.reservations)
    /\ Range(entry.members) \cap Range(entry.reservations) = {}

LedgerUnambiguous == \A d \in Declarations : Unambiguous(ledger[d])

\* A number has one owner for ever.
OneOwner(pairs) == \A p, q \in pairs : p[2] = q[2] => p[1] = q[1]

\* A number that any compilation gave to a member is never given to another
\* member of that declaration by a later one, as long as the declaration's
\* entry was not dropped.
NumberNeverReused ==
    \A d \in Declarations \ lapsed : OneOwner(given[d])

\* A member that is live before a compilation and after it keeps its number,
\* whatever was done to the versions meanwhile (enum_numbers.py, lines 9-10).
LiveNumbersStable ==
    [][\A d \in Declarations :
         \A n \in DOMAIN ledger[d].members \cap DOMAIN ledger'[d].members :
            ledger'[d].members[n] = ledger[d].members[n]]_vars

\* A removed member is never live again, and stays known as removed, while
\* its declaration is there: readers of old data could not tell the two
\* meanings apart (enum_numbers.py, lines 11-15).
RemovedStaysRemoved ==
    [][\A d \in Declared :
         DOMAIN ledger[d].reservations \subseteq
            DOMAIN ledger'[d].reservations \ DOMAIN ledger'[d].members]_vars

\* A compilation leaves no member of any declared version, old ones included,
\* without a number.
EveryMemberNumbered ==
    [][ledger' # ledger =>
         \A d \in Declared : Seen(source[d]) \subseteq Names(ledger'[d])]_vars

\* The same whatever happens to the source: "numbers are never reassigned"
\* (line 9).  It holds of AdditiveSpec; see README.md for Spec.
NumberNeverReassigned == \A d \in Declarations : OneOwner(given[d])
=============================================================================
