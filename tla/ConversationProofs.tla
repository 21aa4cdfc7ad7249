------------------------- MODULE ConversationProofs -------------------------
(***************************************************************************)
(* Proofs about Conversation, for any conversations, files and plans.      *)
(***************************************************************************)
EXTENDS Conversation, FiniteSetTheorems, TLAPS

-----------------------------------------------------------------------------
(* What each conversation keeps to, whatever the others do.                *)

Busy(s) == pc[s] \in Applying \union {"check"}

\* The pending directory was made.
Owned(s) == Owns(pending[s]) \subseteq 1 .. previews

\* The pending action is the one on the screen.
Displayed(s) ==
    pending[s] # None => shown[s] # <<>> /\ pending[s] = Head(shown[s])

\* A change being applied is a change, and nobody holds copies without one.
Phased(s) ==
    /\ Busy(s) => pending[s] # None /\ ~IsBuild(pending[s])
    /\ pc[s] \notin Applying => originals[s] = Unread /\ replaced[s] = {}

\* How far the apply is.
Progress(s) ==
    /\ pc[s] = "copy" => /\ todo[s] \subseteq Written(s)
                         /\ Written(s) \ todo[s] \subseteq DOMAIN originals[s]
                         /\ replaced[s] = {}
    /\ pc[s] = "replace" => /\ todo[s] \subseteq Written(s)
                            /\ Written(s) \subseteq DOMAIN originals[s]
                            /\ replaced[s] = Written(s) \ todo[s]
    /\ pc[s] = "reload" => replaced[s] = Written(s)
    /\ pc[s] = "rollback" => replaced[s] \subseteq Written(s)

Sound(s) == Owned(s) /\ Displayed(s) /\ Phased(s) /\ Progress(s)

TInv == TypeOK /\ \A s \in Sessions : Sound(s)

-----------------------------------------------------------------------------
(* Data.                                                                   *)

\* The fields of an action tell a change from a compilation.
LEMMA ChangeFields ==
    ASSUME NEW p \in Plans, NEW b \in Snapshots
    PROVE  /\ Change(p, b) \in Actions
           /\ Change(p, b).plan = p /\ Change(p, b).base = b
           /\ Change(p, b) # None /\ ~IsBuild(Change(p, b))
           /\ Owns(Change(p, b)) = {}
BY ConstantsAssumption, NoneAssumption DEF Change, Actions, IsBuild, Owns

LEMMA BuildFields ==
    ASSUME NEW d \in 1 .. MaxPreviews
    PROVE  /\ Build(d) \in Actions /\ Build(d) # None
           /\ IsBuild(Build(d)) /\ Owns(Build(d)) = {d}
BY ConstantsAssumption, NoneAssumption DEF Build, Actions, IsBuild, Owns

LEMMA ActionFields ==
    ASSUME NEW a \in Actions \union {None}
    PROVE  /\ a # None /\ ~IsBuild(a) =>
                /\ a.plan \in Plans /\ a.base \in Snapshots
                /\ a = Change(a.plan, a.base)
           /\ Owns(a) \subseteq 1 .. MaxPreviews
           /\ ~IsBuild(a) => Owns(a) = {}
<1>1. CASE a = None
    BY <1>1 DEF IsBuild, Owns
<1>2. ASSUME NEW p \in Plans, NEW b \in Snapshots, a = Change(p, b)
      PROVE  /\ a.plan \in Plans /\ a.base \in Snapshots
             /\ a = Change(a.plan, a.base)
             /\ Owns(a) = {}
    BY <1>2, ChangeFields
<1>3. ASSUME NEW d \in 1 .. MaxPreviews, a = Build(d)
      PROVE  IsBuild(a) /\ Owns(a) = {d}
    BY <1>3, BuildFields
<1> QED
    BY <1>1, <1>2, <1>3 DEF Actions

\* Directories are finitely many.
LEMMA CountIsNat ==
    ASSUME NEW D \in SUBSET (1 .. MaxPreviews)
    PROVE  Cardinality(D) \in Nat
<1>1. IsFiniteSet(1 .. MaxPreviews)
    BY FS_Interval, ConstantsAssumption
<1>2. IsFiniteSet(D)
    BY <1>1, FS_Subset
<1> QED
    BY <1>2, FS_CardinalityType

\* What a conversation has to remove was made.
LEMMA TrackedMade ==
    ASSUME TypeOK, NEW s \in Sessions, Owned(s)
    PROVE  /\ Tracked(s) \subseteq 1 .. previews
           /\ 1 .. previews \subseteq 1 .. MaxPreviews
           /\ \A D \in SUBSET Tracked(s) : Cardinality(D) \in Nat
<1>1. Tracked(s) \subseteq 1 .. previews
    BY DEF Owned, TypeOK, Tracked
<1>2. 1 .. previews \subseteq 1 .. MaxPreviews
    BY ConstantsAssumption DEF TypeOK
<1> QED
    BY <1>1, <1>2, CountIsNat

-----------------------------------------------------------------------------
(* The steps.                                                              *)

\* Steps that leave the directories alone.
Talks(s) ==
    \/ Open(s) \/ Begin(s) \/ AnswerInvalid(s) \/ Synthesize(s) \/ Reply(s)
    \/ TypeApply(s) \/ ApplyUnknown(s)
    \/ \E a \in Range(shown[s]) : ClickApply(s, a)

\* Steps that make directories or remove them.
Keeps(s) ==
    \/ Previews(s) \/ Interrupt(s) \/ Close(s) \/ Discard(s)
    \/ Promote(s) \/ PromoteFails(s) \/ PromoteLitters(s)

\* Steps of the editor.
Edits(s) ==
    \/ CheckFile(s) \/ RefuseStale(s) \/ CopyFile(s) \/ ReplaceFile(s)
    \/ Reload(s) \/ ApplyFails(s) \/ RestoreFile(s) \/ RestoreFails(s)
    \/ RolledBack(s)

LEMMA NextIsStep ==
    Next <=> \/ \E s \in Sessions : Talks(s) \/ Keeps(s) \/ Edits(s) \/ Die(s)
             \/ \E f \in Files : AuthorSaves(f)
BY DEF Next, Talks, Keeps, Edits, Answers, Confirms

\* What is private to a conversation.
Private(t) ==
    <<pc[t], ws[t], pending[t], claimed[t], backlog[t], todo[t], originals[t],
      replaced[t], shown[t], wanted[t]>>

\* A conversation that is gone knows nothing.
Gone(t) ==
    /\ pc[t] = "closed" /\ pending[t] = None /\ claimed[t] = None
    /\ backlog[t] = {} /\ todo[t] = {} /\ originals[t] = Unread
    /\ replaced[t] = {} /\ shown[t] = <<>> /\ wanted[t] = None

LEMMA TalksAlone ==
    ASSUME TypeOK, NEW s \in Sessions, Talks(s), NEW t \in Sessions, t # s
    PROVE  UNCHANGED Private(t)
BY DEF TypeOK, Private, Talks, Open, Begin, AnswerInvalid, Synthesize, Reply,
       TypeApply, ApplyUnknown, ClickApply, Applies, Completes, Goes, host,
       writing, user

LEMMA KeepsAlone ==
    ASSUME TypeOK, NEW s \in Sessions, Keeps(s), NEW t \in Sessions, t # s
    PROVE  UNCHANGED Private(t)
<1> USE DEF TypeOK, Private, Completes, Goes, host, writing, user, Disposes,
            Removes, Ends, Forgets, Throws, Shows, Repairs
<1>1. CASE PreviewChange(s)
    BY <1>1 DEF PreviewChange
<1>2. CASE PreviewChangeFails(s)
    BY <1>2 DEF PreviewChangeFails
<1>3. CASE PreviewCompilation(s)
    BY <1>3 DEF PreviewCompilation
<1>4. CASE PreviewCompilationFails(s)
    BY <1>4 DEF PreviewCompilationFails
<1>5. CASE PreviewCompilationLitters(s)
    BY <1>5 DEF PreviewCompilationLitters
<1>6. CASE PreviewThrows(s)
    BY <1>6 DEF PreviewThrows
<1>7. CASE Interrupt(s)
    BY <1>7 DEF Interrupt
<1>8. CASE Close(s)
    BY <1>8 DEF Close
<1>9. CASE Discard(s)
    BY <1>9 DEF Discard
<1>10. CASE Promote(s) \/ PromoteFails(s) \/ PromoteLitters(s)
    BY <1>10 DEF Promote, PromoteFails, PromoteLitters
<1> QED
    BY <1>1, <1>2, <1>3, <1>4, <1>5, <1>6, <1>7, <1>8, <1>9, <1>10
    DEF Keeps, Previews

LEMMA EditsAlone ==
    ASSUME TypeOK, NEW s \in Sessions, Edits(s), NEW t \in Sessions, t # s
    PROVE  UNCHANGED Private(t)
<1> USE DEF TypeOK, Private, Completes, Goes, host, writing, user, StopsWriting
<1>1. CASE CheckFile(s) \/ RefuseStale(s)
    BY <1>1 DEF CheckFile, Checked, RefuseStale
<1>2. CASE CopyFile(s)
    BY <1>2 DEF CopyFile
<1>3. CASE ReplaceFile(s)
    BY <1>3 DEF ReplaceFile
<1>4. CASE Reload(s) \/ ApplyFails(s) \/ RolledBack(s)
    BY <1>4 DEF Reload, ApplyFails, RolledBack
<1>5. CASE RestoreFile(s) \/ RestoreFails(s)
    BY <1>5 DEF RestoreFile, RestoreFails
<1> QED
    BY <1>1, <1>2, <1>3, <1>4, <1>5 DEF Edits

\* A death leaves the others alone or takes them with it.
LEMMA DieEffect ==
    ASSUME TypeOK, NEW s \in Sessions, Die(s), NEW t \in Sessions
    PROVE  /\ UNCHANGED Private(t) \/ Gone(t)'
           /\ Gone(t)' \/ t # s
BY DEF TypeOK, Private, Gone, Die, Forgets

-----------------------------------------------------------------------------
(* Types.                                                                  *)

LEMMA UnreadTyped == Unread \in Originals /\ DOMAIN Unread = {}
<1>1. Unread \in [{} -> Contents] /\ {} \in SUBSET Files
    BY DEF Unread
<1> QED
    BY <1>1 DEF Originals, Unread

LEMMA BlankTyped == Blank \in Snapshots /\ \A f \in Files : Blank[f] = {}
BY DEF Blank, Snapshots, Contents

LEMMA TInit == Init => TInv
<1> SUFFICES ASSUME Init PROVE TInv
    OBVIOUS
<1>1. source \in Snapshots
    BY BlankTyped DEF Init
<1>2. /\ ws \in [Sessions -> Snapshots]
      /\ originals \in [Sessions -> Originals]
      /\ pc \in [Sessions -> Resting \union Asking \union Applying
                             \union {"check", "promote"}]
    BY <1>1, UnreadTyped DEF Init, Resting
<1>3. \A s \in Sessions : shown[s] = <<>> /\ replaced[s] = {}
    BY DEF Init
<1>4. /\ shown \in [Sessions -> Seq(Actions)]
      /\ \A s \in Sessions : Len(shown[s]) <= 2
    BY DEF Init
<1>6. /\ {} \in SUBSET Files
      /\ pending \in [Sessions -> Actions \union {None}]
      /\ claimed \in [Sessions -> Actions \union {None}]
      /\ wanted \in [Sessions -> Actions \union {None}]
      /\ backlog \in [Sessions -> SUBSET (1 .. previews)]
      /\ todo \in [Sessions -> SUBSET Files]
      /\ replaced \in [Sessions -> SUBSET Files]
    BY DEF Init
<1>7. /\ previews \in 0 .. MaxPreviews /\ mishaps \in 0 .. MaxMishaps
      /\ staged \subseteq 1 .. previews /\ left \subseteq 1 .. previews
    BY ConstantsAssumption DEF Init
<1>10. disturbed \in BOOLEAN
    BY Zenon DEF Init
<1>8. \A s \in Sessions : replaced[s] \subseteq DOMAIN originals[s]
    BY <1>3
<1>9. TypeOK
    BY <1>1, <1>2, <1>4, <1>6, <1>7, <1>8, <1>10, Zenon DEF TypeOK
<1>5. \A s \in Sessions : Sound(s)
    BY DEF Init, Sound, Owned, Owns, IsBuild, Displayed, Phased, Progress, Busy,
           Applying
<1> QED
    BY <1>9, <1>5 DEF TInv

\* A preview on the screen: the last two are remembered.
LEMMA ShownTyped ==
    ASSUME NEW a \in Actions, NEW q \in Seq(Actions), q # <<>>
    PROVE  /\ <<a>> \in Seq(Actions) /\ Len(<<a>>) = 1 /\ Head(<<a>>) = a
           /\ <<a, Head(q)>> \in Seq(Actions) /\ Len(<<a, Head(q)>>) = 2
           /\ Head(<<a, Head(q)>>) = a
<1>1. Head(q) \in Actions
    OBVIOUS
<1> QED
    BY <1>1

LEMMA ShowsTyped ==
    ASSUME TypeOK, NEW s \in Sessions, NEW a \in Actions, a # None, Shows(s, a)
    PROVE  /\ shown' \in [Sessions -> Seq(Actions)]
           /\ \A t \in Sessions : Len(shown'[t]) <= 2
           /\ shown'[s] # <<>> /\ Head(shown'[s]) = a
           /\ pending' \in [Sessions -> Actions \union {None}]
           /\ claimed' \in [Sessions -> Actions \union {None}]
           /\ wanted' \in [Sessions -> Actions \union {None}]
           /\ pending'[s] = a /\ pc'[s] = "idle"
           /\ pc' \in [Sessions -> Resting \union Asking \union Applying
                                   \union {"check", "promote"}]
<1> DEFINE new == IF s \notin Served \/ shown[s] = <<>> THEN <<a>>
                  ELSE IF Head(shown[s]) = a THEN shown[s]
                  ELSE <<a, Head(shown[s])>>
<1>1. shown' = [shown EXCEPT ![s] = new]
    BY DEF Shows
<1>2. new \in Seq(Actions) /\ Len(new) <= 2 /\ Head(new) = a /\ new # <<>>
    BY ShownTyped DEF TypeOK
<1> HIDE DEF new
<1> QED
    BY <1>1, <1>2 DEF TypeOK, Shows, Completes, Goes, Resting

\* An apply that begins has every source to check.
LEMMA AppliesTyped ==
    ASSUME TypeOK, NEW s \in Sessions, pending[s] # None, Applies(s, pending[s])
    PROVE  /\ TypeOK'
           /\ UNCHANGED <<source, disturbed, stage, mishaps, pending, backlog,
                          originals, replaced, shown>>
           /\ pc[s] = "idle" /\ wanted'[s] = pending[s]
           /\ \/ pc'[s] = "check" /\ ~IsBuild(pending[s]) /\ todo'[s] = Files
              \/ pc'[s] = "promote" /\ IsBuild(pending[s])
<1>1. /\ pc[s] = "idle"
      /\ wanted' = [wanted EXCEPT ![s] = pending[s]]
      /\ UNCHANGED <<source, disturbed, staged, left, previews, mishaps, ws,
                     pending, claimed, backlog, originals, replaced, shown>>
    BY DEF Applies, disk, stage, host
<1>2. \/ /\ ~IsBuild(pending[s])
         /\ pc' = [pc EXCEPT ![s] = "check"] /\ todo' = [todo EXCEPT ![s] = Files]
      \/ /\ IsBuild(pending[s])
         /\ pc' = [pc EXCEPT ![s] = "promote"] /\ todo' = todo
    BY DEF Applies, Goes
<1>3. /\ pc' \in [Sessions -> Resting \union Asking \union Applying
                              \union {"check", "promote"}]
      /\ todo' \in [Sessions -> SUBSET Files]
      /\ \/ pc'[s] = "check" /\ ~IsBuild(pending[s]) /\ todo'[s] = Files
         \/ pc'[s] = "promote" /\ IsBuild(pending[s])
    BY <1>2 DEF TypeOK
<1>4. wanted' \in [Sessions -> Actions \union {None}] /\ wanted'[s] = pending[s]
    BY <1>1 DEF TypeOK
<1>5. TypeOK'
    BY <1>1, <1>3, <1>4 DEF TypeOK
<1> QED
    BY <1>1, <1>3, <1>4, <1>5 DEF stage

\* Which previews are on the screen, and what is pending, for those that do not
\* show anything.
LEMMA TalksTyped ==
    ASSUME TInv, NEW s \in Sessions, Talks(s)
    PROVE  /\ TypeOK'
           /\ UNCHANGED <<source, disturbed, stage, mishaps, pending, backlog,
                          originals, replaced, shown>>
           /\ pc[s] \notin Applying \union {"check", "promote"}
           /\ pc'[s] \notin Applying
           /\ pc'[s] = "check" => todo'[s] = Files
           /\ pc'[s] \in {"check", "promote"} =>
                /\ pending[s] # None /\ wanted'[s] = pending[s]
                /\ IsBuild(pending[s]) <=> pc'[s] = "promote"
<1>0. TypeOK /\ Sound(s)
    BY DEF TInv
<1> USE <1>0 DEF TypeOK, Goes, Completes, host, disk, stage, writing, user,
                 Asking, Applying, Resting, HasPlan, Planning
<1>1. CASE Open(s)
    BY <1>1 DEF Open
<1>2. CASE Begin(s) \/ AnswerInvalid(s) \/ Synthesize(s)
    BY <1>2 DEF Begin, AnswerInvalid, Synthesize
<1>3. CASE Reply(s)
    BY <1>3 DEF Reply
<1>4. CASE ApplyUnknown(s)
    BY <1>4 DEF ApplyUnknown
<1>5. CASE TypeApply(s)
    <2>1. pending[s] # None /\ pending[s] = Head(shown[s]) /\ shown[s] # <<>>
        BY <1>5 DEF TypeApply, Applies, Sound, Displayed
    <2>2. Applies(s, pending[s])
        BY <1>5, <2>1 DEF TypeApply
    <2> QED
        BY <2>1, <2>2, AppliesTyped
<1>6. ASSUME NEW a \in Range(shown[s]), ClickApply(s, a)
      PROVE  /\ a = pending[s] /\ pending[s] # None
             /\ Applies(s, a)
    BY <1>6 DEF ClickApply, Applies
<1>7. CASE \E a \in Range(shown[s]) : ClickApply(s, a)
    BY <1>6, <1>7, AppliesTyped
<1> QED
    BY <1>1, <1>2, <1>3, <1>4, <1>5, <1>7 DEF Talks

\* Directories that are removed, or cannot be.
LEMMA RemovesTyped ==
    ASSUME TypeOK, NEW s \in Sessions, Owned(s), NEW D \in SUBSET Tracked(s),
           NEW failing \in SUBSET D, Removes(s, D, failing)
    PROVE  /\ staged' \subseteq 1 .. previews
           /\ backlog' \in [Sessions -> SUBSET (1 .. previews)]
           /\ Cardinality(failing) \in Nat
<1>1. Tracked(s) \subseteq 1 .. previews /\ Cardinality(failing) \in Nat
    BY TrackedMade
<1> QED
    BY <1>1 DEF TypeOK, Removes

LEMMA MishapTyped ==
    ASSUME TypeOK, NEW n \in Nat, Mishap(n)
    PROVE  mishaps' \in 0 .. MaxMishaps
BY ConstantsAssumption DEF TypeOK, Mishap

LEMMA DisposesTyped ==
    ASSUME TypeOK, NEW s \in Sessions, Owned(s), NEW D \in SUBSET Tracked(s),
           NEW failing \in SUBSET D, Disposes(s, D, failing)
    PROVE  /\ staged' \subseteq 1 .. previews
           /\ backlog' \in [Sessions -> SUBSET (1 .. previews)]
           /\ mishaps' \in 0 .. MaxMishaps
BY RemovesTyped, MishapTyped DEF Disposes

\* What a step that only handles previews and directories leaves behind.
Handled(s) ==
    /\ UNCHANGED <<source, disturbed>>
    /\ pc[s] \notin Applying \union {"check"}
    /\ pc'[s] \in Resting \union Asking
    /\ originals'[s] = originals[s] \/ originals'[s] = Unread
    /\ replaced'[s] = replaced[s] \/ replaced'[s] = {}
    /\ previews \in 0 .. previews'
    /\ Owned(s)'
    /\ Displayed(s)'

LEMMA CompletesTyped ==
    ASSUME TypeOK, NEW s \in Sessions, NEW a \in Actions \union {None},
           Completes(s, a)
    PROVE  /\ pc' \in [Sessions -> Resting \union Asking \union Applying
                                   \union {"check", "promote"}]
           /\ pc'[s] = "idle" /\ pending'[s] = a
           /\ pending' \in [Sessions -> Actions \union {None}]
           /\ claimed' \in [Sessions -> Actions \union {None}]
           /\ wanted' \in [Sessions -> Actions \union {None}]
BY DEF TypeOK, Completes, Goes, Resting

LEMMA ForgetsTyped ==
    ASSUME TypeOK, NEW S \in SUBSET Sessions, Forgets(S)
    PROVE  /\ pc' \in [Sessions -> Resting \union Asking \union Applying
                                   \union {"check", "promote"}]
           /\ ws' \in [Sessions -> Snapshots]
           /\ pending' \in [Sessions -> Actions \union {None}]
           /\ claimed' \in [Sessions -> Actions \union {None}]
           /\ wanted' \in [Sessions -> Actions \union {None}]
           /\ shown' \in [Sessions -> Seq(Actions)]
           /\ backlog' \in [Sessions -> SUBSET (1 .. previews)]
           /\ todo' \in [Sessions -> SUBSET Files]
           /\ originals' \in [Sessions -> Originals]
           /\ replaced' \in [Sessions -> SUBSET Files]
           /\ \A t \in Sessions :
                /\ Len(shown'[t]) <= 2
                /\ replaced'[t] \subseteq DOMAIN originals'[t]
           /\ \A t \in S : Gone(t)'
           /\ \A t \in Sessions \ S : UNCHANGED Private(t)
<1> USE DEF TypeOK, Forgets, Gone, Private
<1>1. /\ pc' \in [Sessions -> Resting \union Asking \union Applying
                              \union {"check", "promote"}]
      /\ ws' \in [Sessions -> Snapshots]
      /\ pending' \in [Sessions -> Actions \union {None}]
      /\ claimed' \in [Sessions -> Actions \union {None}]
      /\ wanted' \in [Sessions -> Actions \union {None}]
    BY BlankTyped DEF Resting
<1>2. /\ <<>> \in Seq(Actions) /\ Len(<<>>) = 0
      /\ {} \in SUBSET Files /\ {} \in SUBSET (1 .. previews)
    OBVIOUS
<1>3. shown' \in [Sessions -> Seq(Actions)]
    BY <1>2
<1>4. /\ backlog' \in [Sessions -> SUBSET (1 .. previews)]
      /\ todo' \in [Sessions -> SUBSET Files]
      /\ originals' \in [Sessions -> Originals]
      /\ replaced' \in [Sessions -> SUBSET Files]
    BY <1>2, UnreadTyped
<1>5. \A t \in S : Gone(t)'
    OBVIOUS
<1>6. \A t \in Sessions \ S : UNCHANGED Private(t)
    OBVIOUS
<1>7. \A t \in Sessions : /\ Len(shown'[t]) <= 2
                          /\ replaced'[t] \subseteq DOMAIN originals'[t]
    BY <1>2, <1>5, <1>6
<1> QED
    BY <1>1, <1>3, <1>4, <1>5, <1>6, <1>7

\* The end of a chat.
LEMMA EndsTyped ==
    ASSUME TypeOK, NEW s \in Sessions, Owned(s),
           NEW failing \in SUBSET Tracked(s), NEW n \in Nat,
           Mishap(n), Ends(s, failing),
           pc[s] \notin Applying \union {"check"}
    PROVE  TypeOK' /\ Handled(s)
<1>1. /\ Forgets({s}) /\ {s} \in SUBSET Sessions
      /\ UNCHANGED <<source, disturbed, previews>>
    BY DEF Ends, disk
<1>2. Gone(s)' /\ mishaps' \in 0 .. MaxMishaps
    BY <1>1, ForgetsTyped, MishapTyped
<1>3. /\ staged' \subseteq 1 .. previews' /\ left' \subseteq 1 .. previews'
      /\ previews' \in 0 .. MaxPreviews /\ previews \in 0 .. previews'
    <2>1. failing \subseteq 1 .. previews
        BY TrackedMade
    <2>2. staged' \subseteq staged /\ left' = left \union failing
        BY DEF Ends
    <2>3. previews' = previews /\ previews \in 0 .. MaxPreviews
          /\ staged \subseteq 1 .. previews /\ left \subseteq 1 .. previews
        BY <1>1 DEF TypeOK
    <2> QED
        BY <2>1, <2>2, <2>3, ConstantsAssumption
<1>4. TypeOK'
    <2>1. source' \in Snapshots /\ disturbed' \in BOOLEAN
        BY <1>1, Zenon DEF TypeOK
    <2>2. backlog' \in [Sessions -> SUBSET (1 .. previews')]
        BY <1>1, ForgetsTyped
    <2> QED
        BY <1>1, <1>2, <1>3, <2>1, <2>2, ForgetsTyped, Zenon DEF TypeOK
<1>5. Owned(s)' /\ Displayed(s)'
    BY <1>2 DEF Gone, Owned, Owns, IsBuild, Displayed
<1>6. Handled(s)
    BY <1>1, <1>2, <1>3, <1>5 DEF Handled, Gone, Resting
<1> QED
    BY <1>4, <1>6

\* The types of a step that leaves the sources and the editor alone.
LEMMA QuietTyped ==
    ASSUME TypeOK,
           UNCHANGED <<source, disturbed, ws, writing>>,
           pc' \in [Sessions -> Resting \union Asking \union Applying
                                \union {"check", "promote"}],
           pending' \in [Sessions -> Actions \union {None}],
           claimed' \in [Sessions -> Actions \union {None}],
           wanted' \in [Sessions -> Actions \union {None}],
           shown' \in [Sessions -> Seq(Actions)],
           \A t \in Sessions : Len(shown'[t]) <= 2,
           mishaps' \in 0 .. MaxMishaps,
           previews' \in 0 .. MaxPreviews,
           staged' \subseteq 1 .. previews', left' \subseteq 1 .. previews',
           backlog' \in [Sessions -> SUBSET (1 .. previews')]
    PROVE  TypeOK'
<1>1. /\ source' = source /\ disturbed' = disturbed /\ ws' = ws
      /\ todo' = todo /\ originals' = originals /\ replaced' = replaced
    BY DEF writing
<1>2. source' \in Snapshots /\ disturbed' \in BOOLEAN /\ ws' \in [Sessions -> Snapshots]
    BY <1>1 DEF TypeOK
<1>3. /\ todo' \in [Sessions -> SUBSET Files]
      /\ originals' \in [Sessions -> Originals]
      /\ replaced' \in [Sessions -> SUBSET Files]
      /\ \A t \in Sessions : replaced'[t] \subseteq DOMAIN originals'[t]
    BY <1>1 DEF TypeOK
<1> QED
    BY <1>2, <1>3, Zenon DEF TypeOK

\* An exception that nothing handles.
LEMMA ThrowsTyped ==
    ASSUME TypeOK, NEW s \in Sessions, Owned(s), Displayed(s),
           NEW n \in Nat, Throws(s, n), pc[s] \notin Applying \union {"check"}
    PROVE  TypeOK' /\ Handled(s)
<1>1. PICK failing \in SUBSET Tracked(s) :
        /\ Mishap(n + Cardinality(failing))
        /\ \/ /\ s \notin Served
              /\ Ends(s, failing)
           \/ /\ s \in Served
              /\ Removes(s, Tracked(s), failing)
              /\ pending' = [pending EXCEPT ![s] = IF failing = {} THEN None ELSE @]
              /\ Goes(s, "idle")
              /\ UNCHANGED <<disk, left, previews, ws, claimed, writing, user>>
    BY DEF Throws
<1>2. n + Cardinality(failing) \in Nat
    BY TrackedMade
<1>3. CASE s \notin Served
    BY <1>1, <1>2, <1>3, EndsTyped
<1>4. CASE s \in Served
    <2>1. /\ Removes(s, Tracked(s), failing)
          /\ pending' = [pending EXCEPT ![s] = IF failing = {} THEN None ELSE @]
          /\ Goes(s, "idle")
          /\ UNCHANGED <<source, disturbed, left, previews, ws, claimed, writing,
                         shown, wanted>>
        BY <1>1, <1>4 DEF disk, user
    <2>2. /\ staged' \subseteq 1 .. previews' /\ left' \subseteq 1 .. previews'
          /\ backlog' \in [Sessions -> SUBSET (1 .. previews')]
          /\ mishaps' \in 0 .. MaxMishaps
          /\ previews' = previews /\ previews \in 0 .. MaxPreviews
          /\ previews \in 0 .. previews'
        <3>1. staged' \subseteq 1 .. previews
              /\ backlog' \in [Sessions -> SUBSET (1 .. previews)]
            BY <2>1, RemovesTyped
        <3>2. mishaps' \in 0 .. MaxMishaps
            BY <1>1, <1>2, MishapTyped
        <3>3. previews' = previews /\ left' = left
            BY <2>1
        <3>4. previews \in 0 .. MaxPreviews /\ left \subseteq 1 .. previews
            BY DEF TypeOK
        <3> QED
            BY <3>1, <3>2, <3>3, <3>4, ConstantsAssumption
    <2>3. /\ pc' \in [Sessions -> Resting \union Asking \union Applying
                                  \union {"check", "promote"}]
          /\ pc'[s] \in Resting
          /\ pending' \in [Sessions -> Actions \union {None}]
          /\ pending'[s] \in {pending[s], None}
          /\ claimed' \in [Sessions -> Actions \union {None}]
          /\ wanted' \in [Sessions -> Actions \union {None}]
        BY <2>1 DEF Goes, TypeOK, Resting
    <2>4. TypeOK'
        BY <2>1, <2>2, <2>3, QuietTyped DEF TypeOK
    <2>5. Owned(s)' /\ Displayed(s)'
        BY <2>1, <2>2, <2>3 DEF Owned, Owns, IsBuild, Displayed
    <2> QED
        BY <2>1, <2>2, <2>3, <2>4, <2>5 DEF Handled, writing
<1> QED
    BY <1>3, <1>4

LEMMA PreviewsTyped ==
    ASSUME TypeOK, NEW s \in Sessions, Owned(s), Displayed(s),
           PreviewChange(s) \/ PreviewChangeFails(s)
    PROVE  TypeOK' /\ Handled(s)
<1> USE DEF Planning
<1>0. /\ pc[s] \in Planning
      /\ UNCHANGED <<source, disturbed, left, previews, ws, writing>>
      /\ Owns(pending[s]) \subseteq Tracked(s)
      /\ previews \in 0 .. MaxPreviews /\ previews \in 0 .. previews
    BY ConstantsAssumption
    DEF PreviewChange, PreviewChangeFails, ChangePlanned, disk, Tracked, TypeOK
<1>1. CASE PreviewChange(s)
    <2>1. PICK p \in Plans : /\ Disposes(s, Owns(pending[s]), {})
                             /\ Shows(s, Change(p, ws[s]))
        BY <1>1 DEF PreviewChange
    <2>2. ws[s] \in Snapshots
        BY DEF TypeOK
    <2>3. TypeOK'
        <3>1. /\ staged' \subseteq 1 .. previews'
              /\ backlog' \in [Sessions -> SUBSET (1 .. previews')]
              /\ mishaps' \in 0 .. MaxMishaps
            BY <1>0, <2>1, DisposesTyped
        <3>2. left' \subseteq 1 .. previews' /\ previews' \in 0 .. MaxPreviews
            BY <1>0 DEF TypeOK
        <3> QED
            BY <1>0, <2>1, <2>2, <3>1, <3>2, ChangeFields, ShowsTyped, QuietTyped
    <2>4. Owned(s)' /\ Displayed(s)'
        BY <2>1, <2>2, ChangeFields, ShowsTyped DEF Owned, Displayed
    <2>5. pc'[s] = "idle"
        BY <2>1, <2>2, ChangeFields, ShowsTyped
    <2> QED
        BY <1>0, <2>3, <2>4, <2>5
        DEF Handled, writing, Applying, Resting
<1>2. CASE PreviewChangeFails(s)
    <2>1. PICK failing \in SUBSET Owns(pending[s]) :
            \/ UNCHANGED <<staged, mishaps, backlog>>
            \/ Disposes(s, Owns(pending[s]), failing)
        BY <1>2 DEF PreviewChangeFails
    <2>2. Repairs(s) /\ UNCHANGED shown
        BY <1>2 DEF PreviewChangeFails
    <2>3. /\ pc' \in [Sessions -> Resting \union Asking \union Applying
                                  \union {"check", "promote"}]
          /\ pc'[s] \in Resting \union Asking
          /\ pending' = pending
          /\ claimed' \in [Sessions -> Actions \union {None}]
          /\ wanted' \in [Sessions -> Actions \union {None}]
        BY <2>2 DEF TypeOK, Repairs, Goes, Completes, Asking, Resting
    <2>4. /\ staged' \subseteq 1 .. previews
          /\ backlog' \in [Sessions -> SUBSET (1 .. previews)]
          /\ mishaps' \in 0 .. MaxMishaps
        BY <1>0, <2>1, DisposesTyped DEF TypeOK
    <2>5. TypeOK'
        BY <1>0, <2>2, <2>3, <2>4, QuietTyped DEF TypeOK
    <2>6. Owned(s)' /\ Displayed(s)'
        BY <1>0, <2>2, <2>3 DEF Owned, Owns, IsBuild, Displayed
    <2> QED
        BY <1>0, <2>3, <2>5, <2>6 DEF Handled, writing, Applying
<1> QED
    BY <1>1, <1>2

\* A new staging directory, kept or not.
LEMMA StagingTyped ==
    ASSUME TypeOK, NEW s \in Sessions, Owned(s), Displayed(s),
           \/ PreviewCompilation(s) \/ PreviewCompilationFails(s)
           \/ PreviewCompilationLitters(s)
    PROVE  TypeOK' /\ Handled(s)
<1>1. /\ HasPlan(s) /\ previews' = previews + 1
      /\ UNCHANGED <<source, disturbed, ws, writing>>
    BY DEF PreviewCompilation, PreviewCompilationFails,
           PreviewCompilationLitters, disk
<1>2. /\ previews' \in 1 .. MaxPreviews /\ previews \in 0 .. previews'
      /\ previews' \in 0 .. MaxPreviews
      /\ \A D : D \subseteq 1 .. previews => D \subseteq 1 .. previews'
    BY <1>1, ConstantsAssumption
    DEF TypeOK, PreviewCompilation, PreviewCompilationFails,
        PreviewCompilationLitters
<1>3. /\ staged \subseteq 1 .. previews' /\ left \subseteq 1 .. previews'
      /\ Owns(pending[s]) \subseteq 1 .. previews'
      /\ backlog \in [Sessions -> SUBSET (1 .. previews')]
      /\ previews' \in 1 .. previews'
    <2>1. backlog \in [Sessions -> SUBSET (1 .. previews)]
        BY DEF TypeOK
    <2>2. \A t \in Sessions : backlog[t] \subseteq 1 .. previews'
        BY <1>2, <2>1
    <2> QED
        BY <1>2, <2>1, <2>2 DEF TypeOK, Owned
<1>4. pc[s] \notin Applying \union {"check"}
    BY <1>1 DEF HasPlan, Planning, Applying
<1>5. CASE PreviewCompilation(s)
    <2>1. /\ staged' = (staged \ Owns(pending[s])) \union {previews'}
          /\ backlog' = [backlog EXCEPT ![s] = @ \ Owns(pending[s])]
          /\ Shows(s, Build(previews'))
          /\ UNCHANGED <<left, mishaps>>
        BY <1>5 DEF PreviewCompilation
    <2>2. /\ staged' \subseteq 1 .. previews' /\ left' \subseteq 1 .. previews'
          /\ backlog' \in [Sessions -> SUBSET (1 .. previews')]
          /\ mishaps' \in 0 .. MaxMishaps
        BY <1>3, <2>1 DEF TypeOK
    <2>3. TypeOK'
        BY <1>1, <1>2, <2>1, <2>2, BuildFields, ShowsTyped, QuietTyped
    <2>4. Owned(s)' /\ Displayed(s)' /\ pc'[s] = "idle"
        BY <1>2, <1>3, <2>1, BuildFields, ShowsTyped DEF Owned, Displayed
    <2> QED
        BY <1>1, <1>2, <1>4, <2>3, <2>4 DEF Handled, writing, Resting
<1>6. CASE PreviewCompilationFails(s)
    <2>1. PICK failing \in SUBSET (Owns(pending[s]) \union {previews'}) :
            /\ Mishap(Cardinality(failing))
            /\ staged' = staged \union (failing \ Owns(pending[s]))
            /\ backlog' = [backlog EXCEPT ![s] = @ \union failing]
        BY <1>6 DEF PreviewCompilationFails
    <2>2. Completes(s, None) /\ UNCHANGED <<left, shown>>
        BY <1>6 DEF PreviewCompilationFails
    <2>3. failing \subseteq 1 .. previews' /\ failing \subseteq 1 .. MaxPreviews
        BY <1>2, <1>3, ConstantsAssumption
    <2>4. /\ staged' \subseteq 1 .. previews' /\ left' \subseteq 1 .. previews'
          /\ backlog' \in [Sessions -> SUBSET (1 .. previews')]
          /\ mishaps' \in 0 .. MaxMishaps
        BY <1>3, <2>1, <2>2, <2>3, CountIsNat, MishapTyped
    <2>5. TypeOK'
        BY <1>1, <1>2, <2>2, <2>4, CompletesTyped, QuietTyped DEF TypeOK
    <2>6. Owned(s)' /\ Displayed(s)' /\ pc'[s] = "idle"
        BY <2>2, CompletesTyped DEF Owned, Owns, IsBuild, Displayed
    <2> QED
        BY <1>1, <1>2, <1>4, <2>5, <2>6 DEF Handled, writing, Resting
<1>7. CASE PreviewCompilationLitters(s)
    <2>1. /\ Mishap(1) /\ Completes(s, pending[s])
          /\ staged' = staged \union {previews'} /\ left' = left \union {previews'}
          /\ UNCHANGED <<backlog, shown>>
        BY <1>7 DEF PreviewCompilationLitters
    <2>2. /\ staged' \subseteq 1 .. previews' /\ left' \subseteq 1 .. previews'
          /\ backlog' \in [Sessions -> SUBSET (1 .. previews')]
          /\ mishaps' \in 0 .. MaxMishaps
          /\ pending[s] \in Actions \union {None}
        BY <1>3, <2>1, MishapTyped DEF TypeOK
    <2>3. TypeOK'
        BY <1>1, <1>2, <2>1, <2>2, CompletesTyped, QuietTyped DEF TypeOK
    <2>4. Owned(s)' /\ Displayed(s)' /\ pc'[s] = "idle"
        BY <1>3, <2>1, <2>2, CompletesTyped DEF Owned, Owns, IsBuild, Displayed
    <2> QED
        BY <1>1, <1>2, <1>4, <2>3, <2>4 DEF Handled, writing, Resting
<1> QED
    BY <1>5, <1>6, <1>7

\* Pending actions that are disposed of, one way or another.
LEMMA DiscardTyped ==
    ASSUME TypeOK, NEW s \in Sessions, Owned(s), Displayed(s),
           Discard(s) \/ Promote(s) \/ PromoteFails(s) \/ PromoteLitters(s)
    PROVE  TypeOK' /\ Handled(s)
<1>1. /\ UNCHANGED <<source, disturbed, previews, ws, writing, shown>>
      /\ Owns(pending[s]) \subseteq Tracked(s)
      /\ previews \in 0 .. MaxPreviews /\ previews \in 0 .. previews
      /\ pc[s] \in {"idle", "promote"} /\ left \subseteq 1 .. previews
      /\ pending[s] \in Actions \union {None}
    BY ConstantsAssumption
    DEF Discard, Promote, PromoteFails, PromoteLitters, disk, Tracked, TypeOK
<1>2. /\ staged' \subseteq 1 .. previews /\ left' \subseteq 1 .. previews
      /\ backlog' \in [Sessions -> SUBSET (1 .. previews)]
      /\ mishaps' \in 0 .. MaxMishaps
    <2>1. CASE Discard(s)
        BY <1>1, <2>1, DisposesTyped DEF Discard
    <2>2. CASE Promote(s) \/ PromoteFails(s)
        <3>1. PICK failing \in SUBSET Owns(pending[s]) :
                Disposes(s, Owns(pending[s]), failing)
            BY <2>2 DEF Promote, PromoteFails
        <3>2. left' = left
            BY <2>2 DEF Promote, PromoteFails
        <3> QED
            BY <1>1, <3>1, <3>2, DisposesTyped
    <2>3. CASE PromoteLitters(s)
        BY <1>1, <2>3, MishapTyped, TrackedMade DEF PromoteLitters, TypeOK
    <2> QED
        BY <2>1, <2>2, <2>3
<1>3. \/ \E a \in {pending[s], None} : Completes(s, a)
      \/ UNCHANGED <<pc, pending, claimed, wanted>> /\ pc[s] = "idle"
    BY DEF Discard, Promote, PromoteFails, PromoteLitters
<1>4. /\ pc' \in [Sessions -> Resting \union Asking \union Applying
                              \union {"check", "promote"}]
      /\ pc'[s] = "idle" /\ pending'[s] \in {pending[s], None}
      /\ pending' \in [Sessions -> Actions \union {None}]
      /\ claimed' \in [Sessions -> Actions \union {None}]
      /\ wanted' \in [Sessions -> Actions \union {None}]
    BY <1>1, <1>3, CompletesTyped DEF TypeOK
<1>5. TypeOK'
    BY <1>1, <1>2, <1>4, QuietTyped DEF TypeOK
<1>6. Owned(s)' /\ Displayed(s)'
    BY <1>1, <1>4 DEF Owned, Owns, IsBuild, Displayed
<1> QED
    BY <1>1, <1>4, <1>5, <1>6 DEF Handled, writing, Applying, Resting

LEMMA CloseTyped ==
    ASSUME TypeOK, NEW s \in Sessions, Owned(s), Displayed(s), Close(s)
    PROVE  TypeOK' /\ Handled(s)
<1>1. PICK failing \in SUBSET Tracked(s) :
        \/ /\ s \notin Served \/ failing = {}
           /\ Mishap(Cardinality(failing))
           /\ Ends(s, failing)
        \/ /\ s \in Served /\ failing # {}
           /\ Disposes(s, Tracked(s), failing)
           /\ UNCHANGED <<disk, left, previews, pc, ws, pending, claimed,
                          writing, user>>
    BY DEF Close
<1>2. pc[s] = "idle" /\ Cardinality(failing) \in Nat
    BY TrackedMade DEF Close
<1>3. CASE Mishap(Cardinality(failing)) /\ Ends(s, failing)
    BY <1>2, <1>3, EndsTyped DEF Applying
<1>4. CASE /\ Disposes(s, Tracked(s), failing)
           /\ UNCHANGED <<disk, left, previews, pc, ws, pending, claimed,
                          writing, user>>
    <2>1. /\ staged' \subseteq 1 .. previews
          /\ backlog' \in [Sessions -> SUBSET (1 .. previews)]
          /\ mishaps' \in 0 .. MaxMishaps
        BY <1>4, DisposesTyped
    <2>2. /\ UNCHANGED <<source, disturbed, left, previews, pc, ws, pending,
                         claimed, writing, shown, wanted>>
          /\ previews \in 0 .. previews
        BY <1>4, ConstantsAssumption DEF disk, user, TypeOK
    <2>3. TypeOK'
        BY <2>1, <2>2, QuietTyped DEF TypeOK
    <2>4. Owned(s)' /\ Displayed(s)'
        BY <2>2 DEF Owned, Owns, IsBuild, Displayed
    <2> QED
        BY <1>2, <2>2, <2>3, <2>4 DEF Handled, writing, Applying, Resting
<1> QED
    BY <1>1, <1>3, <1>4

LEMMA KeepsTyped ==
    ASSUME TypeOK, NEW s \in Sessions, Owned(s), Displayed(s), Keeps(s)
    PROVE  TypeOK' /\ Handled(s)
<1>1. CASE PreviewThrows(s) \/ Interrupt(s)
    <2>1. pc[s] \notin Applying \union {"check"}
        BY <1>1 DEF PreviewThrows, Interrupt, HasPlan, Planning, Asking, Applying
    <2>2. \E n \in Nat : Throws(s, n)
        BY <1>1 DEF PreviewThrows, Interrupt
    <2> QED
        BY <2>1, <2>2, ThrowsTyped
<1> QED
    BY <1>1, PreviewsTyped, StagingTyped, DiscardTyped, CloseTyped
    DEF Keeps, Previews

-----------------------------------------------------------------------------
(* The editor.                                                             *)

\* A change being applied.
LEMMA BusyIsChange ==
    ASSUME TypeOK, NEW s \in Sessions, Phased(s), Busy(s)
    PROVE  /\ Plan(s) \in Plans /\ pending[s].base \in Snapshots
           /\ Written(s) \in SUBSET Files /\ Written(s) # {}
           /\ \A f \in Files : Candidate(s, f) \in Contents
<1>1. pending[s] \in Actions \union {None}
    BY DEF TypeOK
<1>2. Plan(s) \in Plans /\ pending[s].base \in Snapshots
    BY <1>1, ActionFields DEF Phased, Plan
<1>3. Written(s) \in SUBSET Files /\ Written(s) # {}
    BY <1>2, ConstantsAssumption DEF Written
<1>4. \A f \in Files : Candidate(s, f) \in Contents
    BY <1>2 DEF Candidate, Snapshots, Contents
<1> QED
    BY <1>2, <1>3, <1>4

\* The types of a step of the editor that leaves previews and directories alone.
LEMMA EditorTyped ==
    ASSUME TypeOK,
           UNCHANGED <<stage, backlog, shown>>,
           source' \in Snapshots, disturbed' \in BOOLEAN,
           mishaps' \in 0 .. MaxMishaps,
           ws' \in [Sessions -> Snapshots],
           pc' \in [Sessions -> Resting \union Asking \union Applying
                                \union {"check", "promote"}],
           pending' \in [Sessions -> Actions \union {None}],
           claimed' \in [Sessions -> Actions \union {None}],
           wanted' \in [Sessions -> Actions \union {None}],
           todo' \in [Sessions -> SUBSET Files],
           originals' \in [Sessions -> Originals],
           replaced' \in [Sessions -> SUBSET Files],
           \A t \in Sessions : replaced'[t] \subseteq DOMAIN originals'[t]
    PROVE  TypeOK'
<1>1. /\ staged' = staged /\ left' = left /\ previews' = previews
      /\ backlog' = backlog /\ shown' = shown
    BY DEF stage
<1>2. /\ staged' \subseteq 1 .. previews' /\ left' \subseteq 1 .. previews'
      /\ previews' \in 0 .. MaxPreviews
      /\ backlog' \in [Sessions -> SUBSET (1 .. previews')]
      /\ shown' \in [Sessions -> Seq(Actions)]
      /\ \A t \in Sessions : Len(shown'[t]) <= 2
    BY <1>1 DEF TypeOK
<1> QED
    BY <1>2, Zenon DEF TypeOK

\* Somebody who writes may disturb, and nobody undoes it.
LEMMA WritesTyped ==
    ASSUME TypeOK, NEW f \in Files, NEW content \in Contents, NEW S,
           Writes(f, content, S)
    PROVE  source' \in Snapshots /\ disturbed' \in BOOLEAN
<1>1. source' \in Snapshots
    BY DEF TypeOK, Writes, Snapshots
<1>2. disturbed' \in BOOLEAN
    BY Zenon DEF TypeOK, Writes
<1> QED
    BY <1>1, <1>2

\* One more original.
LEMMA CopyTyped ==
    ASSUME TypeOK, NEW s \in Sessions, NEW f \in Files,
           originals' = [originals EXCEPT ![s] =
               [g \in DOMAIN @ \union {f} |-> IF g = f THEN source[f] ELSE @[g]]]
    PROVE  /\ originals' \in [Sessions -> Originals]
           /\ DOMAIN originals'[s] = DOMAIN originals[s] \union {f}
           /\ originals'[s][f] = source[f]
           /\ \A g \in DOMAIN originals[s] : g # f => originals'[s][g] = originals[s][g]
           /\ \A t \in Sessions : t # s => originals'[t] = originals[t]
<1> DEFINE old == originals[s]
           new == [g \in DOMAIN old \union {f} |-> IF g = f THEN source[f] ELSE old[g]]
<1>1. PICK F \in SUBSET Files : old \in [F -> Contents]
    BY DEF TypeOK, Originals
<1>2. source[f] \in Contents
    BY DEF TypeOK, Snapshots
<1>3. new \in [F \union {f} -> Contents] /\ F \union {f} \in SUBSET Files
    BY <1>1, <1>2
<1>4. new \in Originals
    BY <1>3 DEF Originals
<1>5. originals' = [originals EXCEPT ![s] = new]
    OBVIOUS
<1>6. DOMAIN new = DOMAIN old \union {f} /\ new[f] = source[f]
      /\ \A g \in DOMAIN old : g # f => new[g] = old[g]
    OBVIOUS
<1> HIDE DEF new
<1>7. originals \in [Sessions -> Originals]
    BY DEF TypeOK
<1>8. originals'[s] = new /\ originals' \in [Sessions -> Originals]
    BY <1>4, <1>5, <1>7
<1>9. \A t \in Sessions : t # s => originals'[t] = originals[t]
    BY <1>5, <1>7
<1> QED
    BY <1>6, <1>8, <1>9

\* What a step of the editor leaves behind.
Edited(s) == Owned(s)' /\ Displayed(s)' /\ Phased(s)' /\ Progress(s)'

LEMMA FirstLast == \A S : First(S) \subseteq S /\ Last(S) \subseteq S
BY DEF First, Last

LEMMA CheckTyped ==
    ASSUME TypeOK, NEW s \in Sessions, Sound(s),
           CheckFile(s) \/ RefuseStale(s) \/ ApplyFails(s)
    PROVE  TypeOK' /\ Edited(s)
<1>1. /\ pending[s] \in Actions \union {None}
      /\ UNCHANGED <<source, disturbed, stage, ws, backlog, shown, originals, replaced>>
    BY DEF TypeOK, CheckFile, RefuseStale, ApplyFails, disk, host, writing, user
<1>2. Busy(s) /\ Written(s) \in SUBSET Files
    BY BusyIsChange
    DEF Busy, Applying, Sound, CheckFile, RefuseStale, ApplyFails
<1>3. /\ pending' = pending /\ pc'[s] \in {"idle", "check", "copy", "rollback"}
      /\ pc'[s] = "copy" => pc[s] = "check" /\ todo'[s] = Written(s)
      /\ pc'[s] = "rollback" => pc[s] \in {"copy", "replace", "reload"}
      /\ pc'[s] \in {"idle", "check"} => pc[s] = "check"
      /\ pc' \in [Sessions -> Resting \union Asking \union Applying
                              \union {"check", "promote"}]
      /\ todo' \in [Sessions -> SUBSET Files]
      /\ claimed' \in [Sessions -> Actions \union {None}]
      /\ wanted' \in [Sessions -> Actions \union {None}]
      /\ mishaps' \in 0 .. MaxMishaps
    <2>1. CASE CheckFile(s)
        <3>1. PICK f \in First(todo[s]) : Checked(s, f)
            BY <2>1 DEF CheckFile
        <3>2. /\ pc[s] = "check" /\ UNCHANGED <<pending, claimed, wanted, mishaps>>
            BY <2>1 DEF CheckFile, host, user
        <3>3. /\ claimed' \in [Sessions -> Actions \union {None}]
              /\ wanted' \in [Sessions -> Actions \union {None}]
              /\ mishaps' \in 0 .. MaxMishaps
            BY <3>2 DEF TypeOK
        <3>4. CASE todo[s] = {f}
            <4>1. /\ todo' = [todo EXCEPT ![s] = Written(s)]
                  /\ pc' = [pc EXCEPT ![s] = "copy"]
                BY <3>1, <3>4 DEF Checked, Goes
            <4>2. todo' \in [Sessions -> SUBSET Files] /\ todo'[s] = Written(s)
                BY <1>2, <4>1 DEF TypeOK
            <4>3. /\ pc' \in [Sessions -> Resting \union Asking \union Applying
                                          \union {"check", "promote"}]
                  /\ pc'[s] = "copy"
                BY <4>1 DEF TypeOK, Applying
            <4> QED
                BY <3>2, <3>3, <4>2, <4>3
        <3>5. CASE todo[s] # {f}
            <4>1. todo' = [todo EXCEPT ![s] = @ \ {f}] /\ pc' = pc
                BY <3>1, <3>5 DEF Checked
            <4>2. /\ todo' \in [Sessions -> SUBSET Files]
                  /\ pc' \in [Sessions -> Resting \union Asking \union Applying
                                          \union {"check", "promote"}]
                BY <4>1 DEF TypeOK
            <4> QED
                BY <3>2, <3>3, <4>1, <4>2
        <3> QED
            BY <3>4, <3>5
    <2>2. CASE RefuseStale(s)
        <3>1. /\ pc[s] = "check" /\ Completes(s, pending[s])
              /\ todo' = [todo EXCEPT ![s] = {}]
              /\ mishaps' = mishaps \/ Mishap(1)
            BY <2>2 DEF RefuseStale
        <3>2. mishaps' \in 0 .. MaxMishaps
            BY <3>1, MishapTyped DEF TypeOK
        <3> QED
            BY <1>1, <3>1, <3>2 DEF Completes, Goes, TypeOK, Resting
    <2>3. CASE ApplyFails(s)
        BY <2>3, MishapTyped DEF ApplyFails, Goes, host, writing, user, TypeOK, Applying
    <2> QED
        BY <2>1, <2>2, <2>3
<1>4. TypeOK'
    BY <1>1, <1>3, EditorTyped DEF TypeOK
<1>5. Owned(s)' /\ Displayed(s)'
    BY <1>1, <1>3 DEF Sound, Owned, Owns, IsBuild, Displayed, stage
<1>6. Phased(s)'
    BY <1>1, <1>2, <1>3 DEF Sound, Phased, Busy, IsBuild, Applying
<1>7. Progress(s)'
    <2>1. Written(s)' = Written(s)
        BY <1>3 DEF Written, Plan
    <2> QED
        BY <1>1, <1>3, <2>1 DEF Sound, Phased, Progress, Applying
<1> QED
    BY <1>4, <1>5, <1>6, <1>7 DEF Edited

LEMMA CopyFileTyped ==
    ASSUME TypeOK, NEW s \in Sessions, Sound(s), CopyFile(s)
    PROVE  TypeOK' /\ Edited(s)
<1> DEFINE W == Written(s)
<1>1. /\ pc[s] = "copy" /\ Busy(s) /\ W \in SUBSET Files
      /\ todo[s] \subseteq W /\ W \ todo[s] \subseteq DOMAIN originals[s]
      /\ replaced[s] = {} /\ pending[s] # None /\ ~IsBuild(pending[s])
    BY BusyIsChange DEF CopyFile, Busy, Applying, Sound, Phased, Progress
<1>2. PICK f \in First(todo[s]) :
        /\ originals' = [originals EXCEPT ![s] =
            [g \in DOMAIN @ \union {f} |-> IF g = f THEN source[f] ELSE @[g]]]
        /\ IF todo[s] = {f}
           THEN todo' = [todo EXCEPT ![s] = W] /\ Goes(s, "replace")
           ELSE todo' = [todo EXCEPT ![s] = @ \ {f}] /\ UNCHANGED pc
    BY DEF CopyFile
<1>3. f \in todo[s] /\ f \in Files /\ f \in W
    BY <1>1, FirstLast
<1>4. /\ UNCHANGED <<source, disturbed, stage, mishaps, ws, pending, claimed,
                     backlog, shown, wanted, replaced>>
    BY DEF CopyFile, disk, host, user
<1>5. /\ originals' \in [Sessions -> Originals]
      /\ DOMAIN originals'[s] = DOMAIN originals[s] \union {f}
      /\ \A t \in Sessions : t # s => originals'[t] = originals[t]
    BY <1>2, <1>3, CopyTyped
<1>6. /\ todo' \in [Sessions -> SUBSET Files]
      /\ pc' \in [Sessions -> Resting \union Asking \union Applying
                              \union {"check", "promote"}]
      /\ \/ pc'[s] = "replace" /\ todo'[s] = W /\ todo[s] = {f}
         \/ pc'[s] = "copy" /\ todo'[s] = todo[s] \ {f}
    <2> HIDE DEF W
    <2>1. CASE todo[s] = {f}
        <3>1. /\ todo' = [todo EXCEPT ![s] = W]
              /\ pc' = [pc EXCEPT ![s] = "replace"]
            BY <1>2, <2>1 DEF Goes
        <3>2. W \in SUBSET Files /\ todo \in [Sessions -> SUBSET Files]
            BY <1>1 DEF TypeOK
        <3>3. todo' \in [Sessions -> SUBSET Files] /\ todo'[s] = W
            BY <3>1, <3>2
        <3>4. /\ pc' \in [Sessions -> Resting \union Asking \union Applying
                                      \union {"check", "promote"}]
              /\ pc'[s] = "replace"
            BY <3>1 DEF TypeOK, Applying
        <3> QED
            BY <2>1, <3>3, <3>4
    <2>2. CASE todo[s] # {f}
        <3>1. todo' = [todo EXCEPT ![s] = @ \ {f}] /\ pc' = pc
            BY <1>2, <2>2
        <3>2. todo[s] \ {f} \in SUBSET Files
            BY DEF TypeOK
        <3> QED
            BY <1>1, <3>1, <3>2 DEF TypeOK
    <2> QED
        BY <2>1, <2>2
<1>7. \A t \in Sessions : replaced'[t] \subseteq DOMAIN originals'[t]
    BY <1>1, <1>4, <1>5 DEF TypeOK
<1>8. TypeOK'
    BY <1>4, <1>5, <1>6, <1>7, EditorTyped DEF TypeOK
<1>9. /\ Written(s)' = W /\ pending'[s] = pending[s] /\ shown'[s] = shown[s]
      /\ previews' = previews
    BY <1>4 DEF Written, Plan, stage
<1>10. Owned(s)' /\ Displayed(s)'
    BY <1>9 DEF Sound, Owned, Owns, IsBuild, Displayed
<1>11. Phased(s)'
    BY <1>1, <1>6, <1>9 DEF Phased, Busy, IsBuild, Applying
<1>12. Progress(s)'
    BY <1>1, <1>3, <1>4, <1>5, <1>6, <1>9 DEF Progress
<1> QED
    BY <1>8, <1>10, <1>11, <1>12 DEF Edited

LEMMA ReplaceFileTyped ==
    ASSUME TypeOK, NEW s \in Sessions, Sound(s), ReplaceFile(s)
    PROVE  TypeOK' /\ Edited(s)
<1> DEFINE W == Written(s)
<1>1. /\ pc[s] = "replace" /\ Busy(s) /\ W \in SUBSET Files
      /\ todo[s] \subseteq W /\ W \subseteq DOMAIN originals[s]
      /\ replaced[s] = W \ todo[s] /\ pending[s] # None /\ ~IsBuild(pending[s])
      /\ \A f \in Files : Candidate(s, f) \in Contents
    BY BusyIsChange DEF ReplaceFile, Busy, Applying, Sound, Phased, Progress
<1>2. PICK f \in First(todo[s]) :
        /\ Writes(f, Candidate(s, f), Sessions \ {s})
        /\ replaced' = [replaced EXCEPT ![s] = @ \union {f}]
        /\ todo' = [todo EXCEPT ![s] = @ \ {f}]
        /\ IF todo[s] = {f} THEN Goes(s, "reload") ELSE UNCHANGED pc
    BY DEF ReplaceFile
<1>3. f \in todo[s] /\ f \in Files /\ f \in W
    BY <1>1, FirstLast
<1>4. /\ UNCHANGED <<stage, mishaps, ws, pending, claimed, backlog, shown,
                     wanted, originals>>
    BY DEF ReplaceFile, host, user
<1>5. source' \in Snapshots /\ disturbed' \in BOOLEAN
    BY <1>1, <1>2, <1>3, WritesTyped
<1>6. /\ todo' \in [Sessions -> SUBSET Files] /\ todo'[s] = todo[s] \ {f}
      /\ replaced' \in [Sessions -> SUBSET Files]
      /\ replaced'[s] = replaced[s] \union {f}
      /\ \A t \in Sessions : t # s => replaced'[t] = replaced[t]
      /\ pc' \in [Sessions -> Resting \union Asking \union Applying
                              \union {"check", "promote"}]
      /\ \/ pc'[s] = "reload" /\ todo[s] = {f}
         \/ pc'[s] = "replace"
    BY <1>1, <1>2, <1>3 DEF TypeOK, Goes, Applying
<1>7. \A t \in Sessions : replaced'[t] \subseteq DOMAIN originals'[t]
    BY <1>1, <1>3, <1>4, <1>6 DEF TypeOK
<1>8. TypeOK'
    BY <1>4, <1>5, <1>6, <1>7, EditorTyped DEF TypeOK
<1>9. /\ Written(s)' = W /\ pending'[s] = pending[s] /\ shown'[s] = shown[s]
      /\ previews' = previews
    BY <1>4 DEF Written, Plan, stage
<1>10. Owned(s)' /\ Displayed(s)'
    BY <1>9 DEF Sound, Owned, Owns, IsBuild, Displayed
<1>11. Phased(s)'
    BY <1>1, <1>6, <1>9 DEF Phased, Busy, IsBuild, Applying
<1>12. Progress(s)'
    BY <1>1, <1>3, <1>4, <1>6, <1>9 DEF Progress
<1> QED
    BY <1>8, <1>10, <1>11, <1>12 DEF Edited

LEMMA RestoreTyped ==
    ASSUME TypeOK, NEW s \in Sessions, Sound(s), RestoreFile(s) \/ RestoreFails(s)
    PROVE  TypeOK' /\ Edited(s)
<1> DEFINE W == Written(s)
<1>1. /\ pc[s] = "rollback" /\ Busy(s) /\ W \in SUBSET Files
      /\ replaced[s] \subseteq W /\ pending[s] # None /\ ~IsBuild(pending[s])
      /\ replaced[s] \subseteq DOMAIN originals[s]
    BY BusyIsChange
    DEF RestoreFile, RestoreFails, Busy, Applying, Sound, Phased, Progress, TypeOK
<1>2. PICK f \in Last(replaced[s]) : replaced' = [replaced EXCEPT ![s] = @ \ {f}]
    BY DEF RestoreFile, RestoreFails
<1>3. /\ UNCHANGED <<stage, pc, ws, pending, claimed, backlog, shown, wanted,
                     todo, originals>>
    BY DEF RestoreFile, RestoreFails, host, user
<1>4. /\ source' \in Snapshots /\ disturbed' \in BOOLEAN
      /\ mishaps' \in 0 .. MaxMishaps
    <2>1. CASE RestoreFile(s)
        <3>1. PICK g \in Last(replaced[s]) :
                Writes(g, originals[s][g], Sessions \ {s})
            BY <2>1 DEF RestoreFile
        <3>2. g \in Files /\ originals[s][g] \in Contents
            BY <1>1, FirstLast DEF TypeOK, Originals
        <3>3. mishaps' = mishaps
            BY <2>1 DEF RestoreFile
        <3> QED
            BY <3>1, <3>2, <3>3, WritesTyped DEF TypeOK
    <2>2. CASE RestoreFails(s)
        <3>1. disturbed' = TRUE /\ source' = source /\ Mishap(1)
            BY <2>2 DEF RestoreFails
        <3> QED
            BY <3>1, MishapTyped DEF TypeOK
    <2> QED
        BY <2>1, <2>2
<1>5. /\ replaced' \in [Sessions -> SUBSET Files]
      /\ replaced'[s] \subseteq replaced[s]
      /\ \A t \in Sessions : t # s => replaced'[t] = replaced[t]
    BY <1>2 DEF TypeOK
<1>6. \A t \in Sessions : replaced'[t] \subseteq DOMAIN originals'[t]
    BY <1>1, <1>3, <1>5 DEF TypeOK
<1>7. TypeOK'
    BY <1>3, <1>4, <1>5, <1>6, EditorTyped DEF TypeOK
<1>8. /\ Written(s)' = W /\ pending'[s] = pending[s] /\ shown'[s] = shown[s]
      /\ previews' = previews
    BY <1>3 DEF Written, Plan, stage
<1>9. Owned(s)' /\ Displayed(s)'
    BY <1>8 DEF Sound, Owned, Owns, IsBuild, Displayed
<1>10. pc'[s] = "rollback" /\ replaced'[s] \subseteq Written(s)'
    BY <1>1, <1>3, <1>5, <1>8
<1>11. Phased(s)' /\ Progress(s)'
    BY <1>1, <1>8, <1>10 DEF Phased, Progress, Busy, IsBuild, Applying
<1> QED
    BY <1>7, <1>9, <1>11 DEF Edited

LEMMA EndTyped ==
    ASSUME TypeOK, NEW s \in Sessions, Sound(s), Reload(s) \/ RolledBack(s)
    PROVE  TypeOK' /\ Edited(s)
<1>1. /\ UNCHANGED <<source, disturbed, stage, mishaps, backlog, shown>>
      /\ ws' \in [Sessions -> Snapshots]
      /\ StopsWriting(s)
    <2>1. /\ UNCHANGED <<source, disturbed, stage, mishaps, backlog, shown>>
          /\ StopsWriting(s)
          /\ ws' = [ws EXCEPT ![s] = source] \/ ws' = ws
        BY DEF Reload, RolledBack, disk
    <2>2. ws \in [Sessions -> Snapshots] /\ source \in Snapshots
        BY DEF TypeOK
    <2> QED
        BY <2>1, <2>2
<1>2. PICK a \in {pending[s], None} : Completes(s, a)
    BY DEF Reload, RolledBack
<1>3. a \in Actions \union {None}
    BY DEF TypeOK
<1>4. /\ todo' \in [Sessions -> SUBSET Files]
      /\ originals' \in [Sessions -> Originals] /\ originals'[s] = Unread
      /\ replaced' \in [Sessions -> SUBSET Files] /\ replaced'[s] = {}
      /\ \A t \in Sessions : replaced'[t] \subseteq DOMAIN originals'[t]
    BY <1>1, UnreadTyped DEF TypeOK, StopsWriting
<1>5. TypeOK'
    BY <1>1, <1>2, <1>3, <1>4, CompletesTyped, EditorTyped DEF TypeOK
<1>6. pc'[s] = "idle" /\ pending'[s] \in {pending[s], None}
      /\ shown'[s] = shown[s] /\ previews' = previews
    BY <1>1, <1>2, <1>3, CompletesTyped DEF stage
<1>7. Owned(s)' /\ Displayed(s)'
    BY <1>6 DEF Sound, Owned, Owns, IsBuild, Displayed
<1>8. Phased(s)' /\ Progress(s)'
    BY <1>4, <1>6 DEF Phased, Progress, Busy, Applying
<1> QED
    BY <1>5, <1>7, <1>8 DEF Edited

LEMMA EditsTyped ==
    ASSUME TypeOK, NEW s \in Sessions, Sound(s), Edits(s)
    PROVE  TypeOK' /\ Edited(s)
BY CheckTyped, CopyFileTyped, ReplaceFileTyped, RestoreTyped, EndTyped DEF Edits

-----------------------------------------------------------------------------
(* The inductive invariant.                                                *)

\* A conversation whose private state does not change stays sound.
LEMMA UntouchedIsSound ==
    ASSUME TypeOK, NEW t \in Sessions, Sound(t), UNCHANGED Private(t),
           previews' \in Nat, previews <= previews'
    PROVE  Sound(t)'
<1>1. /\ pc'[t] = pc[t] /\ pending'[t] = pending[t] /\ shown'[t] = shown[t]
      /\ todo'[t] = todo[t] /\ originals'[t] = originals[t]
      /\ replaced'[t] = replaced[t]
      /\ Written(t)' = Written(t)
    BY DEF Private, Written, Plan
<1>2. 1 .. previews \subseteq 1 .. previews'
    BY DEF TypeOK
<1> QED
    BY <1>1, <1>2
    DEF Sound, Owned, Owns, IsBuild, Displayed, Phased, Progress, Busy

LEMMA TalksInv ==
    ASSUME TInv, NEW s \in Sessions, Talks(s)
    PROVE  TInv'
<1>1. /\ TypeOK /\ TypeOK'
      /\ previews' = previews /\ pending' = pending /\ shown' = shown
      /\ originals' = originals /\ replaced' = replaced
      /\ pc[s] \notin Applying /\ pc'[s] \notin Applying
      /\ pc'[s] = "check" => pending[s] # None /\ ~IsBuild(pending[s])
    BY TalksTyped DEF TInv, stage
<1>2. Sound(s)'
    BY <1>1 DEF TInv, Sound, Owned, Owns, IsBuild, Displayed, Phased, Progress,
                Busy, Applying
<1>3. \A t \in Sessions : t # s => Sound(t)'
    BY <1>1, TalksAlone, UntouchedIsSound, ConstantsAssumption DEF TInv, TypeOK
<1> QED
    BY <1>1, <1>2, <1>3 DEF TInv

LEMMA KeepsInv ==
    ASSUME TInv, NEW s \in Sessions, Keeps(s)
    PROVE  TInv'
<1>1. TypeOK /\ Sound(s) /\ TypeOK' /\ Handled(s)
    BY KeepsTyped DEF TInv, Sound
<1>2. Sound(s)'
    <2>1. pc[s] \notin Applying /\ pc'[s] \notin Applying \union {"check"}
        BY <1>1 DEF Handled, Resting, Asking, Applying
    <2> QED
        BY <1>1, <2>1
        DEF Handled, Sound, Phased, Progress, Busy, Applying
<1>3. \A t \in Sessions : t # s => Sound(t)'
    <2>1. \A t \in Sessions : t # s => UNCHANGED Private(t)
        BY <1>1, KeepsAlone
    <2>2. previews' \in Nat /\ previews <= previews'
        BY <1>1 DEF TypeOK, Handled
    <2> QED
        BY <1>1, <2>1, <2>2, UntouchedIsSound DEF TInv
<1> QED
    BY <1>1, <1>2, <1>3 DEF TInv

LEMMA EditsInv ==
    ASSUME TInv, NEW s \in Sessions, Edits(s)
    PROVE  TInv'
<1>1. TypeOK /\ Sound(s) /\ TypeOK' /\ Edited(s)
    BY EditsTyped DEF TInv
<1>2. Sound(s)'
    BY <1>1 DEF Edited, Sound
<1>3. previews' = previews /\ previews \in Nat
    BY <1>1 DEF Edits, CheckFile, RefuseStale, CopyFile, ReplaceFile, Reload,
                ApplyFails, RestoreFile, RestoreFails, RolledBack, stage, TypeOK
<1>4. \A t \in Sessions : t # s => Sound(t)'
    BY <1>1, <1>3, EditsAlone, UntouchedIsSound DEF TInv
<1> QED
    BY <1>1, <1>2, <1>4 DEF TInv

\* Those that die together.
Dying(s) == IF s \in Served THEN Served ELSE {s}

LEMMA DieInv ==
    ASSUME TInv, NEW s \in Sessions, Die(s)
    PROVE  TInv'
<1>0. TypeOK /\ Dying(s) \in SUBSET Sessions
    BY ConstantsAssumption DEF TInv, Dying
<1>1. /\ Mishap(1) /\ Forgets(Dying(s))
      /\ left' = left \union (UNION {Tracked(t) : t \in Dying(s)})
      /\ source' = source /\ staged' = staged /\ previews' = previews
    BY DEF Die, Dying
<1>2. left' \subseteq 1 .. previews
    <2>1. \A t \in Dying(s) : Tracked(t) \subseteq 1 .. previews
        BY <1>0, TrackedMade DEF TInv, Sound
    <2>2. \A d \in left' : d \in left \/ \E t \in Dying(s) : d \in Tracked(t)
        BY <1>1, Zenon
    <2>3. left \subseteq 1 .. previews
        BY <1>0 DEF TypeOK
    <2> QED
        BY <2>1, <2>2, <2>3
<1>3. disturbed' \in BOOLEAN
    BY Zenon DEF Die
<1>4. TypeOK'
    <2>1. /\ source' \in Snapshots /\ staged' \subseteq 1 .. previews'
          /\ left' \subseteq 1 .. previews' /\ previews' \in 0 .. MaxPreviews
          /\ mishaps' \in 0 .. MaxMishaps
        BY <1>0, <1>1, <1>2, MishapTyped DEF TypeOK
    <2>2. backlog' \in [Sessions -> SUBSET (1 .. previews')]
        BY <1>0, <1>1, ForgetsTyped
    <2> QED
        BY <1>0, <1>1, <1>3, <2>1, <2>2, ForgetsTyped DEF TypeOK
<1>5. ASSUME NEW t \in Sessions PROVE Sound(t)'
    <2>1. CASE Gone(t)'
        BY <2>1 DEF Gone, Sound, Owned, Owns, IsBuild, Displayed, Phased,
                    Progress, Busy, Applying
    <2>2. CASE UNCHANGED Private(t)
        BY <1>0, <1>1, <2>2, UntouchedIsSound DEF TInv, TypeOK
    <2> QED
        BY <1>0, <2>1, <2>2, DieEffect
<1> QED
    BY <1>4, <1>5 DEF TInv

LEMMA AuthorInv ==
    ASSUME TInv, NEW f \in Files, AuthorSaves(f)
    PROVE  TInv'
<1>1. /\ TypeOK /\ Mishap(1)
      /\ source' = [source EXCEPT ![f] = @ \union {Author}]
      /\ UNCHANGED <<staged, left, previews, pc, ws, pending, claimed, backlog,
                     todo, originals, replaced, shown, wanted>>
    BY DEF TInv, AuthorSaves, stage, host, writing, user
<1>2. source' \in Snapshots /\ mishaps' \in 0 .. MaxMishaps
    BY <1>1, MishapTyped DEF TypeOK, Snapshots, Contents
<1>3. disturbed' \in BOOLEAN
    BY <1>1, Zenon DEF TypeOK, AuthorSaves
<1>4. TypeOK'
    BY <1>1, <1>2, <1>3 DEF TypeOK
<1>5. \A t \in Sessions : Sound(t)'
    <2>1. \A t \in Sessions : UNCHANGED Private(t)
        BY <1>1 DEF Private
    <2> QED
        BY <1>1, <2>1, UntouchedIsSound DEF TInv, TypeOK
<1> QED
    BY <1>4, <1>5 DEF TInv

LEMMA TStutter == TInv /\ UNCHANGED vars => TInv'
<1> SUFFICES ASSUME TInv, UNCHANGED vars PROVE TInv'
    OBVIOUS
<1>1. TypeOK'
    BY DEF TInv, TypeOK, vars
<1>2. \A t \in Sessions : Sound(t)'
    BY UntouchedIsSound DEF TInv, TypeOK, vars, Private
<1> QED
    BY <1>1, <1>2 DEF TInv

LEMMA TStep == TInv /\ [Next]_vars => TInv'
BY NextIsStep, TalksInv, KeepsInv, EditsInv, DieInv, AuthorInv, TStutter

LEMMA TAlways == Spec => []TInv
BY TInit, TStep, PTL DEF Spec

\* The state keeps its types whatever is previewed, applied, discarded and
\* killed in whatever order: what an apply has replaced is among what it has
\* read first (workspace_editor.apply), every directory was made by a preview.
THEOREM TypeCorrect == Spec => []TypeOK
<1>1. TInv => TypeOK
    BY DEF TInv
<1> QED
    BY <1>1, TAlways, PTL

-----------------------------------------------------------------------------
(* What is applied is what was asked for.                                  *)

Confirmed(s) ==
    pc[s] \in Applying \union {"check", "promote"} => pending[s] = wanted[s]

\* The editor goes on with the pending action it has begun with.
LEMMA EditsConfirmed ==
    ASSUME TypeOK, NEW s \in Sessions, Confirmed(s), Edits(s)
    PROVE  Confirmed(s)'
<1>1. CASE RefuseStale(s) \/ Reload(s) \/ RolledBack(s)
    BY <1>1 DEF TypeOK, Confirmed, RefuseStale, Reload, RolledBack, Completes,
                Goes, Applying
<1>2. CASE \/ CheckFile(s) \/ CopyFile(s) \/ ReplaceFile(s)
           \/ ApplyFails(s) \/ RestoreFile(s) \/ RestoreFails(s)
    BY <1>2 DEF Confirmed, CheckFile, CopyFile, ReplaceFile, ApplyFails,
                RestoreFile, RestoreFails, host, user, Applying
<1> QED
    BY <1>1, <1>2 DEF Edits

\* Nothing but what the user confirmed is applied: the preview on the screen is
\* the pending one although the engine and the host keep one each
\* (ConversationEngine.begin_turn, FilesystemConversationBackend.apply,
\* LspConversationService.apply).
THEOREM AppliedAlwaysWanted == Spec => []AppliedIsWanted
<1> DEFINE Inv == \A s \in Sessions : Confirmed(s)
<1>1. Init => Inv
    BY DEF Init, Confirmed, Applying
<1>2. TInv /\ Inv /\ [Next]_vars => Inv'
    <2> SUFFICES ASSUME TInv, Inv, [Next]_vars, NEW t \in Sessions
                 PROVE  Confirmed(t)'
        OBVIOUS
    <2>0. TypeOK
        BY DEF TInv
    <2>1. CASE UNCHANGED Private(t)
        BY <2>1 DEF Confirmed, Private
    <2>2. CASE UNCHANGED vars
        BY <2>2 DEF Confirmed, vars
    <2>3. ASSUME NEW s \in Sessions, Talks(s) PROVE Confirmed(t)'
        <3>1. CASE t = s
            BY <2>3, <3>1, TalksTyped DEF Confirmed
        <3> QED
            BY <2>0, <2>1, <2>3, <3>1, TalksAlone
    <2>4. ASSUME NEW s \in Sessions, Keeps(s) PROVE Confirmed(t)'
        <3>1. CASE t = s
            <4>1. pc'[s] \in Resting \union Asking
                BY <2>4, KeepsTyped DEF TInv, Sound, Handled
            <4> QED
                BY <3>1, <4>1 DEF Confirmed, Resting, Asking, Applying
        <3> QED
            BY <2>0, <2>1, <2>4, <3>1, KeepsAlone
    <2>5. ASSUME NEW s \in Sessions, Edits(s) PROVE Confirmed(t)'
        BY <2>0, <2>1, <2>5, EditsConfirmed, EditsAlone
    <2>6. ASSUME NEW s \in Sessions, Die(s) PROVE Confirmed(t)'
        BY <2>0, <2>1, <2>6, DieEffect DEF Gone, Confirmed, Applying
    <2>7. ASSUME NEW f \in Files, AuthorSaves(f) PROVE Confirmed(t)'
        BY <2>7 DEF AuthorSaves, host, user, Confirmed
    <2> QED
        BY <2>2, <2>3, <2>4, <2>5, <2>6, <2>7, NextIsStep
<1>3. Inv => AppliedIsWanted
    BY DEF Confirmed, AppliedIsWanted
<1> QED
    BY <1>1, <1>2, <1>3, TAlways, PTL DEF Spec

-----------------------------------------------------------------------------
(* Directories.                                                            *)

\* A directory somebody still has to remove, or has given up.
Known(d) == d \in left \/ \E s \in Sessions : d \in Tracked(s)

LEMMA KnownIsTracked == StagingTracked <=> \A d \in staged : Known(d)
BY DEF StagingTracked, Known

\* What a step of s does with the directories: those it stops tracking are
\* removed or given up.
Accounts(s) ==
    /\ left \subseteq left'
    /\ \A d \in staged' :
        \/ d \in left' \/ d \in Tracked(s)'
        \/ d \in staged /\ d \notin Tracked(s)

LEMMA RemovesAccounts ==
    ASSUME TypeOK, NEW s \in Sessions, NEW D, NEW failing \in SUBSET D,
           Removes(s, D, failing),
           Tracked(s) \subseteq D \union backlog[s]
    PROVE  \A d \in staged' :
              d \in Tracked(s)' \/ (d \in staged /\ d \notin Tracked(s))
<1>1. backlog'[s] = (backlog[s] \ D) \union failing
      /\ staged' = staged \ (D \ failing)
    BY DEF Removes, TypeOK
<1> QED
    BY <1>1 DEF Tracked

LEMMA EndsAccounts ==
    ASSUME TypeOK, NEW s \in Sessions, NEW failing \in SUBSET Tracked(s),
           Ends(s, failing)
    PROVE  Accounts(s)
BY DEF Ends, Accounts

LEMMA ThrowsAccounts ==
    ASSUME TypeOK, NEW s \in Sessions, NEW n \in Nat, Throws(s, n)
    PROVE  Accounts(s)
<1>1. PICK failing \in SUBSET Tracked(s) :
        \/ Ends(s, failing)
        \/ Removes(s, Tracked(s), failing) /\ left' = left
    BY DEF Throws
<1>2. CASE Ends(s, failing)
    BY <1>2, EndsAccounts
<1>3. CASE Removes(s, Tracked(s), failing) /\ left' = left
    <2>1. \A d \in staged' : d \in Tracked(s)' \/ (d \in staged /\ d \notin Tracked(s))
        BY <1>3, RemovesAccounts
    <2> QED
        BY <1>3, <2>1 DEF Accounts
<1> QED
    BY <1>1, <1>2, <1>3

LEMMA KeepsAccounts ==
    ASSUME TInv, NEW s \in Sessions, Keeps(s)
    PROVE  Accounts(s)
<1>0. TypeOK /\ Tracked(s) = Owns(pending[s]) \union backlog[s]
      /\ Owns(pending[s]) \subseteq 1 .. previews
      /\ backlog[s] \subseteq 1 .. previews /\ staged \subseteq 1 .. previews
      /\ previews \in Nat
    BY DEF TInv, TypeOK, Tracked, Sound, Owned
<1>1. CASE PreviewThrows(s) \/ Interrupt(s)
    <2>1. \E n \in Nat : Throws(s, n)
        BY <1>1 DEF PreviewThrows, Interrupt
    <2> QED
        BY <1>0, <2>1, ThrowsAccounts
<1>2. CASE Close(s)
    <2>1. PICK failing \in SUBSET Tracked(s) :
            \/ Ends(s, failing)
            \/ Removes(s, Tracked(s), failing) /\ left' = left
        BY <1>2 DEF Close, Disposes
    <2> QED
        BY <1>0, <2>1, EndsAccounts, RemovesAccounts DEF Accounts
<1>3. CASE Discard(s)
    <2>1. PICK failing \in SUBSET Tracked(s) :
            Removes(s, Tracked(s), failing) /\ left' = left
        BY <1>3 DEF Discard, Disposes
    <2> QED
        BY <1>0, <2>1, RemovesAccounts DEF Accounts
<1>4. CASE PreviewChange(s) \/ Promote(s) \/ PromoteFails(s)
    <2>1. PICK failing \in SUBSET Owns(pending[s]) :
            Removes(s, Owns(pending[s]), failing) /\ left' = left
        BY <1>4 DEF PreviewChange, Promote, PromoteFails, Disposes
    <2> QED
        BY <1>0, <2>1, RemovesAccounts DEF Accounts
<1>5. CASE PreviewChangeFails(s)
    <2>1. PICK failing \in SUBSET Owns(pending[s]) :
            \/ UNCHANGED <<staged, backlog>>
            \/ Removes(s, Owns(pending[s]), failing)
        BY <1>5 DEF PreviewChangeFails, Disposes
    <2>2. left' = left
        BY <1>5 DEF PreviewChangeFails
    <2>3. CASE UNCHANGED <<staged, backlog>>
        <3>1. pending' = pending
            BY <1>0, <1>5 DEF PreviewChangeFails, Repairs, Completes, TypeOK
        <3> QED
            BY <2>2, <2>3, <3>1 DEF Accounts, Tracked
    <2> QED
        BY <1>0, <2>1, <2>2, <2>3, RemovesAccounts DEF Accounts
<1>6. CASE PreviewCompilation(s)
    <2>1. /\ staged' = (staged \ Owns(pending[s])) \union {previews'}
          /\ backlog' = [backlog EXCEPT ![s] = @ \ Owns(pending[s])]
          /\ left' = left /\ Shows(s, Build(previews'))
          /\ previews' \in 1 .. MaxPreviews
        BY <1>0, <1>6, ConstantsAssumption DEF PreviewCompilation, TypeOK
    <2>2. Owns(pending'[s]) = {previews'}
        BY <1>0, <2>1, BuildFields, ShowsTyped
    <2>3. backlog'[s] = backlog[s] \ Owns(pending[s])
        BY <1>0, <2>1 DEF TypeOK
    <2> QED
        BY <1>0, <2>1, <2>2, <2>3 DEF Accounts, Tracked
<1>7. CASE PreviewCompilationFails(s)
    <2>1. PICK failing \in SUBSET (Owns(pending[s]) \union {previews'}) :
            /\ Owns(pending[s]) \subseteq failing
            /\ staged' = staged \union (failing \ Owns(pending[s]))
            /\ backlog' = [backlog EXCEPT ![s] = @ \union failing]
        BY <1>7 DEF PreviewCompilationFails
    <2>2. left' = left
        BY <1>7 DEF PreviewCompilationFails
    <2>3. backlog'[s] = backlog[s] \union failing
        BY <1>0, <2>1 DEF TypeOK
    <2> QED
        BY <1>0, <2>1, <2>2, <2>3 DEF Accounts, Tracked
<1>8. CASE PreviewCompilationLitters(s)
    <2>1. /\ staged' = staged \union {previews'} /\ left' = left \union {previews'}
          /\ backlog' = backlog /\ Completes(s, pending[s])
        BY <1>8 DEF PreviewCompilationLitters
    <2>2. pending'[s] = pending[s]
        BY <1>0, <2>1 DEF Completes, TypeOK
    <2> QED
        BY <1>0, <2>1, <2>2 DEF Accounts, Tracked
<1>9. CASE PromoteLitters(s)
    <2>1. /\ staged' = staged /\ left' = left \union Owns(pending[s])
          /\ backlog' = [backlog EXCEPT ![s] = @ \ Owns(pending[s])]
        BY <1>9 DEF PromoteLitters
    <2>2. backlog'[s] = backlog[s] \ Owns(pending[s])
        BY <1>0, <2>1 DEF TypeOK
    <2> QED
        BY <1>0, <2>1, <2>2 DEF Accounts, Tracked
<1> QED
    BY <1>1, <1>2, <1>3, <1>4, <1>5, <1>6, <1>7, <1>8, <1>9 DEF Keeps, Previews

\* The editor makes no directories and its changes own none.
LEMMA EditsAccounts ==
    ASSUME TInv, NEW s \in Sessions, Edits(s)
    PROVE  staged' = staged /\ left' = left /\ Tracked(s)' = Tracked(s)
<1>0. TypeOK /\ Sound(s)
    BY DEF TInv
<1>1. staged' = staged /\ left' = left /\ backlog' = backlog
    BY DEF Edits, CheckFile, RefuseStale, CopyFile, ReplaceFile, Reload,
           ApplyFails, RestoreFile, RestoreFails, RolledBack, stage, host
<1>2. CASE Reload(s)
    <2>1. Owns(pending[s]) = {} /\ pending'[s] = None
        BY <1>0, <1>2 DEF Reload, Completes, Sound, Phased, Busy, Applying, Owns, TypeOK
    <2> QED
        BY <1>1, <2>1 DEF Tracked, Owns, IsBuild
<1>3. CASE ~Reload(s)
    <2>1. pending' = pending
        BY <1>0, <1>3
        DEF Edits, CheckFile, RefuseStale, CopyFile, ReplaceFile, ApplyFails,
            RestoreFile, RestoreFails, RolledBack, host, Completes, TypeOK
    <2> QED
        BY <1>1, <2>1 DEF Tracked
<1> QED
    BY <1>2, <1>3, <1>1

\* No staging directory is lost sight of: one that exists is the business of an
\* open conversation, or was given up by an owner that named it or was killed
\* (FilesystemConversationBackend._dispose_actions, _cleanup_backlog).
THEOREM StagingAlwaysTracked == Spec => []StagingTracked
<1> DEFINE Inv == \A d \in staged : Known(d)
<1>1. Init => Inv
    BY DEF Init
<1>2. TInv /\ Inv /\ [Next]_vars => Inv'
    <2> SUFFICES ASSUME TInv, Inv, [Next]_vars, NEW d \in staged'
                 PROVE  Known(d)'
        OBVIOUS
    <2>0. TypeOK
        BY DEF TInv
    <2>1. CASE UNCHANGED vars
        BY <2>1 DEF vars, Known, Tracked
    <2>2. ASSUME NEW s \in Sessions, Talks(s) PROVE Known(d)'
        BY <2>2, TalksTyped DEF stage, Known, Tracked
    <2>3. ASSUME NEW s \in Sessions, Keeps(s) PROVE Known(d)'
        <3>1. \A t \in Sessions : t # s => Tracked(t)' = Tracked(t)
            BY <2>0, <2>3, KeepsAlone DEF Private, Tracked
        <3>2. Accounts(s)
            BY <2>3, KeepsAccounts
        <3> QED
            BY <3>1, <3>2 DEF Accounts, Known
    <2>4. ASSUME NEW s \in Sessions, Edits(s) PROVE Known(d)'
        <3>1. \A t \in Sessions : Tracked(t)' = Tracked(t)
            BY <2>0, <2>4, EditsAlone, EditsAccounts DEF Private, Tracked
        <3> QED
            BY <2>4, <3>1, EditsAccounts DEF Known
    <2>5. ASSUME NEW s \in Sessions, Die(s) PROVE Known(d)'
        <3>1. Forgets(Dying(s)) /\ staged' = staged
              /\ left' = left \union (UNION {Tracked(t) : t \in Dying(s)})
            BY <2>5 DEF Die, Dying
        <3>2. CASE d \in left'
            BY <3>2 DEF Known
        <3>3. CASE d \notin left'
            <4>1. PICK t \in Sessions : d \in Tracked(t)
                BY <3>1, <3>3 DEF Known
            <4>2. t \notin Dying(s)
                BY <3>1, <3>3, <4>1
            <4>3. Tracked(t)' = Tracked(t)
                BY <2>0, <3>1, <4>2, ForgetsTyped, ConstantsAssumption
                DEF Dying, Private, Tracked
            <4> QED
                BY <4>1, <4>3 DEF Known
        <3> QED
            BY <3>2, <3>3
    <2>6. ASSUME NEW f \in Files, AuthorSaves(f) PROVE Known(d)'
        BY <2>6 DEF AuthorSaves, stage, host, Known, Tracked
    <2> QED
        BY <2>1, <2>2, <2>3, <2>4, <2>5, <2>6, NextIsStep
<1> QED
    BY <1>1, <1>2, KnownIsTracked, TAlways, PTL DEF Spec

-----------------------------------------------------------------------------
(* What an apply has checked.                                              *)

\* The files of the change that were compared are still as they were.
Unmoved(s) ==
    pc[s] = "check" =>
        \A f \in Written(s) \ todo[s] : source[f] = pending[s].base[f]

CInv == ~disturbed => \A s \in Sessions : Unmoved(s)

\* An undisturbed write spares what somebody else has checked.
LEMMA WritesSpare ==
    ASSUME TypeOK, NEW f \in Files, NEW content, NEW S, Writes(f, content, S),
           ~disturbed', NEW t \in S, t \in Sessions, pc[t] = "check", Unmoved(t)
    PROVE  \A g \in Written(t) \ todo[t] : source'[g] = pending[t].base[g]
<1>1. f \notin Written(t) \ todo[t]
    BY Zenon DEF Writes, Meddles, Written
<1>2. \A g : g # f => source'[g] = source[g]
    BY DEF Writes, TypeOK, Snapshots
<1> QED
    BY <1>1, <1>2 DEF Unmoved

\* What has been checked stays as it was when nothing moves.
LEMMA UntouchedIsUnmoved ==
    ASSUME NEW t \in Sessions, UNCHANGED Private(t), source' = source, Unmoved(t)
    PROVE  Unmoved(t)'
BY DEF Private, Unmoved, Written, Plan

LEMMA EditsUnmoved ==
    ASSUME TInv, CInv, NEW s \in Sessions, Edits(s), ~disturbed',
           NEW t \in Sessions
    PROVE  Unmoved(t)'
<1>0. TypeOK
    BY DEF TInv
<1>1. CASE ReplaceFile(s) \/ RestoreFile(s)
    <2>1. pc'[s] # "check"
        BY <1>0, <1>1 DEF ReplaceFile, RestoreFile, Goes, TypeOK
    <2>2. PICK f \in todo[s] \union replaced[s] :
            \E content : Writes(f, content, Sessions \ {s})
        BY <1>1, FirstLast DEF ReplaceFile, RestoreFile
    <2>3. f \in Files /\ ~disturbed
        BY <1>0, <2>2 DEF TypeOK, Writes
    <2>4. CASE t # s /\ pc[t] = "check"
        <3>1. \A g \in Written(t) \ todo[t] : source'[g] = pending[t].base[g]
            BY <1>0, <2>2, <2>3, <2>4, WritesSpare DEF CInv
        <3>2. UNCHANGED Private(t)
            BY <1>0, <2>4, EditsAlone
        <3> QED
            BY <3>1, <3>2 DEF Private, Unmoved, Written, Plan
    <2>5. CASE t # s /\ pc[t] # "check"
        BY <1>0, <2>5, EditsAlone DEF Private, Unmoved
    <2> QED
        BY <2>1, <2>4, <2>5 DEF Unmoved
<1>2. CASE ~ReplaceFile(s) /\ ~RestoreFile(s)
    <2>1. ~disturbed /\ source' = source
        BY <1>2 DEF Edits, CheckFile, RefuseStale, CopyFile, Reload, ApplyFails,
                    RestoreFails, RolledBack, disk
    <2>2. CASE t # s
        BY <1>0, <2>1, <2>2, EditsAlone, UntouchedIsUnmoved DEF CInv
    <2>3. CASE t = s /\ CheckFile(s)
        <3>1. PICK f \in First(todo[s]) :
                source[f] = pending[s].base[f] /\ Checked(s, f)
            BY <2>3 DEF CheckFile
        <3>2. pc[s] = "check" /\ pending' = pending
            BY <2>3 DEF CheckFile, host
        <3>3. CASE todo[s] = {f}
            BY <1>0, <2>3, <3>1, <3>3 DEF Checked, Goes, Unmoved, TypeOK
        <3>4. CASE todo[s] # {f}
            <4>1. todo'[s] = todo[s] \ {f}
                BY <1>0, <3>1, <3>4 DEF Checked, TypeOK
            <4>2. Unmoved(s)
                BY <2>1 DEF CInv
            <4> QED
                BY <2>1, <2>3, <3>1, <3>2, <4>1, <4>2 DEF Unmoved, Written, Plan
        <3> QED
            BY <3>3, <3>4
    <2>4. CASE t = s /\ ~CheckFile(s)
        <3>1. pc'[s] # "check"
            BY <1>0, <1>2, <2>4
            DEF Edits, RefuseStale, CopyFile, Reload, ApplyFails, RestoreFails,
                RolledBack, Completes, Goes, TypeOK
        <3> QED
            BY <2>4, <3>1 DEF Unmoved
    <2> QED
        BY <2>2, <2>3, <2>4
<1> QED
    BY <1>1, <1>2

LEMMA CStep == TInv /\ CInv /\ [Next]_vars => CInv'
<1> SUFFICES ASSUME TInv, CInv, [Next]_vars, ~disturbed', NEW t \in Sessions
             PROVE  Unmoved(t)'
    BY DEF CInv
<1>0. TypeOK
    BY DEF TInv
<1>1. CASE UNCHANGED vars
    BY <1>1 DEF vars, CInv, Unmoved, Written, Plan
<1>2. ASSUME NEW s \in Sessions, Talks(s) PROVE Unmoved(t)'
    <2>1. source' = source /\ disturbed' = disturbed
        BY <1>2, TalksTyped
    <2>2. CASE t # s
        BY <1>0, <1>2, <2>1, <2>2, TalksAlone, UntouchedIsUnmoved DEF CInv
    <2>3. CASE t = s
        <3>1. pc'[s] = "check" =>
                /\ todo'[s] = Files /\ pending'[s] = pending[s]
                /\ pending[s] # None /\ ~IsBuild(pending[s])
            BY <1>2, TalksTyped
        <3>2. pc'[s] = "check" => Written(s)' \subseteq Files
            BY <1>0, <3>1, ActionFields, ConstantsAssumption
            DEF Written, Plan, TypeOK
        <3> QED
            BY <2>3, <3>1, <3>2 DEF Unmoved
    <2> QED
        BY <2>2, <2>3
<1>3. ASSUME NEW s \in Sessions, Keeps(s) PROVE Unmoved(t)'
    <2>1. /\ source' = source /\ disturbed' = disturbed
          /\ pc'[s] \in Resting \union Asking
        BY <1>3, KeepsTyped DEF TInv, Sound, Handled
    <2>2. CASE t # s
        BY <1>0, <1>3, <2>1, <2>2, KeepsAlone, UntouchedIsUnmoved DEF CInv
    <2>3. CASE t = s
        BY <2>1, <2>3 DEF Unmoved, Resting, Asking
    <2> QED
        BY <2>2, <2>3
<1>4. ASSUME NEW s \in Sessions, Die(s) PROVE Unmoved(t)'
    <2>1. source' = source /\ ~disturbed
        BY <1>4 DEF Die
    <2> QED
        BY <1>0, <1>4, <2>1, DieEffect, UntouchedIsUnmoved DEF CInv, Gone, Unmoved
<1>5. ASSUME NEW f \in Files, AuthorSaves(f) PROVE Unmoved(t)'
    <2>1. /\ Writes(f, source[f] \union {Author}, Sessions) /\ ~disturbed
          /\ UNCHANGED <<pc, pending, todo>>
        BY <1>5 DEF AuthorSaves, Writes, host, writing
    <2>2. CASE pc[t] = "check"
        <3>1. \A g \in Written(t) \ todo[t] : source'[g] = pending[t].base[g]
            BY <1>0, <2>1, <2>2, WritesSpare DEF CInv
        <3> QED
            BY <2>1, <3>1 DEF Unmoved, Written, Plan
    <2> QED
        BY <2>1, <2>2 DEF Unmoved
<1> QED
    BY <1>1, <1>2, <1>3, <1>4, <1>5, EditsUnmoved, NextIsStep

LEMMA CAlways == Spec => []CInv
<1>1. Init => CInv
    BY DEF Init, CInv, Unmoved
<1> QED
    BY <1>1, CStep, TAlways, PTL DEF Spec

-----------------------------------------------------------------------------
(* The sources.                                                            *)

\* A pending change is not yet in the sources it was computed from.
Fresh(s) ==
    pending[s] # None /\ ~IsBuild(pending[s]) =>
        \A f \in Written(s) : Plan(s) \notin pending[s].base[f]

\* The files of an apply are as it has left them, and its copies are right.
Kept(s) ==
    /\ \A f \in Written(s) :
        /\ f \in replaced[s] => source[f] = Candidate(s, f)
        /\ f \notin replaced[s] => source[f] = pending[s].base[f]
    /\ \A f \in DOMAIN originals[s] : originals[s][f] = pending[s].base[f]

Whole(p) ==
    \/ \A f \in Touches[p] : p \in source[f]
    \/ \A f \in Touches[p] : p \notin source[f]
    \/ \E s \in Sessions : pc[s] \in Applying /\ Plan(s) = p

AllKept == \A s \in Sessions : pc[s] \in Applying => Kept(s)

SInv ==
    /\ \A s \in Sessions : Fresh(s)
    /\ ~disturbed => AllKept /\ \A p \in Plans : Whole(p)

LEMMA SInit == Init => SInv
BY BlankTyped, ConstantsAssumption DEF Init, SInv, Fresh, AllKept, Whole, Applying

\* Only a preview of a change makes one pending, and it is fresh.
LEMMA KeepsFresh ==
    ASSUME TInv, NEW s \in Sessions, Keeps(s), Fresh(s)
    PROVE  Fresh(s)'
<1>0. TypeOK /\ pending[s] \in Actions \union {None}
    BY DEF TInv, TypeOK
<1>1. CASE PreviewChange(s)
    <2>1. PICK p \in Plans : /\ \A f \in Touches[p] : p \notin ws[s][f]
                             /\ Shows(s, Change(p, ws[s]))
        BY <1>1 DEF PreviewChange
    <2>2. ws[s] \in Snapshots
        BY <1>0 DEF TypeOK
    <2>3. pending'[s] = Change(p, ws[s])
        BY <1>0, <2>1, <2>2, ChangeFields, ShowsTyped
    <2> QED
        BY <2>1, <2>2, <2>3, ChangeFields DEF Fresh, Written, Plan
<1>2. CASE PreviewCompilation(s)
    <2>1. Shows(s, Build(previews')) /\ previews' \in 1 .. MaxPreviews
        BY <1>0, <1>2, ConstantsAssumption DEF PreviewCompilation, TypeOK
    <2>2. pending'[s] = Build(previews')
        BY <1>0, <2>1, BuildFields, ShowsTyped
    <2> QED
        BY <2>1, <2>2, BuildFields DEF Fresh, IsBuild
<1>3. CASE ~PreviewChange(s) /\ ~PreviewCompilation(s)
    <2>1. pending'[s] \in {pending[s], None}
        <3> USE <1>0 DEF Completes, TypeOK
        <3>1. CASE PreviewThrows(s) \/ Interrupt(s)
            BY <3>1 DEF PreviewThrows, Interrupt, Throws, Ends, Forgets
        <3>2. CASE Close(s)
            BY <3>2 DEF Close, Ends, Forgets
        <3>3. CASE PreviewChangeFails(s)
            BY <3>3 DEF PreviewChangeFails, Repairs
        <3>4. CASE PreviewCompilationFails(s) \/ PreviewCompilationLitters(s)
            BY <3>4 DEF PreviewCompilationFails, PreviewCompilationLitters
        <3>5. CASE \/ Discard(s) \/ Promote(s) \/ PromoteFails(s)
                   \/ PromoteLitters(s)
            BY <3>5 DEF Discard, Promote, PromoteFails, PromoteLitters
        <3> QED
            BY <1>3, <3>1, <3>2, <3>3, <3>4, <3>5 DEF Keeps, Previews
    <2> QED
        BY <2>1 DEF Fresh, Written, Plan, IsBuild
<1> QED
    BY <1>1, <1>2, <1>3

LEMMA EditsFresh ==
    ASSUME TInv, NEW s \in Sessions, Edits(s), Fresh(s)
    PROVE  Fresh(s)'
<1>1. pending'[s] \in {pending[s], None}
    BY DEF TInv, TypeOK, Edits, CheckFile, RefuseStale, CopyFile, ReplaceFile,
           Reload, ApplyFails, RestoreFile, RestoreFails, RolledBack, host, Completes
<1> QED
    BY <1>1 DEF Fresh, Written, Plan, IsBuild

\* A step that writes no source and leaves who is applying alone.
LEMMA QuietKeeps ==
    ASSUME NEW S, SInv, \A t \in Sessions : Fresh(t)',
           source' = source, ~disturbed' => ~disturbed,
           ~disturbed' => \A t \in Sessions \ S : UNCHANGED Private(t),
           ~disturbed' => \A t \in S : pc[t] \notin Applying /\ pc'[t] \notin Applying
    PROVE  SInv'
<1> SUFFICES ASSUME ~disturbed' PROVE AllKept' /\ \A p \in Plans : Whole(p)'
    BY DEF SInv
<1>1. AllKept /\ \A p \in Plans : Whole(p)
    BY DEF SInv
<1>2. \A t \in Sessions : pc[t] \in Applying \/ pc'[t] \in Applying =>
        /\ pc'[t] = pc[t] /\ pending'[t] = pending[t]
        /\ originals'[t] = originals[t] /\ replaced'[t] = replaced[t]
    BY DEF Private
<1>3. AllKept'
    BY <1>1, <1>2 DEF AllKept, Kept, Written, Candidate, Plan
<1>4. ASSUME NEW p \in Plans PROVE Whole(p)'
    <2>1. Whole(p)
        BY <1>1
    <2>2. CASE \E t \in Sessions : pc[t] \in Applying /\ Plan(t) = p
        BY <1>2, <2>2 DEF Whole, Plan
    <2>3. CASE \A f \in Touches[p] : p \in source[f]
        BY <2>3 DEF Whole
    <2>4. CASE \A f \in Touches[p] : p \notin source[f]
        BY <2>4 DEF Whole
    <2> QED
        BY <2>1, <2>2, <2>3, <2>4 DEF Whole
<1> QED
    BY <1>3, <1>4

\* What an undisturbed step of the editor writes: it adds its plan to a file
\* or takes it out again, and no other apply concerns that file.
Adds(s, f) ==
    /\ pc[s] = "replace" /\ pc'[s] \in {"replace", "reload"}
    /\ f \in Written(s) \ replaced[s]
    /\ replaced'[s] = replaced[s] \union {f}
    /\ source' = [source EXCEPT ![f] = @ \union {Plan(s)}]

Undoes(s, f) ==
    /\ pc[s] = "rollback" /\ pc'[s] = "rollback"
    /\ f \in Written(s) \intersect replaced[s]
    /\ replaced'[s] = replaced[s] \ {f}
    /\ source' = [source EXCEPT ![f] = @ \ {Plan(s)}]

Rewrites(s) ==
    \E f \in Files :
        /\ Adds(s, f) \/ Undoes(s, f)
        /\ \A t \in Sessions \ {s} : pc[t] \in Applying => f \notin Written(t)
        /\ originals'[s] = originals[s] /\ pending'[s] = pending[s]

LEMMA WriteEffect ==
    ASSUME TInv, SInv, NEW s \in Sessions, ~disturbed',
           ReplaceFile(s) \/ RestoreFile(s)
    PROVE  ~disturbed /\ Rewrites(s)
<1>0. /\ TypeOK /\ Sound(s) /\ Fresh(s) /\ pc[s] \in Applying
      /\ originals' = originals /\ pending' = pending
    BY DEF TInv, SInv, ReplaceFile, RestoreFile, Applying, host
<1>1. /\ Written(s) \in SUBSET Files /\ Plan(s) \in Plans
      /\ pending[s].base \in Snapshots
      /\ pending[s] # None /\ ~IsBuild(pending[s])
    BY <1>0, BusyIsChange DEF Sound, Phased, Busy
<1>2. \A f, content : Writes(f, content, Sessions \ {s}) =>
        /\ ~disturbed
        /\ \A t \in Sessions \ {s} : pc[t] \in Applying => f \notin Written(t)
    BY DEF Writes, Meddles, Written
<1>3. CASE ReplaceFile(s)
    <2>1. PICK f \in First(todo[s]) :
            /\ Writes(f, Candidate(s, f), Sessions \ {s})
            /\ replaced' = [replaced EXCEPT ![s] = @ \union {f}]
            /\ IF todo[s] = {f} THEN Goes(s, "reload") ELSE UNCHANGED pc
        BY <1>3 DEF ReplaceFile
    <2>2. f \in todo[s] /\ f \in Written(s) /\ f \notin replaced[s] /\ f \in Files
        BY <1>0, <1>1, <1>3, FirstLast DEF ReplaceFile, Sound, Progress
    <2>3. ~disturbed /\ Kept(s)
        BY <1>0, <1>2, <2>1 DEF SInv, AllKept
    <2>4. source[f] = pending[s].base[f] /\ Candidate(s, f) = source[f] \union {Plan(s)}
        BY <2>2, <2>3 DEF Kept, Candidate
    <2>5. Adds(s, f)
        BY <1>0, <1>3, <2>1, <2>2, <2>4 DEF Adds, Writes, ReplaceFile, Goes, TypeOK
    <2> QED
        BY <1>0, <1>2, <2>1, <2>2, <2>3, <2>5 DEF Rewrites
<1>4. CASE RestoreFile(s)
    <2>1. PICK f \in Last(replaced[s]) :
            /\ Writes(f, originals[s][f], Sessions \ {s})
            /\ replaced' = [replaced EXCEPT ![s] = @ \ {f}]
        BY <1>4 DEF RestoreFile
    <2>2. /\ f \in replaced[s] /\ f \in Written(s) /\ f \in Files
          /\ f \in DOMAIN originals[s]
        BY <1>0, <1>1, <1>4, FirstLast DEF RestoreFile, Sound, Progress, TypeOK
    <2>3. ~disturbed /\ Kept(s)
        BY <1>0, <1>2, <2>1 DEF SInv, AllKept
    <2>4. /\ source[f] = pending[s].base[f] \union {Plan(s)}
          /\ originals[s][f] = pending[s].base[f]
          /\ Plan(s) \notin pending[s].base[f]
        BY <1>0, <1>1, <2>2, <2>3 DEF Kept, Candidate, Fresh
    <2>5. originals[s][f] = source[f] \ {Plan(s)}
        BY <2>4
    <2>6. Undoes(s, f)
        BY <1>0, <1>4, <2>1, <2>2, <2>5 DEF Undoes, Writes, RestoreFile, TypeOK
    <2> QED
        BY <1>0, <1>2, <2>1, <2>2, <2>3, <2>6 DEF Rewrites
<1> QED
    BY <1>3, <1>4

\* The other steps of an undisturbed apply.
LEMMA ApplyEffect ==
    ASSUME TInv, SInv, NEW s \in Sessions, ~disturbed', Edits(s),
           ~ReplaceFile(s), ~RestoreFile(s)
    PROVE  ~disturbed /\ source' = source
BY DEF Edits, CheckFile, RefuseStale, CopyFile, Reload, ApplyFails,
       RestoreFails, RolledBack, disk

\* An apply that goes on keeps what it has written and copied.
LEMMA EditsKeep ==
    ASSUME TInv, CInv, SInv, NEW s \in Sessions, Edits(s), ~disturbed',
           pc'[s] \in Applying
    PROVE  Kept(s)'
<1>0. TypeOK /\ Sound(s)
    BY DEF TInv
<1>1. CASE ReplaceFile(s) \/ RestoreFile(s)
    <2>1. PICK f \in Files :
            /\ Adds(s, f) \/ Undoes(s, f)
            /\ originals'[s] = originals[s] /\ pending'[s] = pending[s]
        BY <1>1, WriteEffect DEF Rewrites
    <2>2. ~disturbed /\ pc[s] \in Applying /\ Kept(s) /\ Fresh(s)
        BY <1>1, WriteEffect DEF ReplaceFile, RestoreFile, SInv, AllKept, Applying
    <2>3. /\ Written(s)' = Written(s) /\ Plan(s)' = Plan(s)
          /\ Written(s) \in SUBSET Files /\ pending[s].base \in Snapshots
          /\ pending[s] # None /\ ~IsBuild(pending[s])
        BY <1>0, <2>1, <2>2, BusyIsChange DEF Written, Plan, Sound, Busy, Phased
    <2>4. \A g \in Files : source'[g] = IF g = f THEN source'[f] ELSE source[g]
        BY <1>0, <2>1 DEF Adds, Undoes, TypeOK, Snapshots
    <2>5. CASE Adds(s, f)
        <3>1. /\ source'[f] = source[f] \union {Plan(s)}
              /\ source[f] = pending[s].base[f]
            BY <1>0, <2>2, <2>5 DEF Adds, TypeOK, Snapshots, Kept
        <3> QED
            BY <2>1, <2>2, <2>3, <2>4, <2>5, <3>1 DEF Adds, Kept, Candidate
    <2>6. CASE Undoes(s, f)
        <3>1. /\ source'[f] = source[f] \ {Plan(s)}
              /\ source[f] = pending[s].base[f] \union {Plan(s)}
              /\ Plan(s) \notin pending[s].base[f]
            BY <1>0, <2>2, <2>3, <2>6
            DEF Undoes, TypeOK, Snapshots, Kept, Candidate, Fresh
        <3>2. source'[f] = pending[s].base[f]
            BY <3>1
        <3>3. /\ replaced'[s] = replaced[s] \ {f}
              /\ pending'[s] = pending[s] /\ originals'[s] = originals[s]
            BY <2>1, <2>6 DEF Undoes
        <3>4. ASSUME NEW g \in Written(s)
              PROVE  /\ g \in replaced'[s] => source'[g] = Candidate(s, g)
                     /\ g \notin replaced'[s] => source'[g] = pending[s].base[g]
            <4>1. CASE g = f
                BY <3>2, <3>3, <4>1
            <4>2. CASE g # f
                BY <2>2, <2>3, <2>4, <3>3, <4>2 DEF Kept
            <4> QED
                BY <4>1, <4>2
        <3>5. \A g : Candidate(s, g)' = Candidate(s, g)
            BY <2>3, <3>3 DEF Candidate
        <3> QED
            BY <2>2, <2>3, <3>3, <3>4, <3>5 DEF Kept
    <2> QED
        BY <2>1, <2>5, <2>6
<1>2. CASE ~ReplaceFile(s) /\ ~RestoreFile(s)
    <2>1. ~disturbed /\ source' = source
        BY <1>2, ApplyEffect
    <2>2. CASE CheckFile(s)
        <3>1. /\ pc[s] = "check" /\ pending' = pending
              /\ replaced' = replaced /\ originals' = originals
            BY <2>2 DEF CheckFile, host
        <3>2. PICK f \in First(todo[s]) :
                source[f] = pending[s].base[f] /\ Checked(s, f)
            BY <2>2 DEF CheckFile
        <3>3. replaced[s] = {} /\ originals[s] = Unread
            BY <1>0, <3>1 DEF Sound, Phased, Applying
        <3>4. todo[s] = {f}
            BY <3>1, <3>2 DEF Checked, Applying
        <3>5. \A g \in Written(s) : source[g] = pending[s].base[g]
            BY <2>1, <3>1, <3>2, <3>4 DEF CInv, Unmoved
        <3> QED
            BY <2>1, <3>1, <3>3, <3>5, UnreadTyped DEF Kept, Written, Plan
    <2>3. CASE CopyFile(s)
        <3>1. PICK f \in First(todo[s]) :
                originals' = [originals EXCEPT ![s] =
                   [g \in DOMAIN @ \union {f} |-> IF g = f THEN source[f] ELSE @[g]]]
            BY <2>3 DEF CopyFile
        <3>2. /\ pc[s] = "copy" /\ pending' = pending /\ replaced' = replaced
            BY <2>3 DEF CopyFile, host
        <3>3. Kept(s) /\ replaced[s] = {} /\ todo[s] \subseteq Written(s)
            BY <1>0, <2>1, <3>2 DEF SInv, AllKept, Applying, Sound, Progress
        <3>4. f \in Written(s) /\ f \in Files
            BY <1>0, <3>3, FirstLast DEF TypeOK
        <3>5. /\ DOMAIN originals'[s] = DOMAIN originals[s] \union {f}
              /\ originals'[s][f] = source[f]
              /\ \A g \in DOMAIN originals[s] :
                    g # f => originals'[s][g] = originals[s][g]
            BY <1>0, <3>1, <3>4, CopyTyped
        <3>6. source[f] = pending[s].base[f]
            BY <3>3, <3>4 DEF Kept
        <3> QED
            BY <2>1, <3>2, <3>3, <3>5, <3>6 DEF Kept, Written, Plan
    <2>4. CASE ApplyFails(s)
        <3>1. Kept(s) /\ UNCHANGED <<pending, replaced, originals>>
            BY <2>1, <2>4 DEF ApplyFails, host, writing, SInv, AllKept, Applying
        <3> QED
            BY <2>1, <3>1 DEF Kept, Written, Candidate, Plan
    <2>5. CASE RestoreFails(s)
        BY <2>5 DEF RestoreFails
    <2>6. CASE RefuseStale(s) \/ Reload(s) \/ RolledBack(s)
        <3>1. pc'[s] = "idle"
            BY <1>0, <2>6 DEF RefuseStale, Reload, RolledBack, Completes, Goes, TypeOK
        <3> QED
            BY <3>1 DEF Applying
    <2> QED
        BY <1>2, <2>2, <2>3, <2>4, <2>5, <2>6 DEF Edits
<1> QED
    BY <1>1, <1>2

\* An apply keeps the other ones, and ends with all of its files or none.
LEMMA EditsWhole ==
    ASSUME TInv, CInv, SInv, NEW s \in Sessions, Edits(s)
    PROVE  SInv'
<1>0. TypeOK /\ Sound(s) /\ \A t \in Sessions : Fresh(t)
    BY DEF TInv, SInv
<1>1. \A t \in Sessions : t # s =>
        /\ pc'[t] = pc[t] /\ pending'[t] = pending[t]
        /\ originals'[t] = originals[t] /\ replaced'[t] = replaced[t]
    BY <1>0, EditsAlone DEF Private
<1>2. \A t \in Sessions : Fresh(t)'
    BY <1>0, <1>1, EditsFresh DEF Fresh, Written, Plan, IsBuild
<1> SUFFICES ASSUME ~disturbed' PROVE AllKept' /\ \A p \in Plans : Whole(p)'
    BY <1>2 DEF SInv
<1>3. CASE ReplaceFile(s) \/ RestoreFile(s)
    <2>1. PICK f \in Files :
            /\ Adds(s, f) \/ Undoes(s, f)
            /\ \A t \in Sessions \ {s} : pc[t] \in Applying => f \notin Written(t)
            /\ pending'[s] = pending[s]
        BY <1>3, WriteEffect DEF Rewrites
    <2>2. AllKept /\ \A p \in Plans : Whole(p)
        BY <1>3, WriteEffect DEF SInv
    <2>3. \A g \in Files : g # f => source'[g] = source[g]
        BY <1>0, <2>1 DEF Adds, Undoes, TypeOK, Snapshots
    <2>4. AllKept'
        <3> SUFFICES ASSUME NEW t \in Sessions, pc'[t] \in Applying PROVE Kept(t)'
            BY DEF AllKept
        <3>1. CASE t = s
            BY <3>1, EditsKeep
        <3>2. CASE t # s
            <4>1. Kept(t) /\ f \notin Written(t) /\ Written(t) \in SUBSET Files
                BY <1>0, <1>1, <2>1, <2>2, <3>2, BusyIsChange
                DEF AllKept, TInv, Sound, Busy
            <4> QED
                BY <1>1, <2>3, <3>2, <4>1 DEF Kept, Written, Candidate, Plan
        <3> QED
            BY <3>1, <3>2
    <2>5. ASSUME NEW p \in Plans PROVE Whole(p)'
        <3>1. pc[s] \in Applying /\ pc'[s] \in Applying /\ Plan(s)' = Plan(s)
            BY <2>1 DEF Adds, Undoes, Applying, Plan
        <3>2. CASE p = Plan(s)
            BY <3>1, <3>2 DEF Whole
        <3>3. CASE p # Plan(s)
            <4>1. \A g \in Files : p \in source'[g] <=> p \in source[g]
                <5>1. \/ source'[f] = source[f] \union {Plan(s)}
                      \/ source'[f] = source[f] \ {Plan(s)}
                    BY <1>0, <2>1 DEF Adds, Undoes, TypeOK, Snapshots
                <5>2. p \in source'[f] <=> p \in source[f]
                    BY <3>3, <5>1
                <5> QED
                    BY <2>3, <5>2
            <4>2. Touches[p] \in SUBSET Files
                BY ConstantsAssumption
            <4>3. Whole(p)
                BY <2>2
            <4>4. \A t \in Sessions : pc[t] \in Applying /\ Plan(t) = p =>
                    pc'[t] \in Applying /\ Plan(t)' = p
                BY <1>1, <3>1 DEF Plan
            <4> QED
                BY <4>1, <4>2, <4>3, <4>4 DEF Whole
        <3> QED
            BY <3>2, <3>3
    <2> QED
        BY <2>4, <2>5
<1>4. CASE ~ReplaceFile(s) /\ ~RestoreFile(s)
    <2>1. source' = source /\ AllKept /\ \A p \in Plans : Whole(p)
        BY <1>4, ApplyEffect DEF SInv
    <2>2. AllKept'
        <3> SUFFICES ASSUME NEW t \in Sessions, pc'[t] \in Applying PROVE Kept(t)'
            BY DEF AllKept
        <3>1. CASE t = s
            BY <3>1, EditsKeep
        <3>2. CASE t # s
            BY <1>1, <2>1, <3>2 DEF AllKept, Kept, Written, Candidate, Plan
        <3> QED
            BY <3>1, <3>2
    <2>3. ASSUME NEW p \in Plans PROVE Whole(p)'
        <3>1. Whole(p)
            BY <2>1
        <3>2. CASE \/ \A f \in Touches[p] : p \in source[f]
                   \/ \A f \in Touches[p] : p \notin source[f]
            BY <2>1, <3>2 DEF Whole
        <3>3. ASSUME NEW t \in Sessions, pc[t] \in Applying, Plan(t) = p
              PROVE  Whole(p)'
            <4>1. CASE t # s
                BY <1>1, <3>3, <4>1 DEF Whole, Plan
            <4>2. CASE t = s /\ (CheckFile(s) \/ CopyFile(s) \/ ApplyFails(s)
                                 \/ RestoreFails(s))
                <5>1. pending' = pending /\ pc'[s] \in Applying
                    BY <1>0, <3>3, <4>2
                    DEF CheckFile, CopyFile, ApplyFails, RestoreFails, Goes,
                        host, Applying, TypeOK
                <5> QED
                    BY <3>3, <4>2, <5>1 DEF Whole, Plan
            <4>3. CASE t = s /\ Reload(s)
                <5>1. Kept(s) /\ replaced[s] = Written(s)
                    BY <1>0, <2>1, <3>3, <4>3 DEF AllKept, Reload, Sound, Progress
                <5>2. \A f \in Touches[p] : p \in source[f]
                    BY <3>3, <4>3, <5>1 DEF Kept, Candidate, Written
                <5> QED
                    BY <2>1, <5>2 DEF Whole
            <4>4. CASE t = s /\ RolledBack(s)
                <5>1. /\ Kept(s) /\ replaced[s] = {}
                      /\ \A f \in Written(s) : Plan(s) \notin pending[s].base[f]
                    BY <1>0, <2>1, <3>3, <4>4
                    DEF AllKept, RolledBack, Sound, Phased, Busy, Fresh
                <5>2. \A f \in Touches[p] : p \notin source[f]
                    BY <3>3, <4>4, <5>1 DEF Kept, Written
                <5> QED
                    BY <2>1, <5>2 DEF Whole
            <4>5. CASE t = s /\ RefuseStale(s)
                BY <3>3, <4>5 DEF RefuseStale, Applying
            <4> QED
                BY <1>4, <4>1, <4>2, <4>3, <4>4, <4>5 DEF Edits
        <3> QED
            BY <3>1, <3>2, <3>3 DEF Whole
    <2> QED
        BY <2>2, <2>3
<1> QED
    BY <1>3, <1>4

LEMMA TurnsWhole ==
    ASSUME TInv, SInv, NEW s \in Sessions, Talks(s) \/ Keeps(s)
    PROVE  SInv'
<1>1. TypeOK /\ source' = source /\ disturbed' = disturbed
      /\ pc[s] \notin Applying /\ pc'[s] \notin Applying
    BY TalksTyped, KeepsTyped
    DEF TInv, Sound, Handled, Resting, Asking, Applying
<1>2. \A t \in Sessions : t # s => UNCHANGED Private(t)
    BY <1>1, TalksAlone, KeepsAlone
<1>3. Fresh(s)'
    <2>1. CASE Talks(s)
        BY <2>1, TalksTyped DEF SInv, Fresh, Written, Plan, IsBuild
    <2> QED
        BY <2>1, KeepsFresh DEF SInv
<1>4. \A t \in Sessions : Fresh(t)'
    BY <1>2, <1>3 DEF SInv, Private, Fresh, Written, Plan, IsBuild
<1> DEFINE S == {s}
<1>5. /\ \A t \in Sessions \ S : UNCHANGED Private(t)
      /\ \A t \in S : pc[t] \notin Applying /\ pc'[t] \notin Applying
    BY <1>1, <1>2
<1>6. source' = source /\ (~disturbed' => ~disturbed)
    BY <1>1
<1> HIDE DEF S
<1> QED
    BY <1>4, <1>5, <1>6, QuietKeeps

LEMMA DieWhole ==
    ASSUME TInv, SInv, NEW s \in Sessions, Die(s)
    PROVE  SInv'
<1>0. TypeOK /\ Dying(s) \in SUBSET Sessions
    BY ConstantsAssumption DEF TInv, Dying
<1>1. /\ Forgets(Dying(s)) /\ source' = source
      /\ ~disturbed' => ~disturbed /\ \A t \in Dying(s) : pc[t] \notin Applying
    BY DEF Die, Dying
<1>2. /\ \A t \in Dying(s) : Gone(t)'
      /\ \A t \in Sessions \ Dying(s) : UNCHANGED Private(t)
    BY <1>0, <1>1, ForgetsTyped
<1>3. \A t \in Dying(s) : pc'[t] \notin Applying
    BY <1>2 DEF Gone, Applying
<1>4. \A t \in Sessions : Fresh(t)'
    BY <1>2 DEF SInv, Gone, Private, Fresh, Written, Plan, IsBuild
<1> QED
    BY <1>1, <1>2, <1>3, <1>4, QuietKeeps

LEMMA AuthorWhole ==
    ASSUME TInv, SInv, NEW f \in Files, AuthorSaves(f)
    PROVE  SInv'
<1>0. /\ TypeOK /\ source' = [source EXCEPT ![f] = @ \union {Author}]
      /\ UNCHANGED <<pc, pending, originals, replaced>>
    BY DEF TInv, AuthorSaves, host, writing
<1>1. /\ \A g \in Files : g # f => source'[g] = source[g]
      /\ \A p \in Plans, g \in Files : p \in source'[g] <=> p \in source[g]
    BY <1>0, ConstantsAssumption DEF TypeOK, Snapshots
<1>2. \A t \in Sessions : Fresh(t)'
    BY <1>0 DEF SInv, Fresh, Written, Plan, IsBuild
<1> SUFFICES ASSUME ~disturbed' PROVE AllKept' /\ \A p \in Plans : Whole(p)'
    BY <1>2 DEF SInv
<1>3. /\ AllKept /\ \A p \in Plans : Whole(p)
      /\ \A t \in Sessions : pc[t] \in Applying => f \notin Written(t)
    BY DEF AuthorSaves, Meddles, Written, SInv
<1>4. AllKept'
    <2> SUFFICES ASSUME NEW t \in Sessions, pc'[t] \in Applying PROVE Kept(t)'
        BY DEF AllKept
    <2>1. Kept(t) /\ f \notin Written(t) /\ Written(t) \in SUBSET Files
        BY <1>0, <1>3, BusyIsChange DEF AllKept, TInv, Sound, Busy
    <2> QED
        BY <1>0, <1>1, <2>1 DEF Kept, Written, Candidate, Plan
<1>5. ASSUME NEW p \in Plans PROVE Whole(p)'
    <2>1. Whole(p) /\ Touches[p] \in SUBSET Files
        BY <1>3, ConstantsAssumption
    <2> QED
        BY <1>0, <1>1, <2>1 DEF Whole, Plan
<1> QED
    BY <1>4, <1>5

LEMMA SStep == TInv /\ CInv /\ SInv /\ [Next]_vars => SInv'
<1> SUFFICES ASSUME TInv, CInv, SInv, [Next]_vars PROVE SInv'
    OBVIOUS
<1>1. CASE UNCHANGED vars
    BY <1>1 DEF vars, SInv, Fresh, AllKept, Kept, Whole, Written, Candidate, Plan,
                IsBuild
<1> QED
    BY <1>1, NextIsStep, TurnsWhole, EditsWhole, DieWhole, AuthorWhole

LEMMA SAlways == Spec => []SInv
BY SInit, SStep, TAlways, CAlways, PTL DEF Spec

\* A change set that was applied is in all of its files, one that was refused
\* or rolled back in none, unless a process died, a rollback failed or somebody
\* wrote meanwhile (WorkspaceEditor.apply, _rollback_replacements).
THEOREM ChangesAlwaysWhole == Spec => []ChangesAreWhole
<1>1. SInv => ChangesAreWhole
    BY DEF SInv, Whole, ChangesAreWhole
<1> QED
    BY <1>1, SAlways, PTL

\* Neither an apply nor a rollback takes out of a source what somebody else has
\* put there, unless it was saved after that file's fingerprint was compared
\* (WorkspaceEditor.apply, _current_source_fingerprints).
THEOREM EditsAlwaysKept == Spec => EditsKept
<1>1. TInv /\ SInv /\ [Next]_vars =>
        [~disturbed' =>
            \A f \in Files :
                source[f] \ source'[f] \subseteq
                    {Plan(s) : s \in {t \in Sessions : pc[t] = "rollback"}}]_vars
    <2> SUFFICES ASSUME TInv, SInv, Next, ~disturbed', NEW f \in Files
                 PROVE  source[f] \ source'[f] \subseteq
                            {Plan(s) : s \in {t \in Sessions : pc[t] = "rollback"}}
        OBVIOUS
    <2>0. TypeOK
        BY DEF TInv
    <2>1. ASSUME NEW s \in Sessions, Talks(s) \/ Keeps(s) PROVE source' = source
        BY <2>1, TalksTyped, KeepsTyped DEF TInv, Sound, Handled
    <2>2. ASSUME NEW s \in Sessions, Edits(s)
          PROVE  \/ source[f] \subseteq source'[f]
                 \/ pc[s] = "rollback" /\ source[f] \ source'[f] \subseteq {Plan(s)}
        <3>1. CASE ReplaceFile(s) \/ RestoreFile(s)
            <4>1. PICK g \in Files : Adds(s, g) \/ Undoes(s, g)
                BY <3>1, WriteEffect DEF Rewrites
            <4>2. source \in [Files -> Contents]
                BY <2>0 DEF TypeOK, Snapshots
            <4>3. CASE Adds(s, g)
                BY <4>2, <4>3 DEF Adds
            <4>4. CASE Undoes(s, g)
                <5>1. /\ pc[s] = "rollback"
                      /\ source'[f] = source[f] \/ source'[f] = source[f] \ {Plan(s)}
                    BY <4>2, <4>4 DEF Undoes
                <5> QED
                    BY <5>1
            <4> QED
                BY <4>1, <4>3, <4>4
        <3> QED
            BY <2>2, <3>1, ApplyEffect
    <2>3. ASSUME NEW s \in Sessions, Die(s) PROVE source' = source
        BY <2>3 DEF Die
    <2>4. ASSUME NEW g \in Files, AuthorSaves(g) PROVE source[f] \subseteq source'[f]
        BY <2>0, <2>4 DEF AuthorSaves, TypeOK, Snapshots
    <2> QED
        BY <2>1, <2>2, <2>3, <2>4, NextIsStep
<1> QED
    BY <1>1, TAlways, SAlways, PTL DEF Spec, EditsKept

=============================================================================
