------------------------- MODULE CompilationProofs -------------------------
(***************************************************************************)
(* Proofs about Compilation for any compilers and conversations, any       *)
(* source texts and any number of edits and deaths.                        *)
(***************************************************************************)
EXTENDS Compilation, TLAPS

-----------------------------------------------------------------------------
(* The steps of one compiler.                                              *)

LockSteps(p) ==
    \/ CreateLock(p) \/ SignLock(p) \/ SignFails(p) \/ JudgeLock(p)
    \/ ReclaimLock(p) \/ TimeOut(p) \/ ReleaseLock(p)

PreviewSteps(p) ==
    \/ Fingerprint(p) \/ ReadIds(p) \/ CopyIds(p) \/ CopyEnums(p)
    \/ ReadDestination(p) \/ PreviewFails(p) \/ Confirm(p) \/ Dismiss(p)
    \/ Check(p)

RunSteps(p) == Start(p) \/ Recover(p) \/ CopyLedgers(p) \/ Run(p)

EndSteps(p) ==
    \/ BeginPromotion(p) \/ Replace(p) \/ PromotionFails(p) \/ Commit(p)
    \/ Clean(p) \/ Die(p)

Step(p) == LockSteps(p) \/ PreviewSteps(p) \/ RunSteps(p) \/ EndSteps(p)

\* Next is an edit of the source or a step of some compiler.
LEMMA NextIsStep == Next <=> EditSource \/ \E p \in Procs : Step(p)
BY DEF Next, Step, LockSteps, PreviewSteps, RunSteps, EndSteps

\* A step of one compiler leaves what is private to another one alone.
Private(q) == <<pc[q], holds[q], staging[q], seen[q], todo[q], result[q]>>

LEMMA OthersUntouched ==
    ASSUME TypeOK, NEW p \in Procs, NEW q \in Procs, q # p, Step(p)
    PROVE  UNCHANGED Private(q)
<1> USE DEF TypeOK, Private, Goto, Report, Fail, lockVars, diskVars, procVars
<1>1. CASE LockSteps(p)
    BY <1>1 DEF LockSteps, CreateLock, SignLock, SignFails, JudgeLock,
                ReclaimLock, TimeOut, ReleaseLock
<1>2. CASE PreviewSteps(p)
    BY <1>2 DEF PreviewSteps, Fingerprint, ReadIds, CopyIds, CopyEnums,
                ReadDestination, PreviewFails, Confirm, Dismiss, Check
<1>3. CASE RunSteps(p)
    BY <1>3 DEF RunSteps, Start, Recover, CopyLedgers, Run
<1>4. CASE EndSteps(p)
    BY <1>4 DEF EndSteps, BeginPromotion, Replace, PromotionFails, Commit,
                Clean, Die
<1> QED
    BY <1>1, <1>2, <1>3, <1>4 DEF Step

-----------------------------------------------------------------------------
(* Types.                                                                  *)

\* The initial state is typed.
LEMMA TypeInit == Init => TypeOK
<1> SUFFICES ASSUME Init PROVE TypeOK
    OBVIOUS
<1>0. IsSnapshot(Empty) /\ \A s : IsSnapshot(Compiled(s, Empty))
    BY DEF IsSnapshot, Empty, Compiled, Files, Ledgers
<1>1. IsSnapshot(disk)
    BY <1>0 DEF Init, Workspaces
<1>2. IsSight(Blank)
    BY <1>0 DEF IsSight, Blank
<1>3. pc \in [Procs -> Labels] /\ result \in [Procs -> Results]
    BY DEF Init, Labels, Results
<1> QED
    <2>1. seen = [p \in Procs |-> seen[p]] /\ \A p \in Procs : IsSight(seen[p])
        BY <1>2 DEF Init
    <2>3. /\ staging = [p \in Procs |-> staging[p]]
          /\ \A p \in Procs : staging[p] = NoFiles
        BY DEF Init
    <2>2. /\ holds \in [Procs -> SUBSET Ledgers] /\ todo \in [Procs -> SUBSET Files]
          /\ lock \in [Ledgers -> Procs \cup {None}]
        BY DEF Init
    <2>4. edits \in 0..MaxEdits /\ source \in Sources
        BY ConstantsAssumption DEF Init
    <2> QED
        BY <1>1, <1>3, <2>1, <2>2, <2>3, <2>4 DEF Init, TypeOK

\* The lock files, who holds them and where the compilers are.
LEMMA TypeLock ==
    ASSUME TypeOK, NEW p \in Procs, LockSteps(p)
    PROVE  TypeOK'
<1> USE DEF TypeOK, IsSnapshot, Goto, Report, Labels, Results, Ledgers, Wanted,
            Innermost, lockVars, diskVars, procVars
<1>1. CASE CreateLock(p)
    BY <1>1 DEF CreateLock
<1>2. CASE SignLock(p)
    BY <1>2 DEF SignLock
<1>3. CASE SignFails(p)
    BY <1>3 DEF SignFails
<1>4. CASE JudgeLock(p)
    BY <1>4 DEF JudgeLock
<1>5. CASE ReclaimLock(p)
    BY <1>5 DEF ReclaimLock
<1>6. CASE TimeOut(p)
    BY <1>6 DEF TimeOut
<1>7. CASE ReleaseLock(p)
    BY <1>7 DEF ReleaseLock
<1> QED
    BY <1>1, <1>2, <1>3, <1>4, <1>5, <1>6, <1>7 DEF LockSteps

\* What a preview has read can be changed in part.
LEMMA SightUpdates ==
    ASSUME NEW s, IsSight(s), NEW x, NEW files, IsSnapshot(files)
    PROVE  /\ IsSight([s EXCEPT !.print = x])
           /\ IsSight([s EXCEPT !.ids = x])
           /\ IsSight([s EXCEPT !.before = files])
           /\ [s EXCEPT !.print = x].ids = s.ids
           /\ [s EXCEPT !.print = x].before = s.before
           /\ [s EXCEPT !.ids = x].ids = x
           /\ [s EXCEPT !.ids = x].before = s.before
           /\ [s EXCEPT !.before = files].ids = s.ids
           /\ [s EXCEPT !.before = files].before = files
<1> DEFINE t == [print |-> s.print, ids |-> s.ids, before |-> s.before]
<1>1. s = t /\ IsSnapshot(s.before)
    BY DEF IsSight
<1>2. /\ [t EXCEPT !.print = x] = [print |-> x, ids |-> s.ids, before |-> s.before]
      /\ [t EXCEPT !.ids = x] = [print |-> s.print, ids |-> x, before |-> s.before]
      /\ [t EXCEPT !.before = files]
            = [print |-> s.print, ids |-> s.ids, before |-> files]
    OBVIOUS
<1>3. \A u, v, w : IsSnapshot(w) =>
          IsSight([print |-> u, ids |-> v, before |-> w])
    BY DEF IsSight
<1> HIDE DEF t
<1>4. /\ [s EXCEPT !.print = x] = [print |-> x, ids |-> s.ids, before |-> s.before]
      /\ [s EXCEPT !.ids = x] = [print |-> s.print, ids |-> x, before |-> s.before]
      /\ [s EXCEPT !.before = files]
            = [print |-> s.print, ids |-> s.ids, before |-> files]
    BY <1>1, <1>2
<1> QED
    BY <1>1, <1>3, <1>4

\* What a preview has read is kept in full.
LEMMA TypePreview ==
    ASSUME TypeOK, NEW p \in Procs, PreviewSteps(p)
    PROVE  TypeOK'
<1> USE DEF TypeOK, Goto, Report, Fail, Labels, Results,
            lockVars, diskVars, procVars
<1>1. CASE Fingerprint(p)
    <2>1. seen' = [seen EXCEPT ![p] = [seen[p] EXCEPT !.print = source]]
        BY <1>1 DEF Fingerprint
    <2>2. IsSight([seen[p] EXCEPT !.print = source])
        BY SightUpdates
    <2> QED
        BY <1>1, <2>1, <2>2 DEF Fingerprint
<1>2. CASE ReadIds(p)
    <2>1. seen' = [seen EXCEPT ![p] = [seen[p] EXCEPT !.ids = disk["ids"]]]
        BY <1>2 DEF ReadIds
    <2>2. IsSight([seen[p] EXCEPT !.ids = disk["ids"]])
        BY SightUpdates
    <2> QED
        BY <1>2, <2>1, <2>2 DEF ReadIds
<1>3. CASE CopyIds(p)
    <2>1. IsSnapshot([Empty EXCEPT !["ids"] = disk["ids"]])
        BY DEF IsSnapshot, Empty, Files, Ledgers
    <2> QED
        BY <1>3, <2>1 DEF CopyIds
<1>4. CASE CopyEnums(p)
    <2>1. \/ staging[p] = NoFiles
          \/ IsSnapshot([staging[p] EXCEPT !["enums"] = disk["enums"]])
        BY DEF IsSnapshot
    <2>3. [NoFiles EXCEPT !["enums"] = disk["enums"]] = NoFiles
        BY DEF NoFiles
    <2>2. staging' = [staging EXCEPT
                          ![p] = [staging[p] EXCEPT !["enums"] = disk["enums"]]]
        BY <1>4 DEF CopyEnums
    <2> QED
        BY <1>4, <2>1, <2>2, <2>3 DEF CopyEnums
<1>5. CASE ReadDestination(p)
    <2>1. PICK f \in todo[p] :
              seen' = [seen EXCEPT ![p] = [seen[p] EXCEPT
                          !.before = [seen[p].before EXCEPT ![f] = disk[f]]]]
        BY <1>5, Zenon DEF ReadDestination
    <2>2. IsSnapshot([seen[p].before EXCEPT ![f] = disk[f]])
        BY DEF IsSnapshot, IsSight
    <2>3. IsSight([seen[p] EXCEPT
                      !.before = [seen[p].before EXCEPT ![f] = disk[f]]])
        BY <2>2, SightUpdates
    <2> QED
        BY <1>5, <2>1, <2>3, SMTT(40) DEF ReadDestination
<1>6. CASE PreviewFails(p)
    BY <1>6 DEF PreviewFails
<1>7. CASE Confirm(p)
    BY <1>7 DEF Confirm
<1>8. CASE Dismiss(p)
    BY <1>8 DEF Dismiss
<1>9. CASE Check(p)
    BY <1>9 DEF Check, Fresh, IdsUnchanged
<1> QED
    BY <1>1, <1>2, <1>3, <1>4, <1>5, <1>6, <1>7, <1>8, <1>9 DEF PreviewSteps

\* A run stages all files, and a recovery brings all of them back.
LEMMA TypeRun ==
    ASSUME TypeOK, NEW p \in Procs, RunSteps(p)
    PROVE  TypeOK'
<1> USE DEF TypeOK, Goto, Report, Fail, Labels, Results,
            lockVars, diskVars, procVars
<1>1. CASE Start(p)
    BY <1>1 DEF Start
<1>2. CASE Recover(p)
    BY <1>2 DEF Recover, Settled, Undo
<1>3. CASE CopyLedgers(p)
    <2>1. IsSnapshot([disk EXCEPT !["output"] = None])
        BY DEF IsSnapshot
    <2> QED
        BY <1>3, <2>1 DEF CopyLedgers
<1>4. CASE Run(p)
    <2>1. IsSnapshot(Compiled(source, staging[p]))
        BY DEF IsSnapshot, Compiled, Files, Ledgers
    <2>2. \/ staging' = staging
          \/ staging' = [staging EXCEPT ![p] = Compiled(source, staging[p])]
        BY <1>4 DEF Run
    <2>3. /\ staging' = [q \in Procs |-> staging'[q]]
          /\ \A q \in Procs : staging'[q] = NoFiles \/ IsSnapshot(staging'[q])
        BY <2>1, <2>2
    <2>4. /\ todo' \in [Procs -> SUBSET Files]
          /\ pc' \in [Procs -> Labels] /\ result' \in [Procs -> Results]
        BY <1>4 DEF Run
    <2> QED
        BY <1>4, <2>3, <2>4 DEF Run
<1> QED
    BY <1>1, <1>2, <1>3, <1>4 DEF RunSteps

\* A promotion replaces and restores single files.
LEMMA TypeEnd ==
    ASSUME TypeOK, NEW p \in Procs, EndSteps(p)
    PROVE  TypeOK'
<1> USE DEF TypeOK, Goto, Report, Fail, Labels, Results,
            lockVars, diskVars, procVars
<1>1. CASE BeginPromotion(p)
    BY <1>1 DEF BeginPromotion, Settled, Undo
<1>2. CASE Replace(p)
    <2>1. PICK f \in todo[p] : /\ disk' = [disk EXCEPT ![f] = staging[p][f]]
                               /\ todo' = [todo EXCEPT ![p] = @ \ {f}]
        BY <1>2 DEF Replace
    <2>2. IsSnapshot(disk')
        BY <2>1 DEF IsSnapshot
    <2>3. todo' \in [Procs -> SUBSET Files]
        BY <2>1
    <2> QED
        BY <1>2, <2>2, <2>3 DEF Replace
<1>3. CASE PromotionFails(p)
    BY <1>3 DEF PromotionFails, IsSnapshot, Undo
<1>4. CASE Commit(p)
    BY <1>4 DEF Commit
<1>5. CASE Clean(p)
    <2>1. IsSight(Blank)
        BY DEF IsSight, Blank, IsSnapshot, Empty, Files, Ledgers
    <2> QED
        BY <1>5, <2>1 DEF Clean
<1>6. CASE Die(p)
    <2>1. IsSight(Blank)
        BY DEF IsSight, Blank, IsSnapshot, Empty, Files, Ledgers
    <2> QED
        BY <1>6, <2>1 DEF Die
<1> QED
    BY <1>1, <1>2, <1>3, <1>4, <1>5, <1>6 DEF EndSteps

\* Every step leaves every variable typed.
LEMMA TypeStep == TypeOK /\ [Next]_vars => TypeOK'
<1> SUFFICES ASSUME TypeOK, [Next]_vars PROVE TypeOK'
    OBVIOUS
<1>1. CASE EditSource
    BY <1>1, ConstantsAssumption
    DEF EditSource, TypeOK, lockVars, diskVars, procVars
<1>2. ASSUME NEW p \in Procs, Step(p) PROVE TypeOK'
    BY <1>2, TypeLock, TypePreview, TypeRun, TypeEnd DEF Step
<1>3. CASE UNCHANGED vars
    BY <1>3 DEF vars, TypeOK, lockVars, diskVars, procVars
<1> QED
    BY <1>1, <1>2, <1>3, NextIsStep

\* Every variable keeps its type.
THEOREM TypeCorrect == Spec => []TypeOK
BY TypeInit, TypeStep, PTL DEF Spec

-----------------------------------------------------------------------------
(* Which locks a compiler owns at each place of the code.                  *)

Waiting == {"acquire", "sign", "reclaim"}
Looking == {"readIds", "copyIds", "copyEnums", "read", "pending"}

\* Where p reads or writes what the ID ledger's lock protects.
Guarded(p) ==
    \/ pc[p] \in {"recover", "copy", "check", "promote", "replace"}
    \/ pc[p] = "run" /\ p \notin Conversations

LockPhase(p) ==
    /\ holds[p] \subseteq LocksOf(p)
    /\ "enums" \in holds[p] => "ids" \in holds[p]
    /\ pc[p] \in Waiting => Wanted(p) \in LocksOf(p) \ holds[p]
    /\ Guarded(p) => "ids" \in holds[p]
    /\ pc[p] \in Looking \cup {"idle", "done", "dead"} => holds[p] = {}
    /\ pc[p] = "run" /\ p \in Conversations => holds[p] = {}
    /\ pc[p] \in {"recover", "copy"} => p \notin Conversations
    /\ pc[p] \in Looking \cup {"check"} => p \in Conversations

\* Whoever has the workspace lock is in a promotion, or died in one.
WorkspacePhase == ws # None => pc[ws] \in {"replace", "dead"}
ReplacePhase(p) == pc[p] = "replace" => ws = p

PlaceInv ==
    /\ TypeOK
    /\ \A p \in Procs : LockPhase(p) /\ ReplacePhase(p)
    /\ WorkspacePhase

LEMMA LockPhaseStep ==
    ASSUME TypeOK, NEW p \in Procs, Step(p), LockPhase(p)
    PROVE  LockPhase(p)'
<1> USE DEF TypeOK, LockPhase, Guarded, Waiting, Looking, LocksOf, Wanted, Ledgers,
            Goto, Report, Fail, lockVars, diskVars, procVars
<1>1. CASE LockSteps(p)
    <2>1. CASE CreateLock(p)
        BY <2>1 DEF CreateLock
    <2>2. CASE SignLock(p)
        BY <2>2 DEF SignLock
    <2>3. CASE SignFails(p)
        BY <2>3 DEF SignFails
    <2>4. CASE JudgeLock(p)
        BY <2>4 DEF JudgeLock
    <2>5. CASE ReclaimLock(p)
        BY <2>5 DEF ReclaimLock
    <2>6. CASE TimeOut(p)
        BY <2>6 DEF TimeOut
    <2>7. CASE ReleaseLock(p)
        BY <2>7 DEF ReleaseLock, Innermost
    <2> QED
        BY <1>1, <2>1, <2>2, <2>3, <2>4, <2>5, <2>6, <2>7 DEF LockSteps
<1>2. CASE PreviewSteps(p)
    BY <1>2 DEF PreviewSteps, Fingerprint, ReadIds, CopyIds, CopyEnums,
                ReadDestination, PreviewFails, Confirm, Dismiss, Check
<1>3. CASE RunSteps(p)
    BY <1>3 DEF RunSteps, Start, Recover, CopyLedgers, Run
<1>4. CASE EndSteps(p)
    BY <1>4 DEF EndSteps, BeginPromotion, Replace, PromotionFails, Commit,
                Clean, Die
<1> QED
    BY <1>1, <1>2, <1>3, <1>4 DEF Step

\* Only the ends of promotions and recoveries change who has the workspace.
LEMMA WorkspaceStep ==
    ASSUME PlaceInv, NEW p \in Procs, Step(p)
    PROVE  WorkspacePhase' /\ \A q \in Procs : ReplacePhase(q)'
<1> USE DEF PlaceInv, TypeOK, WorkspacePhase, ReplacePhase, WorkspaceFree, Exited,
            Goto, Report, Fail, lockVars, diskVars, procVars
<1>a. None \notin Procs
    BY ConstantsAssumption
<1>1. CASE LockSteps(p)
    BY <1>1, <1>a DEF LockSteps, CreateLock, SignLock, SignFails, JudgeLock,
                ReclaimLock, TimeOut, ReleaseLock
<1>2. CASE PreviewSteps(p)
    BY <1>2, <1>a DEF PreviewSteps, Fingerprint, ReadIds, CopyIds, CopyEnums,
                ReadDestination, PreviewFails, Confirm, Dismiss, Check
<1>3. CASE RunSteps(p)
    BY <1>3, <1>a DEF RunSteps, Start, Recover, CopyLedgers, Run
<1>4. CASE EndSteps(p)
    BY <1>4, <1>a DEF EndSteps, BeginPromotion, Replace, PromotionFails, Commit,
                Clean, Die
<1> QED
    BY <1>1, <1>2, <1>3, <1>4 DEF Step

\* Everybody stays where their locks allow.
LEMMA PlaceStep == PlaceInv /\ [Next]_vars => PlaceInv'
<1> SUFFICES ASSUME PlaceInv, [Next]_vars PROVE PlaceInv'
    OBVIOUS
<1>1. TypeOK'
    BY TypeStep DEF PlaceInv
<1>2. ASSUME NEW p \in Procs, Step(p) PROVE PlaceInv'
    <2>1. \A q \in Procs : LockPhase(q)'
        <3> TAKE q \in Procs
        <3>1. CASE q = p
            BY <1>2, <3>1, LockPhaseStep DEF PlaceInv
        <3>2. CASE q # p
            BY <1>2, <3>2, OthersUntouched
            DEF PlaceInv, Private, LockPhase, Guarded, Wanted
        <3> QED
            BY <3>1, <3>2
    <2> QED
        BY <1>1, <1>2, <2>1, WorkspaceStep DEF PlaceInv
<1>3. CASE EditSource \/ UNCHANGED vars
    BY <1>1, <1>3 DEF EditSource, vars, lockVars, diskVars, procVars, PlaceInv,
       LockPhase, Guarded, Wanted, ReplacePhase, WorkspacePhase
<1> QED
    BY <1>2, <1>3, NextIsStep

LEMMA PlaceInit == Init => PlaceInv
<1> SUFFICES ASSUME Init PROVE PlaceInv
    OBVIOUS
<1>1. \A p \in Procs : LockPhase(p) /\ ReplacePhase(p)
    BY DEF Init, LockPhase, ReplacePhase, Guarded, Waiting, Looking
<1> QED
    BY <1>1, TypeInit DEF Init, PlaceInv, WorkspacePhase

LEMMA PlaceAlways == Spec => []PlaceInv
BY PlaceInit, PlaceStep, PTL DEF Spec

\* Compilers never wait for one another in a circle: whoever has the workspace
\* waits for nobody, and whoever waits for the enum numbers has the IDs, for
\* which nobody who has the enum numbers waits.
THEOREM LocksNeverCycle == Spec => []NoLockCycle
<1>1. PlaceInv => NoLockCycle
    <2> SUFFICES ASSUME PlaceInv, NEW S \in (SUBSET Procs) \ {{}},
                        \A p \in S : \E q \in S : Waits(p, q)
                 PROVE  FALSE
        BY DEF NoLockCycle
    <2> USE DEF PlaceInv
    <2>1. \A p \in S : pc[p] \in {"acquire", "recover", "promote"}
        BY DEF Waits
    <2>2. \A p \in S : pc[p] = "acquire"
        <3> SUFFICES ASSUME NEW p \in S, pc[p] # "acquire" PROVE FALSE
            OBVIOUS
        <3>1. ws \in S
            BY DEF Waits
        <3> QED
            BY <2>1, <3>1, ConstantsAssumption DEF WorkspacePhase
    <2>3. \A p, q \in S : Waits(p, q) => "ids" \in holds[q] /\ "ids" \notin holds[p]
        <3> TAKE p, q \in S
        <3>1. pc[p] = "acquire" /\ pc[q] = "acquire"
            BY <2>2
        <3>2. "enums" \notin holds[q]
            BY <3>1 DEF LockPhase, Waiting, Wanted, LocksOf, Ledgers
        <3> QED
            BY <3>1, <3>2 DEF Waits, Wanted
    <2>4. \E p \in S : TRUE
        OBVIOUS
    <2>5. PICK p \in S, q \in S : Waits(p, q)
        BY <2>4
    <2>6. PICK r \in S : Waits(q, r)
        OBVIOUS
    <2> QED
        BY <2>3, <2>5, <2>6
<1> QED
    BY <1>1, PlaceAlways, PTL

-----------------------------------------------------------------------------
(* What is staged, promoted and reported.                                  *)

\* What p has staged is a complete result.
Built(p) ==
    \/ pc[p] \in {"promote", "replace"}
    \/ p \in Conversations /\ pc[p] \in Waiting \cup {"read", "pending", "check"}

Matches(files) ==
    /\ IsSnapshot(files)
    /\ files["output"].ids = files["ids"]
    /\ files["output"].enums = files["enums"]

\* In a promotion the files already visited are the staged ones and the others
\* are as the journal has them.
HalfDone(p) ==
    /\ IsSnapshot(journal)
    /\ disk = [f \in Files |-> IF f \in todo[p] THEN journal[f]
                                               ELSE staging[p][f]]
    /\ p \in Conversations => journal = seen[p].before

WorkPhase(p) ==
    /\ pc[p] \notin {"release", "done", "dead"} => result[p] = "none"
    /\ Built(p) => Matches(staging[p])
    /\ pc[p] = "replace" => HalfDone(p)

WorkInv ==
    /\ PlaceInv
    /\ \A p \in Procs : WorkPhase(p)
    /\ OutputMatchesLedgers

\* A snapshot is not the absence of one.
LEMMA SnapshotsExist == ASSUME NEW files, IsSnapshot(files) PROVE files # NoFiles
<1>1. DOMAIN files = Files /\ DOMAIN NoFiles = {} /\ "ids" \in Files
    BY DEF IsSnapshot, NoFiles, Files, Ledgers
<1> QED
    BY <1>1

\* What a compilation stages matches whatever it started from.
LEMMA CompiledMatches ==
    ASSUME NEW s, NEW from
    PROVE  Matches(Compiled(s, from))
BY DEF Matches, Compiled, IsSnapshot, Files, Ledgers

\* A promotion keeps the files and the journal from everybody else.
LEMMA PromotionAlone ==
    ASSUME PlaceInv, NEW p \in Procs, NEW q \in Procs, p # q, Step(q),
           pc[p] = "replace", IsSnapshot(journal)
    PROVE  UNCHANGED <<disk, journal>>
<1>1. ws = p /\ pc[q] # "replace" /\ ~WorkspaceFree(q)
    BY ConstantsAssumption
    DEF PlaceInv, ReplacePhase, WorkspaceFree, Exited
<1>2. journal # NoFiles
    BY SnapshotsExist
<1> USE DEF lockVars, diskVars, procVars
<1>3. CASE LockSteps(q)
    BY <1>3 DEF LockSteps, CreateLock, SignLock, SignFails, JudgeLock,
                ReclaimLock, TimeOut, ReleaseLock
<1>4. CASE PreviewSteps(q)
    BY <1>4 DEF PreviewSteps, Fingerprint, ReadIds, CopyIds, CopyEnums,
                ReadDestination, PreviewFails, Confirm, Dismiss, Check
<1>5. CASE RunSteps(q)
    BY <1>1, <1>2, <1>5 DEF RunSteps, Start, Recover, CopyLedgers, Run
<1>6. CASE EndSteps(q)
    BY <1>1, <1>6 DEF EndSteps, BeginPromotion, Replace, PromotionFails, Commit,
                Clean, Die
<1> QED
    BY <1>3, <1>4, <1>5, <1>6 DEF Step

\* Undone, the workspace is a snapshot.
LEMMA SettledIsSnapshot == TypeOK => IsSnapshot(Settled)
BY DEF TypeOK, Settled

\* Only a commit changes what the workspace comes to.
LEMMA OnlyCommitSettles ==
    ASSUME WorkInv, NEW p \in Procs, Step(p), ~Commit(p)
    PROVE  Settled' = Settled
<1> USE DEF WorkInv, PlaceInv, lockVars, diskVars, procVars
<1>1. CASE LockSteps(p)
    BY <1>1 DEF LockSteps, CreateLock, SignLock, SignFails, JudgeLock,
                ReclaimLock, TimeOut, ReleaseLock, Settled
<1>2. CASE PreviewSteps(p)
    BY <1>2 DEF PreviewSteps, Fingerprint, ReadIds, CopyIds, CopyEnums,
                ReadDestination, PreviewFails, Confirm, Dismiss, Check, Settled
<1>3. CASE Recover(p)
    BY <1>3 DEF Recover, Settled
<1>4. CASE Start(p) \/ CopyLedgers(p) \/ Run(p) \/ Clean(p) \/ Die(p)
    BY <1>4 DEF Start, CopyLedgers, Run, Clean, Die, Settled
<1>5. CASE BeginPromotion(p)
    <2>1. Settled # NoFiles
        BY SettledIsSnapshot, SnapshotsExist
    <2>2. disk' = Settled /\ journal' \in {Settled, NoFiles}
        BY <1>5 DEF BeginPromotion
    <2> QED
        BY <2>1, <2>2 DEF Settled
<1>6. CASE Replace(p)
    <2>1. IsSnapshot(journal) /\ journal' = journal
        BY <1>6 DEF Replace, WorkPhase, HalfDone
    <2> QED
        BY <2>1, SnapshotsExist DEF Settled
<1>7. CASE PromotionFails(p)
    <2>1. IsSnapshot(journal)
        BY <1>7 DEF PromotionFails, WorkPhase, HalfDone
    <2>2. PICK S \in SUBSET Files :
              /\ disk' = [f \in Files |-> IF f \in S THEN journal[f] ELSE disk[f]]
              /\ journal' = IF S = Files THEN NoFiles ELSE journal
        BY <1>7 DEF PromotionFails
    <2>3. CASE S = Files
        <3>1. disk' = [f \in Files |-> journal[f]]
            BY <2>2, <2>3
        <3> QED
            BY <2>1, <2>2, <2>3, <3>1, SnapshotsExist DEF Settled, IsSnapshot
    <2>4. CASE S # Files
        BY <2>1, <2>2, <2>4, SnapshotsExist DEF Settled
    <2> QED
        BY <2>3, <2>4
<1> QED
    BY <1>1, <1>2, <1>3, <1>4, <1>5, <1>6, <1>7 DEF Step, RunSteps, EndSteps

\* A commit puts the staged files in the place of the journal's.
LEMMA CommitSettles ==
    ASSUME WorkInv, NEW p \in Procs, Commit(p)
    PROVE  /\ Settled = journal /\ Settled' = staging[p]
           /\ Matches(staging[p])
<1> USE DEF WorkInv, WorkPhase, HalfDone, Commit
<1>1. IsSnapshot(journal) /\ Matches(staging[p])
    BY DEF Built
<1>2. disk = [f \in Files |-> staging[p][f]]
    OBVIOUS
<1>3. disk' = staging[p]
    BY <1>1, <1>2 DEF Matches, IsSnapshot
<1> QED
    BY <1>1, <1>3, SnapshotsExist DEF Settled

\* A report is made at the end only.
LEMMA ReportStep ==
    ASSUME WorkInv, NEW p \in Procs, Step(p),
           pc'[p] \notin {"release", "done", "dead"}
    PROVE  result'[p] = "none"
<1> USE DEF WorkInv, PlaceInv, TypeOK, WorkPhase, Goto, Report, Fail,
            lockVars, diskVars, procVars
<1>1. CASE LockSteps(p)
    BY <1>1 DEF LockSteps, CreateLock, SignLock, SignFails, JudgeLock,
                ReclaimLock, TimeOut, ReleaseLock
<1>2. CASE PreviewSteps(p)
    BY <1>2 DEF PreviewSteps, Fingerprint, ReadIds, CopyIds, CopyEnums,
                ReadDestination, PreviewFails, Confirm, Dismiss, Check
<1>3. CASE RunSteps(p)
    BY <1>3 DEF RunSteps, Start, Recover, CopyLedgers, Run
<1>4. CASE EndSteps(p)
    BY <1>4 DEF EndSteps, BeginPromotion, Replace, PromotionFails, Commit,
                Clean, Die
<1> QED
    BY <1>1, <1>2, <1>3, <1>4 DEF Step

\* A run stages a complete result, and nothing changes it before the end.
LEMMA BuiltStep ==
    ASSUME WorkInv, NEW p \in Procs, Step(p), Built(p)'
    PROVE  Matches(staging'[p])
<1> USE DEF WorkInv, PlaceInv, TypeOK, WorkPhase, LockPhase, Goto, Report, Fail,
            Built, Waiting, Looking, LocksOf, lockVars, diskVars, procVars
<1>1. CASE LockSteps(p)
    BY <1>1 DEF LockSteps, CreateLock, SignLock, SignFails, JudgeLock,
                ReclaimLock, TimeOut, ReleaseLock
<1>2. CASE PreviewSteps(p)
    BY <1>2 DEF PreviewSteps, Fingerprint, ReadIds, CopyIds, CopyEnums,
                ReadDestination, PreviewFails, Confirm, Dismiss, Check
<1>3. CASE Run(p)
    <2>1. pc'[p] # "release"
        OBVIOUS
    <2>2. staging' = [staging EXCEPT ![p] = Compiled(source, staging[p])]
        BY <1>3, <2>1 DEF Run
    <2> QED
        BY <2>2, CompiledMatches
<1>4. CASE Start(p) \/ Recover(p) \/ CopyLedgers(p)
    BY <1>4 DEF Start, Recover, CopyLedgers
<1>5. CASE EndSteps(p)
    BY <1>5 DEF EndSteps, BeginPromotion, Replace, PromotionFails, Commit,
                Clean, Die
<1> QED
    BY <1>1, <1>2, <1>3, <1>4, <1>5 DEF Step, RunSteps

\* A promotion goes from the journal's files to the staged ones.
LEMMA HalfDoneStep ==
    ASSUME WorkInv, NEW p \in Procs, Step(p), pc'[p] = "replace"
    PROVE  HalfDone(p)'
<1> USE DEF WorkInv, PlaceInv, TypeOK, Goto, Report, Fail,
            lockVars, diskVars, procVars
<1>1. CASE LockSteps(p)
    BY <1>1 DEF LockSteps, CreateLock, SignLock, SignFails, JudgeLock,
                ReclaimLock, TimeOut, ReleaseLock
<1>2. CASE PreviewSteps(p)
    BY <1>2 DEF PreviewSteps, Fingerprint, ReadIds, CopyIds, CopyEnums,
                ReadDestination, PreviewFails, Confirm, Dismiss, Check
<1>3. CASE RunSteps(p)
    BY <1>3 DEF RunSteps, Start, Recover, CopyLedgers, Run
<1>4. CASE BeginPromotion(p)
    <2>1. /\ disk' = Settled /\ journal' = Settled /\ todo'[p] = Files
          /\ seen' = seen /\ Validated(p)
        BY <1>4 DEF BeginPromotion
    <2>2. IsSnapshot(Settled)
        BY SettledIsSnapshot
    <2>3. p \in Conversations => Settled = seen[p].before
        BY <2>1 DEF Validated, Fresh
    <2> QED
        BY <2>1, <2>2, <2>3 DEF HalfDone, IsSnapshot
<1>5. CASE Replace(p)
    <2>1. HalfDone(p) /\ Matches(staging[p])
        BY <1>5 DEF Replace, WorkPhase, Built
    <2>2. PICK f \in todo[p] : /\ disk' = [disk EXCEPT ![f] = staging[p][f]]
                               /\ todo' = [todo EXCEPT ![p] = @ \ {f}]
        BY <1>5 DEF Replace
    <2>3. f \in Files /\ todo'[p] = todo[p] \ {f}
        BY <2>2
    <2>4. disk' = [g \in Files |-> IF g \in todo'[p] THEN journal[g]
                                                   ELSE staging[p][g]]
        BY <2>1, <2>2, <2>3 DEF HalfDone
    <2> QED
        BY <1>5, <2>1, <2>4 DEF Replace, HalfDone
<1>6. CASE PromotionFails(p) \/ Commit(p) \/ Clean(p) \/ Die(p)
    BY <1>6 DEF PromotionFails, Commit, Clean, Die
<1> QED
    BY <1>1, <1>2, <1>3, <1>4, <1>5, <1>6 DEF Step, EndSteps

\* What is published keeps matching.
LEMMA OutputStep ==
    ASSUME WorkInv, NEW p \in Procs, Step(p)
    PROVE  OutputMatchesLedgers'
<1>1. CASE Commit(p)
    BY <1>1, CommitSettles DEF OutputMatchesLedgers, Matches
<1>2. CASE ~Commit(p)
    BY <1>2, OnlyCommitSettles DEF WorkInv, OutputMatchesLedgers
<1> QED
    BY <1>1, <1>2

LEMMA WorkStep == WorkInv /\ [Next]_vars => WorkInv'
<1> SUFFICES ASSUME WorkInv, [Next]_vars PROVE WorkInv'
    OBVIOUS
<1>1. PlaceInv'
    BY PlaceStep DEF WorkInv
<1>2. ASSUME NEW p \in Procs, Step(p) PROVE WorkInv'
    <2>1. ASSUME NEW q \in Procs PROVE WorkPhase(q)'
        <3>1. CASE q = p
            BY <1>2, <3>1, ReportStep, BuiltStep, HalfDoneStep DEF WorkPhase
        <3>2. CASE q # p
            <4>1. UNCHANGED Private(q) /\ WorkPhase(q)
                BY <1>2, <3>2, OthersUntouched DEF WorkInv, PlaceInv
            <4>2. pc[q] = "replace" => UNCHANGED <<disk, journal>>
                BY <1>2, <3>2, <4>1, PromotionAlone
                DEF WorkInv, WorkPhase, HalfDone
            <4> QED
                BY <4>1, <4>2 DEF Private, WorkPhase, Built, HalfDone
        <3> QED
            BY <3>1, <3>2
    <2> QED
        BY <1>1, <1>2, <2>1, OutputStep DEF WorkInv
<1>3. CASE EditSource \/ UNCHANGED vars
    BY <1>1, <1>3 DEF EditSource, vars, lockVars, diskVars, procVars, WorkInv,
       WorkPhase, Built, HalfDone, OutputMatchesLedgers, Settled
<1> QED
    BY <1>2, <1>3, NextIsStep

LEMMA WorkInit == Init => WorkInv
<1> SUFFICES ASSUME Init PROVE WorkInv
    OBVIOUS
<1>1. Empty["output"] = None
    BY DEF Empty
<1>2. disk = Empty \/ Matches(disk)
    BY CompiledMatches DEF Init, Workspaces
<1>3. OutputMatchesLedgers
    BY <1>1, <1>2 DEF Init, OutputMatchesLedgers, Settled, Matches
<1>4. \A p \in Procs : WorkPhase(p)
    BY DEF Init, WorkPhase, Built, Waiting
<1> QED
    BY <1>3, <1>4, PlaceInit DEF WorkInv

LEMMA WorkAlways == Spec => []WorkInv
BY WorkInit, WorkStep, PTL DEF Spec

\* Artifacts and ledgers come from one compilation, whatever fails or dies.
THEOREM OutputAlwaysMatches == Spec => []OutputMatchesLedgers
<1>1. WorkInv => OutputMatchesLedgers
    BY DEF WorkInv
<1> QED
    BY <1>1, WorkAlways, PTL

\* A confirmed preview replaces the very files it was compared with.
THEOREM AppliedAlwaysShown == Spec => []AppliedOverShown
<1>1. WorkInv => AppliedOverShown
    BY ConstantsAssumption DEF WorkInv, WorkPhase, HalfDone, AppliedOverShown
<1> QED
    BY <1>1, WorkAlways, PTL

\* Whatever changes in the end was reported as committed at that very step, and
\* stays reported.
THEOREM ChangesAlwaysReported == Spec => ChangesAreReported
<1>1. WorkInv /\ [Next]_vars =>
          [/\ Settled' # Settled =>
                 \E p \in Procs : /\ result[p] # "committed"
                                  /\ result'[p] = "committed"
           /\ \A p \in Procs : result[p] = "committed" => result'[p] = "committed"
          ]_vars
    <2> DEFINE Reported ==
            /\ Settled' # Settled =>
                  \E p \in Procs : /\ result[p] # "committed"
                                   /\ result'[p] = "committed"
            /\ \A p \in Procs : result[p] = "committed" => result'[p] = "committed"
    <2> SUFFICES ASSUME WorkInv, Next PROVE Reported
        OBVIOUS
    <2>1. CASE EditSource
        BY <2>1 DEF EditSource, diskVars, procVars, Settled
    <2>2. ASSUME NEW p \in Procs, Step(p) PROVE Reported
        <3>1. Settled' # Settled => /\ result[p] # "committed"
                                    /\ result'[p] = "committed"
            <4>1. CASE Commit(p)
                BY <4>1 DEF Commit, Report, WorkInv, WorkPhase, PlaceInv, TypeOK
            <4>2. CASE ~Commit(p)
                BY <2>2, <4>2, OnlyCommitSettles
            <4> QED
                BY <4>1, <4>2
        <3>2. result[p] = "committed" => result'[p] = "committed"
            <4> SUFFICES ASSUME result[p] = "committed"
                         PROVE  result'[p] = "committed"
                OBVIOUS
            <4> USE DEF lockVars, diskVars, procVars
            <4>1. pc[p] \in {"release", "done", "dead"}
                BY DEF WorkInv, WorkPhase
            <4>2. CASE LockSteps(p)
                BY <4>1, <4>2
                DEF LockSteps, CreateLock, SignLock, SignFails, JudgeLock,
                    ReclaimLock, TimeOut, ReleaseLock
            <4>3. CASE PreviewSteps(p)
                BY <4>1, <4>3
                DEF PreviewSteps, Fingerprint, ReadIds, CopyIds, CopyEnums,
                    ReadDestination, PreviewFails, Confirm, Dismiss, Check
            <4>4. CASE RunSteps(p)
                BY <4>1, <4>4 DEF RunSteps, Start, Recover, CopyLedgers, Run
            <4>5. CASE EndSteps(p)
                BY <4>1, <4>5
                DEF EndSteps, BeginPromotion, Replace, PromotionFails, Commit,
                    Clean, Die, Report, WorkInv, PlaceInv, TypeOK
            <4> QED
                BY <2>2, <4>2, <4>3, <4>4, <4>5 DEF Step
        <3>3. ASSUME NEW q \in Procs, q # p PROVE result'[q] = result[q]
            BY <2>2, <3>3, OthersUntouched DEF Private, WorkInv, PlaceInv
        <3> QED
            BY <3>1, <3>2, <3>3
    <2> QED
        BY <2>1, <2>2, NextIsStep
<1> QED
    BY <1>1, WorkAlways, PTL DEF Spec, ChangesAreReported

-----------------------------------------------------------------------------
(* The ID ledger.                                                          *)

\* As long as nobody has lost a lock, the file is its owner's.
HolderPhase(p) ==
    ~stolen => /\ \A l \in holds[p] : lock[l] = p
               /\ pc[p] = "sign" => lock[Wanted(p)] = p

\* Where a preview has copied the IDs it has compared them with.
Copied(p) == pc[p] \in Waiting \cup {"copyEnums", "run", "read", "pending",
                                     "check", "promote", "replace"}

\* The IDs that p will replace are extended by those that p has staged.
ReadPhase(p) ==
    /\ pc[p] = "copyIds" => Extends(seen[p].ids, disk["ids"])
    /\ Copied(p) => Extends(seen[p].ids, staging[p]["ids"])
    /\ pc[p] \in {"promote", "replace"} => seen[p].before["ids"] = seen[p].ids

DirectPhase(p) ==
    /\ pc[p] \in {"copy", "run", "promote"} => journal = NoFiles
    /\ pc[p] \in {"run", "promote"} => Extends(disk["ids"], staging[p]["ids"])

IdsPhase(p) ==
    /\ p \in Conversations => ReadPhase(p)
    /\ p \notin Conversations => DirectPhase(p)
    /\ pc[p] = "replace" => Extends(journal["ids"], staging[p]["ids"])

IdsInv ==
    /\ WorkInv
    /\ \A p \in Procs : HolderPhase(p)
    /\ ~stolen /\ ~caught => \A p \in Procs : IdsPhase(p)

LEMMA ExtendsItself == \A f : Extends(f, f)
BY DEF Extends

LEMMA ExtendsOnwards ==
    ASSUME NEW f, NEW g, NEW h, Extends(f, g), Extends(g, h)
    PROVE  Extends(f, h)
BY DEF Extends

\* An allocation keeps the IDs there are.
LEMMA AllocationExtends == \A names, ids : Extends(ids, AllocatedIds(names, ids))
BY DEF Extends, AllocatedIds

\* What has gone wrong stays gone wrong.
LEMMA HistoryGrows ==
    ASSUME TypeOK, NEW p \in Procs, Step(p)
    PROVE  (stolen => stolen') /\ (caught => caught')
<1> USE DEF lockVars, diskVars, procVars, Undo
<1>0. stolen \in BOOLEAN /\ caught \in BOOLEAN
    BY DEF TypeOK
<1>1. CASE LockSteps(p)
    BY <1>0, <1>1 DEF LockSteps, CreateLock, SignLock, SignFails, JudgeLock,
                ReclaimLock, TimeOut, ReleaseLock
<1>2. CASE PreviewSteps(p)
    BY <1>0, <1>2 DEF PreviewSteps, Fingerprint, ReadIds, CopyIds, CopyEnums,
                ReadDestination, PreviewFails, Confirm, Dismiss, Check
<1>3. CASE RunSteps(p)
    BY <1>0, <1>3 DEF RunSteps, Start, Recover, CopyLedgers, Run
<1>4. CASE EndSteps(p)
    BY <1>0, <1>4 DEF EndSteps, BeginPromotion, Replace, PromotionFails, Commit,
                Clean, Die
<1> QED
    BY <1>1, <1>2, <1>3, <1>4 DEF Step

\* A lock is created where there is none, and unlinked by its owner or a thief.
LEMMA HolderStep ==
    ASSUME PlaceInv, \A r \in Procs : HolderPhase(r), NEW p \in Procs, Step(p)
    PROVE  \A q \in Procs : HolderPhase(q)'
<1> SUFFICES ASSUME NEW q \in Procs, ~stolen' PROVE HolderPhase(q)'
    BY DEF HolderPhase
<1>0. ~stolen
    BY HistoryGrows DEF PlaceInv
<1>a. /\ HolderPhase(p) /\ HolderPhase(q) /\ LockPhase(p) /\ LockPhase(q)
      /\ None \notin Procs /\ lock \in [Ledgers -> Procs \cup {None}]
      /\ pc \in [Procs -> Labels] /\ holds \in [Procs -> SUBSET Ledgers]
    BY ConstantsAssumption DEF PlaceInv, TypeOK
<1> USE DEF HolderPhase, Wanted, Goto, Report, Fail, lockVars, diskVars, procVars
<1>1. CASE CreateLock(p)
    BY <1>0, <1>1, <1>a DEF CreateLock, Ledgers
<1>2. CASE SignLock(p)
    BY <1>0, <1>2, <1>a DEF SignLock, LockPhase, LocksOf, Waiting, Ledgers
<1>3. CASE ReclaimLock(p)
    BY <1>0, <1>3, <1>a DEF ReclaimLock, LockPhase, Exited, Ledgers
<1>4. CASE ReleaseLock(p)
    BY <1>0, <1>4, <1>a DEF ReleaseLock, Innermost, Ledgers
<1>5. CASE SignFails(p) \/ JudgeLock(p) \/ TimeOut(p)
    BY <1>0, <1>5, <1>a DEF SignFails, JudgeLock, TimeOut
<1>6. CASE PreviewSteps(p)
    BY <1>0, <1>6, <1>a
    DEF PreviewSteps, Fingerprint, ReadIds, CopyIds, CopyEnums,
        ReadDestination, PreviewFails, Confirm, Dismiss, Check
<1>7. CASE RunSteps(p)
    BY <1>0, <1>7, <1>a DEF RunSteps, Start, Recover, CopyLedgers, Run
<1>8. CASE EndSteps(p)
    BY <1>0, <1>8, <1>a
    DEF EndSteps, BeginPromotion, Replace, PromotionFails, Commit, Clean, Die
<1> QED
    BY <1>1, <1>2, <1>3, <1>4, <1>5, <1>6, <1>7, <1>8 DEF Step, LockSteps

\* Nobody else reads the IDs for an allocation, or writes them.
LEMMA GuardedAlone ==
    ASSUME PlaceInv, \A r \in Procs : HolderPhase(r), ~stolen,
           NEW p \in Procs, NEW q \in Procs, Guarded(p), Guarded(q)
    PROVE  p = q
BY DEF PlaceInv, LockPhase, HolderPhase

\* Files are changed by those who hold the lock of the ID ledger only.
LEMMA FilesGuarded ==
    ASSUME NEW q \in Procs, Step(q), ~Guarded(q)
    PROVE  UNCHANGED <<disk, journal>>
<1> USE DEF Guarded, lockVars, diskVars, procVars
<1>1. CASE LockSteps(q)
    BY <1>1 DEF LockSteps, CreateLock, SignLock, SignFails, JudgeLock,
                ReclaimLock, TimeOut, ReleaseLock
<1>2. CASE PreviewSteps(q)
    BY <1>2 DEF PreviewSteps, Fingerprint, ReadIds, CopyIds, CopyEnums,
                ReadDestination, PreviewFails, Confirm, Dismiss, Check
<1>3. CASE RunSteps(q)
    BY <1>3 DEF RunSteps, Start, Recover, CopyLedgers, Run
<1>4. CASE EndSteps(q)
    BY <1>4 DEF EndSteps, BeginPromotion, Replace, PromotionFails, Commit,
                Clean, Die
<1> QED
    BY <1>1, <1>2, <1>3, <1>4 DEF Step

\* The IDs in place are replaced by an extension of them only.
LEMMA DiskIdsGrow ==
    ASSUME WorkInv, ~caught', NEW p \in Conversations, pc[p] = "copyIds",
           NEW q \in Procs, IdsPhase(q), Step(q)
    PROVE  Extends(disk["ids"], disk'["ids"])
<1> SUFFICES ASSUME disk'["ids"] # disk["ids"]
             PROVE  Extends(disk["ids"], disk'["ids"])
    BY ExtendsItself
<1> USE DEF lockVars, diskVars, procVars
<1>1. ~Undo
    BY DEF Undo
<1>2. CASE LockSteps(q)
    BY <1>2 DEF LockSteps, CreateLock, SignLock, SignFails, JudgeLock,
                ReclaimLock, TimeOut, ReleaseLock
<1>3. CASE PreviewSteps(q)
    BY <1>3 DEF PreviewSteps, Fingerprint, ReadIds, CopyIds, CopyEnums,
                ReadDestination, PreviewFails, Confirm, Dismiss, Check
<1>4. CASE RunSteps(q)
    BY <1>1, <1>4 DEF RunSteps, Start, Recover, CopyLedgers, Run
<1>5. CASE BeginPromotion(q) \/ PromotionFails(q)
    BY <1>1, <1>5 DEF BeginPromotion, PromotionFails
<1>6. CASE Replace(q)
    <2>1. HalfDone(q) /\ Extends(journal["ids"], staging[q]["ids"])
        BY <1>6 DEF Replace, WorkInv, WorkPhase, IdsPhase
    <2>2. "ids" \in Files
        BY DEF Files, Ledgers
    <2>3. disk["ids"] \in {journal["ids"], staging[q]["ids"]}
        BY <2>1, <2>2 DEF HalfDone
    <2>4. PICK f \in todo[q] : disk' = [disk EXCEPT ![f] = staging[q][f]]
        BY <1>6 DEF Replace
    <2>5. disk'["ids"] = staging[q]["ids"]
        BY <2>2, <2>4 DEF WorkInv, PlaceInv, TypeOK, IsSnapshot
    <2> QED
        BY <2>1, <2>3, <2>5
<1>7. CASE Commit(q) \/ Clean(q) \/ Die(q)
    BY <1>7 DEF Commit, Clean, Die
<1> QED
    BY <1>2, <1>3, <1>4, <1>5, <1>6, <1>7 DEF Step, EndSteps

\* What p does keeps the IDs it has staged an extension of those it replaces.
LEMMA OwnIds ==
    ASSUME WorkInv, NEW p \in Procs, IdsPhase(p), Step(p)
    PROVE  IdsPhase(p)'
<1> USE DEF lockVars, diskVars, procVars, Goto, Report, Fail
<1>a. TypeOK /\ LockPhase(p)
    BY DEF WorkInv, PlaceInv
<1>b. "ids" \in Files /\ "ids" # "output" /\ "ids" # "enums"
    BY DEF Files, Ledgers
<1>c. IsSnapshot(disk) /\ IsSight(seen[p]) /\ IsSnapshot(Empty)
    BY <1>a DEF TypeOK, IsSnapshot, Empty, Files, Ledgers
<1>d. pc \in [Procs -> Labels] /\ staging = [r \in Procs |-> staging[r]]
      /\ seen = [r \in Procs |-> seen[r]]
      /\ (staging[p] = NoFiles \/ IsSnapshot(staging[p]))
    BY <1>a DEF TypeOK
<1>1. CASE LockSteps(p)
    BY <1>a, <1>1
    DEF LockSteps, CreateLock, SignLock, SignFails, JudgeLock, ReclaimLock,
        TimeOut, ReleaseLock, TypeOK, LockPhase, LocksOf, Waiting, Looking,
        IdsPhase, ReadPhase, DirectPhase, Copied
<1>2. CASE Fingerprint(p)
    BY <1>2, <1>d DEF Fingerprint, IdsPhase, ReadPhase, DirectPhase, Copied, Waiting
<1>3. CASE ReadIds(p)
    <2>1. seen' = [seen EXCEPT ![p] = [seen[p] EXCEPT !.ids = disk["ids"]]]
        BY <1>3 DEF ReadIds
    <2>2. [seen[p] EXCEPT !.ids = disk["ids"]].ids = disk["ids"]
        BY <1>c, SightUpdates
    <2>3. seen'[p].ids = disk["ids"]
        BY <1>d, <2>1, <2>2
    <2>4. /\ p \in Conversations /\ pc'[p] = "copyIds"
          /\ UNCHANGED <<disk, journal, staging>>
        BY <1>a, <1>3, <1>d DEF ReadIds, LockPhase, Looking
    <2> QED
        BY <2>3, <2>4, ExtendsItself
        DEF IdsPhase, ReadPhase, DirectPhase, Copied, Waiting
<1>4. CASE CopyIds(p)
    <2>1. staging'[p]["ids"] = disk["ids"]
        BY <1>4, <1>b, <1>c, <1>d DEF CopyIds, IsSnapshot
    <2>2. /\ p \in Conversations /\ pc[p] = "copyIds" /\ pc'[p] = "copyEnums"
          /\ UNCHANGED <<disk, journal, seen>>
        BY <1>a, <1>4, <1>d DEF CopyIds, LockPhase, Looking
    <2> QED
        BY <2>1, <2>2 DEF IdsPhase, ReadPhase, DirectPhase, Copied, Waiting
<1>5. CASE CopyEnums(p)
    <2>1. staging' = [staging EXCEPT
                          ![p] = [staging[p] EXCEPT !["enums"] = disk["enums"]]]
        BY <1>5 DEF CopyEnums
    <2>2. [staging[p] EXCEPT !["enums"] = disk["enums"]]["ids"] = staging[p]["ids"]
        BY <1>b, <1>d DEF IsSnapshot, NoFiles
    <2>3. staging'[p]["ids"] = staging[p]["ids"]
        BY <1>d, <2>1, <2>2
    <2>4. /\ p \in Conversations /\ pc[p] = "copyEnums" /\ pc'[p] = "run"
          /\ UNCHANGED <<disk, journal, seen>>
        BY <1>a, <1>5, <1>d DEF CopyEnums, LockPhase, Looking
    <2> QED
        BY <2>3, <2>4 DEF IdsPhase, ReadPhase, DirectPhase, Copied, Waiting
<1>6. CASE ReadDestination(p)
    <2>1. PICK f \in todo[p] :
              seen' = [seen EXCEPT ![p] = [seen[p] EXCEPT
                          !.before = [seen[p].before EXCEPT ![f] = disk[f]]]]
        BY <1>6, Zenon DEF ReadDestination
    <2>2. IsSnapshot([seen[p].before EXCEPT ![f] = disk[f]])
        BY <1>c DEF IsSnapshot, IsSight
    <2>3. [seen[p] EXCEPT !.before = [seen[p].before EXCEPT ![f] = disk[f]]].ids
              = seen[p].ids
        BY <1>c, <2>2, SightUpdates
    <2>4. seen'[p].ids = seen[p].ids
        BY <1>d, <2>1, <2>3
    <2>5. /\ p \in Conversations /\ pc[p] = "read" /\ pc'[p] \in {"read", "pending"}
          /\ UNCHANGED <<disk, journal, staging>>
        BY <1>a, <1>6, <1>d DEF ReadDestination, LockPhase, Looking
    <2> QED
        BY <2>4, <2>5 DEF IdsPhase, ReadPhase, DirectPhase, Copied, Waiting
<1>7. CASE PreviewFails(p) \/ Confirm(p) \/ Dismiss(p)
    BY <1>7, <1>a, <1>d
    DEF PreviewFails, Confirm, Dismiss, LockPhase, Looking,
        IdsPhase, ReadPhase, DirectPhase, Copied, Waiting
<1>8. CASE Check(p)
    <2>1. pc'[p] = "promote" => seen[p].before = disk /\ disk["ids"] = seen[p].ids
        BY <1>8, <1>d DEF Check, Fresh, IdsUnchanged
    <2>2. /\ p \in Conversations /\ pc[p] = "check"
          /\ pc'[p] \in {"promote", "release"}
          /\ UNCHANGED <<disk, journal, staging, seen>>
        BY <1>a, <1>8, <1>d DEF Check, LockPhase
    <2> QED
        BY <2>1, <2>2 DEF IdsPhase, ReadPhase, DirectPhase, Copied, Waiting
<1>9. CASE Start(p) \/ Recover(p)
    BY <1>9, <1>a, <1>d
    DEF Start, Recover, LockPhase, IdsPhase, ReadPhase, DirectPhase, Copied
<1>10. CASE CopyLedgers(p)
    <2>1. staging'[p]["ids"] = disk["ids"]
        BY <1>10, <1>b, <1>c, <1>d DEF CopyLedgers, IsSnapshot
    <2>2. /\ p \notin Conversations /\ pc[p] = "copy" /\ pc'[p] = "run"
          /\ UNCHANGED <<disk, journal, seen>>
        BY <1>a, <1>10, <1>d DEF CopyLedgers, LockPhase
    <2> QED
        BY <2>1, <2>2, ExtendsItself DEF IdsPhase, ReadPhase, DirectPhase, Copied
<1>11. CASE Run(p)
    <2>1. /\ pc[p] = "run" /\ UNCHANGED <<disk, journal, seen>>
          /\ pc'[p] \in {"read", "promote", "release"}
          /\ pc'[p] = "read" => p \in Conversations
          /\ pc'[p] = "promote" => p \notin Conversations
        BY <1>11, <1>d DEF Run
    <2>2. CASE pc'[p] = "release"
        BY <2>1, <2>2 DEF IdsPhase, ReadPhase, DirectPhase, Copied, Waiting
    <2>3. CASE pc'[p] # "release"
        <3>1. staging' = [staging EXCEPT ![p] = Compiled(source, staging[p])]
            BY <1>11, <1>d, <2>3 DEF Run
        <3>2. Compiled(source, staging[p])["ids"]
                  = AllocatedIds(source.names, staging[p]["ids"])
            BY DEF Compiled
        <3>3. Extends(staging[p]["ids"], staging'[p]["ids"])
            BY <1>d, <3>1, <3>2, AllocationExtends
        <3> QED
            BY <2>1, <2>3, <3>3, ExtendsOnwards
            DEF IdsPhase, ReadPhase, DirectPhase, Copied, Waiting
    <2> QED
        BY <2>2, <2>3
<1>12. CASE BeginPromotion(p)
    <2>1. /\ pc[p] = "promote" /\ UNCHANGED <<staging, seen>>
          /\ pc'[p] \in {"replace", "release"}
          /\ pc'[p] = "replace" => journal' = Settled /\ Validated(p)
        BY <1>12, <1>d DEF BeginPromotion
    <2>2. CASE pc'[p] = "release"
        BY <2>1, <2>2 DEF IdsPhase, ReadPhase, DirectPhase, Copied, Waiting
    <2>3. CASE pc'[p] = "replace" /\ p \in Conversations
        <3>1. journal' = seen[p].before
            BY <2>1, <2>3 DEF Validated, Fresh
        <3> QED
            BY <2>1, <2>3, <3>1 DEF IdsPhase, ReadPhase, DirectPhase, Copied
    <2>4. CASE pc'[p] = "replace" /\ p \notin Conversations
        <3>1. journal' = disk
            BY <2>1, <2>4 DEF IdsPhase, DirectPhase, Settled
        <3> QED
            BY <2>1, <2>4, <3>1 DEF IdsPhase, ReadPhase, DirectPhase, Copied
    <2> QED
        BY <2>1, <2>2, <2>3, <2>4
<1>13. CASE Replace(p)
    BY <1>13 DEF Replace, IdsPhase, ReadPhase, DirectPhase, Copied, Waiting
<1>14. CASE PromotionFails(p) \/ Commit(p) \/ Clean(p) \/ Die(p)
    BY <1>14, <1>d DEF PromotionFails, Commit, Clean, Die,
       IdsPhase, ReadPhase, DirectPhase, Copied, Waiting
<1> QED
    BY <1>1, <1>2, <1>3, <1>4, <1>5, <1>6, <1>7, <1>8, <1>9, <1>10, <1>11, <1>12,
       <1>13, <1>14 DEF Step, PreviewSteps, RunSteps, EndSteps

\* What another compiler does keeps them so too.
LEMMA OthersIds ==
    ASSUME WorkInv, ~stolen, ~caught', NEW p \in Procs, NEW q \in Procs, q # p,
           \A r \in Procs : HolderPhase(r) /\ IdsPhase(r), Step(q)
    PROVE  IdsPhase(p)'
<1>1. UNCHANGED Private(p) /\ IdsPhase(p) /\ PlaceInv
    BY OthersUntouched DEF WorkInv, PlaceInv
<1>2. p \in Conversations /\ pc[p] = "copyIds" => Extends(seen[p].ids, disk'["ids"])
    BY <1>1, DiskIdsGrow, ExtendsOnwards DEF IdsPhase, ReadPhase
<1>3. p \notin Conversations /\ pc[p] \in {"copy", "run", "promote"}
          => UNCHANGED <<disk, journal>>
    <2> SUFFICES ASSUME Guarded(p) PROVE UNCHANGED <<disk, journal>>
        BY DEF Guarded
    <2>1. ~Guarded(q)
        BY <1>1, GuardedAlone
    <2> QED
        BY <2>1, FilesGuarded
<1>4. pc[p] = "replace" => UNCHANGED <<disk, journal>>
    BY <1>1, PromotionAlone DEF WorkInv, WorkPhase, HalfDone
<1> QED
    BY <1>1, <1>2, <1>3, <1>4 DEF Private, IdsPhase, ReadPhase, DirectPhase, Copied

LEMMA IdsStep == IdsInv /\ [Next]_vars => IdsInv'
<1> SUFFICES ASSUME IdsInv, [Next]_vars PROVE IdsInv'
    OBVIOUS
<1>1. WorkInv' /\ WorkInv /\ PlaceInv /\ TypeOK
    BY WorkStep DEF IdsInv, WorkInv, PlaceInv
<1>2. ASSUME NEW q \in Procs, Step(q) PROVE IdsInv'
    <2>1. \A p \in Procs : HolderPhase(p)'
        BY <1>1, <1>2, HolderStep DEF IdsInv
    <2>2. ASSUME ~stolen', ~caught', NEW p \in Procs PROVE IdsPhase(p)'
        <3>1. ~stolen /\ ~caught
            BY <1>1, <1>2, <2>2, HistoryGrows
        <3>2. \A r \in Procs : HolderPhase(r) /\ IdsPhase(r)
            BY <3>1 DEF IdsInv
        <3> QED
            BY <1>1, <1>2, <2>2, <3>1, <3>2, OwnIds, OthersIds
    <2> QED
        BY <1>1, <2>1, <2>2 DEF IdsInv
<1>3. CASE EditSource \/ UNCHANGED vars
    BY <1>1, <1>3 DEF EditSource, vars, lockVars, diskVars, procVars, IdsInv,
       HolderPhase, Wanted, IdsPhase, ReadPhase, DirectPhase, Copied
<1> QED
    BY <1>2, <1>3, NextIsStep

LEMMA IdsInit == Init => IdsInv
BY WorkInit
DEF Init, IdsInv, HolderPhase, IdsPhase, ReadPhase, DirectPhase, Copied, Waiting

LEMMA IdsAlways == Spec => []IdsInv
BY IdsInit, IdsStep, PTL DEF Spec

\* A published id stays, as long as no running compiler has lost its lock and no
\* preview has fallen between a promotion and its undoing.
THEOREM IdsAlwaysKept == Spec => IdsKept
<1>1. IdsInv /\ [Next]_vars =>
          [stolen' \/ caught' \/ Extends(Settled["ids"], Settled'["ids"])]_vars
    <2> SUFFICES ASSUME IdsInv, Next, ~stolen', ~caught'
                 PROVE  Extends(Settled["ids"], Settled'["ids"])
        OBVIOUS
    <2>1. CASE EditSource
        BY <2>1, ExtendsItself DEF EditSource, diskVars, procVars, Settled
    <2>2. ASSUME NEW p \in Procs, Step(p)
          PROVE  Extends(Settled["ids"], Settled'["ids"])
        <3>1. CASE Commit(p)
            <4>1. ~stolen /\ ~caught
                BY <2>2, HistoryGrows DEF IdsInv, WorkInv, PlaceInv
            <4>2. Extends(journal["ids"], staging[p]["ids"])
                BY <3>1, <4>1 DEF Commit, IdsInv, IdsPhase
            <4> QED
                BY <3>1, <4>2, CommitSettles DEF IdsInv
        <3>2. CASE ~Commit(p)
            BY <2>2, <3>2, OnlyCommitSettles, ExtendsItself DEF IdsInv
        <3> QED
            BY <3>1, <3>2
    <2> QED
        BY <2>1, <2>2, NextIsStep
<1> QED
    BY <1>1, IdsAlways, PTL DEF Spec, IdsKept

=============================================================================
