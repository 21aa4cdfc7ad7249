------------------------ MODULE FileTransactionProofs ------------------------
(* Proofs about FileTransaction for any set of processes, any files and    *)
(* any assignment of files to promotions.                                  *)
EXTENDS FileTransaction, TLAPS

-----------------------------------------------------------------------------
(* Types.                                                                  *)

(* The initial state is typed.                                             *)
LEMMA TypeInit == Init => TypeOK
<1> SUFFICES ASSUME Init PROVE TypeOK
    OBVIOUS
<1> USE DEF Init
<1>1. pc \in [Procs -> Labels] /\ result \in [Procs -> Results]
    BY DEF Labels, Results
<1>2. dest \in [Files -> Contents \cup {Absent, Torn}]
    BY DEF Contents
<1>3. /\ temp \in [Procs -> [Files -> Procs \cup {Absent, Torn}]]
      /\ backup \in [Procs -> [Files -> Contents \cup {Absent, Torn}]]
    OBVIOUS
<1>4. /\ backed \in [Procs -> SUBSET Files] /\ todo \in [Procs -> SUBSET Files]
      /\ kept \in [Procs -> SUBSET Files] /\ errs \in [Procs -> BOOLEAN]
      /\ replays \in [Procs -> Procs]
    OBVIOUS
<1> QED
    BY <1>1, <1>2, <1>3, <1>4 DEF TypeOK

(* The lock actions leave it typed: they touch neither disk nor loops.     *)
LEMMA TypeLock ==
    ASSUME TypeOK, NEW p \in Procs,
           Begin(p) \/ CreateLock(p) \/ Inspect(p) \/ Reclaim(p) \/ GiveUp(p)
              \/ OpenFails(p) \/ Sign(p) \/ Release(p) \/ Die(p)
    PROVE  TypeOK'
<1> USE DEF TypeOK, Goto, Decide, Record, lockVars, diskVars, loopVars,
            Labels, Critical, PreJournal, Results
<1>1. CASE Begin(p)
    BY <1>1 DEF Begin
<1>2. CASE CreateLock(p)
    BY <1>2 DEF CreateLock
<1>3. CASE Inspect(p)
    BY <1>3 DEF Inspect
<1>4. CASE Reclaim(p)
    BY <1>4 DEF Reclaim
<1>5. CASE GiveUp(p)
    BY <1>5 DEF GiveUp
<1>6. CASE Sign(p)
    BY <1>6 DEF Sign
<1>7. CASE Release(p)
    BY <1>7 DEF Release
<1>8. CASE Die(p)
    BY <1>8 DEF Die
<1>9. CASE OpenFails(p)
    BY <1>9 DEF OpenFails
<1> QED
    BY <1>1, <1>2, <1>3, <1>4, <1>5, <1>6, <1>7, <1>8, <1>9

(* The control helpers keep pc, todo and result typed.                     *)
LEMMA LabelFacts ==
    /\ {"idle", "acquire", "reclaim", "done", "dead", "signing", "recover",
        "restoring", "replace", "commit", "rollback", "cleanup", "drop",
        "dispose", "release", "validate", "prepare", "journal"} = Labels
    /\ {"none", "committed", "failed", "contended", "recovered"} = Results
BY DEF Labels, Critical, PreJournal, Results

(* A copy of f, or its removal, changes one entry of temp or backup.       *)
LEMMA CopyType ==
    ASSUME NEW T, NEW g \in [Procs -> [Files -> T]], NEW h,
           NEW p \in Procs, NEW f \in Files, NEW c \in T,
           h = g \/ h = [g EXCEPT ![p][f] = c]
    PROVE  h \in [Procs -> [Files -> T]]
OBVIOUS

(* Entering or continuing a loop keeps pc and todo typed.                  *)
LEMMA LoopType ==
    ASSUME TypeOK, NEW p \in Procs, NEW S \in SUBSET Files,
           NEW label \in Labels, NEW after \in Labels,
           Loop(p, label, S, after)
    PROVE  pc' \in [Procs -> Labels] /\ todo' \in [Procs -> SUBSET Files]
BY DEF TypeOK, Loop, Goto

(* So does leaving for the exception handler.                              *)
LEMMA RaiseType ==
    ASSUME TypeOK, NEW p \in Procs, NEW S \in SUBSET Files,
           NEW T \in SUBSET Files, Raise(p, S, T)
    PROVE  /\ pc' \in [Procs -> Labels]
           /\ todo' \in [Procs -> SUBSET Files]
           /\ result' \in [Procs -> Results]
<1>1. pc' \in [Procs -> Labels] /\ todo' \in [Procs -> SUBSET Files]
    BY LoopType, LabelFacts DEF Raise
<1>2. result' \in [Procs -> Results]
    BY LabelFacts DEF TypeOK, Raise, Decide
<1> QED
    BY <1>1, <1>2

(* The steps of promote() that are in no loop keep every type.             *)
LEMMA TypeStages ==
    ASSUME TypeOK, NEW p \in Procs,
           ReadJournal(p) \/ FinishRecovery(p) \/ Validate(p)
              \/ WriteJournal(p) \/ Commit(p) \/ DropJournal(p)
    PROVE  TypeOK'
<1> USE ConstantsAssumption
<1>1. CASE ReadJournal(p)
    <2> USE <1>1 DEF ReadJournal, Pending, Goto, Decide, Record, loopVars
    <2>1. pc' \in [Procs -> Labels]
        <3>1. \E label \in {"release", "validate", "restoring"} :
                  pc' = [pc EXCEPT ![p] = label]
            OBVIOUS
        <3> QED
            BY <3>1, LabelFacts DEF TypeOK
    <2>2. result' \in [Procs -> Results]
        <3>1. \/ result' = result
              \/ \E r \in {"recovered", "failed"} :
                     result' = [result EXCEPT ![p] = r]
            OBVIOUS
        <3> QED
            BY <3>1, LabelFacts DEF TypeOK
    <2>3. todo' \in [Procs -> SUBSET Files]
        <3>1. \/ todo' = todo
              \/ Pending /\ todo' = [todo EXCEPT ![p] = Writes[journal]]
            OBVIOUS
        <3>2. Pending => Writes[journal] \in SUBSET Files
            BY DEF TypeOK
        <3> QED
            BY <3>1, <3>2 DEF TypeOK
    <2>4. replays' \in [Procs -> Procs]
        BY DEF TypeOK
    <2>5. kept' \in [Procs -> SUBSET Files] /\ errs' \in [Procs -> BOOLEAN]
        BY DEF TypeOK
    <2> QED
        BY <2>1, <2>2, <2>3, <2>4, <2>5 DEF TypeOK, lockVars, diskVars
<1>2. CASE FinishRecovery(p)
    <2> USE DEF FinishRecovery, Goto, Decide
    <2>1. pc' \in [Procs -> Labels]
        <3>1. \E label \in {"release", "validate"} : pc' = [pc EXCEPT ![p] = label]
            BY <1>2
        <3> QED
            BY <3>1, LabelFacts DEF TypeOK
    <2>2. result' \in [Procs -> Results]
        BY <1>2, LabelFacts DEF TypeOK
    <2>3. errs' \in [Procs -> BOOLEAN] /\ journal' \in Procs \cup {None}
        BY <1>2 DEF TypeOK, loopVars
    <2> QED
        BY <1>2, <2>1, <2>2, <2>3 DEF TypeOK, lockVars, loopVars
<1>3. CASE Validate(p)
    <2> USE <1>3 DEF Validate
    <2>1. pc' \in [Procs -> Labels] /\ todo' \in [Procs -> SUBSET Files]
        BY LoopType, LabelFacts DEF TypeOK, Goto
    <2>2. result' \in [Procs -> Results]
        BY LabelFacts DEF TypeOK, Decide
    <2> QED
        BY <2>1, <2>2 DEF TypeOK, lockVars, diskVars
<1>4. CASE WriteJournal(p)
    <2> USE <1>4 DEF WriteJournal
    <2>1. /\ pc' \in [Procs -> Labels] /\ todo' \in [Procs -> SUBSET Files]
          /\ result' \in [Procs -> Results]
        BY LoopType, RaiseType, LabelFacts DEF TypeOK
    <2> QED
        BY <2>1 DEF TypeOK, lockVars
<1>5. CASE Commit(p)
    <2>1. Writes[p] \in SUBSET Files
        OBVIOUS
    <2>2. CASE Raise(p, Writes[p], Writes[p]) /\ UNCHANGED journal
        BY <1>5, <2>1, <2>2, RaiseType DEF TypeOK, Commit, lockVars
    <2>3. CASE /\ journal' = None
               /\ Loop(p, "dispose", Writes[p], "release")
               /\ Decide(p, "committed")
        <3>1. pc' \in [Procs -> Labels] /\ todo' \in [Procs -> SUBSET Files]
            BY <2>1, <2>3, LoopType, LabelFacts
        <3>2. result' \in [Procs -> Results]
            BY <2>3, LabelFacts DEF TypeOK, Decide
        <3> QED
            BY <1>5, <2>3, <3>1, <3>2 DEF TypeOK, Commit, lockVars
    <2> QED
        BY <1>5, <2>2, <2>3 DEF Commit
<1>6. CASE DropJournal(p)
    BY <1>6, LabelFacts DEF TypeOK, DropJournal, Goto, lockVars, loopVars
<1> QED
    BY <1>1, <1>2, <1>3, <1>4, <1>5, <1>6

(* The steps that visit one file keep every type.                          *)
LEMMA TypeLoops ==
    ASSUME TypeOK, NEW p \in Procs, NEW f \in Files,
           Restore(p, f) \/ Prepare(p, f) \/ ReplaceFile(p, f)
              \/ Dispose(p, f) \/ RollbackFile(p, f) \/ CleanupFile(p, f)
    PROVE  TypeOK'
<1> DEFINE DestType == Contents \cup {Absent, Torn}
           TempType == Procs \cup {Absent, Torn}
<1>t. /\ dest \in [Files -> DestType]
      /\ temp \in [Procs -> [Files -> TempType]]
      /\ backup \in [Procs -> [Files -> DestType]]
      /\ backed \in [Procs -> SUBSET Files]
      /\ todo \in [Procs -> SUBSET Files]
      /\ kept \in [Procs -> SUBSET Files]
      /\ replays \in [Procs -> Procs]
      /\ errs \in [Procs -> BOOLEAN]
      /\ pc[p] \in Labels
    BY DEF TypeOK
<1>a. /\ Absent \in DestType /\ Absent \in TempType
      /\ TempType \subseteq DestType
      /\ p \in TempType
      /\ backup[p][f] \in DestType /\ temp[p][f] \in TempType /\ dest[f] \in DestType
    BY <1>t DEF Contents
<1> HIDE DEF DestType, TempType
<1>b. [backup EXCEPT ![p][f] = Absent] \in [Procs -> [Files -> DestType]]
    <2>1. [backup[p] EXCEPT ![f] = Absent] \in [Files -> DestType]
        BY <1>t, <1>a
    <2> QED
        BY <2>1, <1>t
<1>c. [temp EXCEPT ![p][f] = Absent] \in [Procs -> [Files -> TempType]]
    <2>1. [temp[p] EXCEPT ![f] = Absent] \in [Files -> TempType]
        BY <1>t, <1>a
    <2> QED
        BY <2>1, <1>t
<1>e. ASSUME UNCHANGED errs \/ Record(p)
      PROVE  errs' \in [Procs -> BOOLEAN]
    BY <1>e, <1>t DEF Record
<1>v. ASSUME NEW after \in Labels, Visited(p, f, after)
      PROVE  pc' \in [Procs -> Labels] /\ todo' \in [Procs -> SUBSET Files]
    <2>1. todo[p] \ {f} \in SUBSET Files
        BY <1>t
    <2> QED
        BY <1>v, <1>t, <2>1, LoopType DEF Visited
<1>w. Writes[p] \in SUBSET Files
    BY ConstantsAssumption
<1>1. CASE Restore(p, f)
    <2> DEFINE q == replays[p]
    <2>1. q \in Procs /\ backup[q][f] \in DestType
        BY <1>t
    <2>2. Replayed(q, f) \in DestType
        BY <2>1, <1>a DEF Replayed
    <2>3. dest' = dest \/ dest' = [dest EXCEPT ![f] = Replayed(q, f)]
        BY <1>1 DEF Restore
    <2>4. dest' \in [Files -> DestType]
        BY <2>2, <2>3, <1>t
    <2>5. PICK b \in DestType :
             backup' = backup \/ backup' = [backup EXCEPT ![q][f] = b]
        BY <1>1, <2>1, <1>a DEF Restore
    <2>6. backup' \in [Procs -> [Files -> DestType]]
        BY <2>1, <2>5, <1>t, CopyType
    <2>7. temp' = temp \/ temp' = [temp EXCEPT ![q][f] = Absent]
        BY <1>1 DEF Restore
    <2>8. temp' \in [Procs -> [Files -> TempType]]
        BY <2>1, <2>7, <1>t, <1>a, CopyType
    <2>9. todo' \in [Procs -> SUBSET Files] /\ errs' \in [Procs -> BOOLEAN]
        BY <1>1, <1>e, <1>t DEF Restore
    <2> QED
        BY <1>1, <2>4, <2>6, <2>8, <2>9
        DEF TypeOK, Restore, lockVars, DestType, TempType
<1>2. CASE Prepare(p, f)
    <2>1. (Writes[p] \ todo[p]) \cup {f} \in SUBSET Files
        BY <1>w
    <2>2. /\ pc' \in [Procs -> Labels] /\ todo' \in [Procs -> SUBSET Files]
          /\ result' \in [Procs -> Results]
        BY <1>2, <2>1, <1>v, RaiseType, LabelFacts DEF TypeOK, Prepare
    <2>3. PICK b \in DestType, t \in TempType :
             /\ backup' = [backup EXCEPT ![p][f] = b]
             /\ temp' = [temp EXCEPT ![p][f] = t]
        <3>1. Torn \in DestType /\ Torn \in TempType
            BY DEF DestType, TempType
        <3>2. \A c \in HalfPrepared(f) : c[1] \in DestType /\ c[2] \in TempType
            BY <3>1, <1>a DEF HalfPrepared
        <3>3. \/ backup' = [backup EXCEPT ![p][f] = dest[f]]
                    /\ temp' = [temp EXCEPT ![p][f] = p]
              \/ \E c \in HalfPrepared(f) :
                     /\ backup' = [backup EXCEPT ![p][f] = c[1]]
                     /\ temp' = [temp EXCEPT ![p][f] = c[2]]
            BY <1>2 DEF Prepare
        <3> QED
            BY <3>2, <3>3, <1>a
    <2>4. backup' \in [Procs -> [Files -> DestType]]
        BY <2>3, <1>t, CopyType
    <2>5. temp' \in [Procs -> [Files -> TempType]]
        BY <2>3, <1>t, CopyType
    <2>6. backed' \in [Procs -> SUBSET Files]
        BY <1>2, <1>t DEF Prepare
    <2> QED
        BY <1>2, <2>2, <2>4, <2>5, <2>6
        DEF TypeOK, Prepare, lockVars, DestType, TempType
<1>3. CASE ReplaceFile(p, f)
    <2>1. /\ pc' \in [Procs -> Labels] /\ todo' \in [Procs -> SUBSET Files]
          /\ result' \in [Procs -> Results]
        BY <1>3, <1>v, <1>w, RaiseType, LabelFacts DEF TypeOK, ReplaceFile
    <2>2. /\ temp' = temp \/ temp' = [temp EXCEPT ![p][f] = Absent]
          /\ dest' = dest \/ dest' = [dest EXCEPT ![f] = temp[p][f]]
        BY <1>3 DEF ReplaceFile
    <2>3. temp' \in [Procs -> [Files -> TempType]]
        BY <2>2, <1>t, <1>c
    <2>4. dest' \in [Files -> DestType]
        BY <2>2, <1>t, <1>a
    <2> QED
        BY <1>3, <2>1, <2>3, <2>4
        DEF TypeOK, ReplaceFile, lockVars, DestType, TempType
<1>4. CASE Dispose(p, f)
    <2>1. pc' \in [Procs -> Labels] /\ todo' \in [Procs -> SUBSET Files]
        BY <1>4, <1>v, LabelFacts DEF Dispose
    <2>2. backup' = backup \/ backup' = [backup EXCEPT ![p][f] = Absent]
        BY <1>4 DEF Dispose
    <2>3. backup' \in [Procs -> [Files -> DestType]]
        BY <2>2, <1>t, <1>b
    <2>4. errs' \in [Procs -> BOOLEAN]
        BY <1>4, <1>e DEF Dispose
    <2> QED
        BY <1>4, <2>1, <2>3, <2>4 DEF TypeOK, Dispose, lockVars, DestType
<1>5. CASE RollbackFile(p, f)
    <2>1. todo[p] \ {f} \in SUBSET Files
        BY <1>t
    <2>2. pc' \in [Procs -> Labels] /\ todo' \in [Procs -> SUBSET Files]
        BY <1>5, <1>w, <2>1, LoopType, LabelFacts DEF RollbackFile, RolledBack
    <2>3. /\ backup' = backup \/ backup' = [backup EXCEPT ![p][f] = Absent]
          /\ \/ dest' = dest
             \/ dest' = [dest EXCEPT ![f] = Absent]
             \/ dest' = [dest EXCEPT ![f] = backup[p][f]]
        BY <1>5 DEF RollbackFile
    <2>4. backup' \in [Procs -> [Files -> DestType]]
        BY <2>3, <1>t, <1>b
    <2>5. dest' \in [Files -> DestType]
        BY <2>3, <1>t, <1>a
    <2>6. /\ kept \in [Procs -> SUBSET Files]
          /\ \E k \in SUBSET Files : kept' = kept \/ kept' = [kept EXCEPT ![p] = k]
        <3> DEFINE k == IF f \in backed[p] THEN kept[p] \cup {f} ELSE kept[p]
        <3>1. kept \in [Procs -> SUBSET Files] /\ k \in SUBSET Files
            BY <1>t
        <3>2. kept' = kept \/ kept' = [kept EXCEPT ![p] = k]
            BY <1>5 DEF RollbackFile
        <3> HIDE DEF k
        <3> QED
            BY <3>1, <3>2
    <2>7. kept' \in [Procs -> SUBSET Files]
        BY <2>6
    <2>8. errs' \in [Procs -> BOOLEAN]
        BY <1>5, <1>e DEF RollbackFile
    <2> QED
        BY <1>5, <2>2, <2>4, <2>5, <2>7, <2>8
        DEF TypeOK, RollbackFile, lockVars, DestType
<1>6. CASE CleanupFile(p, f)
    <2>1. pc' \in [Procs -> Labels] /\ todo' \in [Procs -> SUBSET Files]
        BY <1>6, <1>v, LabelFacts DEF CleanupFile
    <2>2. PICK t \in TempType, b \in DestType :
             /\ temp' = [temp EXCEPT ![p][f] = t]
             /\ backup' = [backup EXCEPT ![p][f] = b]
        BY <1>6, <1>a DEF CleanupFile
    <2>3. backup' \in [Procs -> [Files -> DestType]]
        BY <2>2, <1>t, CopyType
    <2>4. temp' \in [Procs -> [Files -> TempType]]
        BY <2>2, <1>t, CopyType
    <2>5. errs' \in [Procs -> BOOLEAN]
        BY <1>6, <1>t DEF CleanupFile
    <2> QED
        BY <1>6, <2>1, <2>3, <2>4, <2>5
        DEF TypeOK, CleanupFile, lockVars, DestType, TempType
<1> QED
    BY <1>1, <1>2, <1>3, <1>4, <1>5, <1>6

(* Every variable keeps its type.                                          *)
THEOREM TypeCorrect == Spec => []TypeOK
<1>1. TypeOK /\ [Next]_vars => TypeOK'
    <2> SUFFICES ASSUME TypeOK, [Next]_vars PROVE TypeOK'
        OBVIOUS
    <2>1. CASE UNCHANGED vars
        BY <2>1 DEF vars, TypeOK
    <2>2. CASE Next
        BY <2>2, TypeLock, TypeStages, TypeLoops DEF Next, Work
    <2> QED
        BY <2>1, <2>2
<1> QED
    BY <1>1, TypeInit, PTL DEF Spec

-----------------------------------------------------------------------------
(* The journal can always be replayed.                                     *)

(* No process is past any step at the start.                               *)
LEMMA PhaseInit == Init => \A p \in Procs : Phase(p)
BY DEF Init, Phase, HoldsLock, JournalPhase, LoopPhase, CopyPhase, OwnState,
       Critical, PreJournal, Early

(* A lock holder excludes every other process.                             *)
LEMMA HolderAlone ==
    ASSUME \A q \in Procs : Phase(q), NEW p \in Procs, pc[p] \in Critical
    PROVE  lock = p /\ \A q \in Procs : q # p => pc[q] \notin Critical
BY DEF Phase, HoldsLock

(* q keeps its phase when a step of another process leaves the disk, the   *)
(* loops and q's place alone ...                                           *)
LEMMA OthersUntouched ==
    ASSUME NEW q \in Procs, Phase(q), UNCHANGED <<lock, diskVars, loopVars>>,
           pc'[q] = pc[q], result'[q] = result[q]
    PROVE  Phase(q)'
<1> USE DEF Phase, diskVars, loopVars
<1>1. HoldsLock(q)' /\ JournalPhase(q)' /\ LoopPhase(q)'
    BY DEF HoldsLock, JournalPhase, LoopPhase
<1>2. CopyPhase(q)'
    BY DEF CopyPhase, Settled, Prepared, Promoted, Undone
<1>3. OwnState(q)'
    BY DEF OwnState
<1> QED
    BY <1>1, <1>2, <1>3

(* ... or whatever that step does, when q does not hold the lock.          *)
LEMMA OthersOutside ==
    ASSUME NEW q \in Procs, Phase(q), pc[q] \notin Critical, pc'[q] = pc[q],
           backed'[q] = backed[q], kept'[q] = kept[q], errs'[q] = errs[q],
           result'[q] = result[q]
    PROVE  Phase(q)'
<1> USE DEF Phase, Critical, PreJournal
<1>1. HoldsLock(q)' /\ JournalPhase(q)' /\ LoopPhase(q)'
    BY DEF HoldsLock, JournalPhase, LoopPhase
<1>2. CopyPhase(q)'
    BY DEF CopyPhase
<1>3. OwnState(q)'
    BY DEF OwnState
<1> QED
    BY <1>1, <1>2, <1>3

(* A process that stays outside, or has just entered or finished, has      *)
(* nothing to show but its own bookkeeping.                                *)
LEMMA ActorPlain ==
    ASSUME NEW p \in Procs, OwnState(p)', HoldsLock(p)',
           pc'[p] \in {"idle", "acquire", "reclaim", "signing", "recover",
                       "release", "done", "dead"}
    PROVE  Phase(p)'
BY DEF Phase, JournalPhase, LoopPhase, CopyPhase, PreJournal

(* Taking, reclaiming, giving back the lock, and dying, keep all phases.   *)
LEMMA PhaseLock ==
    ASSUME TypeOK, \A q \in Procs : Phase(q), ~stolen', NEW p \in Procs,
           Begin(p) \/ CreateLock(p) \/ Inspect(p) \/ Reclaim(p) \/ GiveUp(p)
              \/ OpenFails(p) \/ Sign(p) \/ Release(p) \/ Die(p)
    PROVE  \A q \in Procs : Phase(q)'
<1> USE DEF Goto, Decide
<1>0. OwnState(p) /\ HoldsLock(p) /\ pc \in [Procs -> Labels]
      /\ result \in [Procs -> Results] /\ errs \in [Procs -> BOOLEAN]
    BY DEF TypeOK, Phase
<1>1. CASE Begin(p) \/ Inspect(p) \/ GiveUp(p) \/ OpenFails(p) \/ Die(p)
    <2>1. /\ UNCHANGED <<lock, diskVars, loopVars>>
          /\ pc'[p] \in {"acquire", "reclaim", "done", "dead"}
          /\ \A q \in Procs \ {p} : pc'[q] = pc[q] /\ result'[q] = result[q]
          /\ pc'[p] \in Early => pc[p] \in Early /\ result'[p] = result[p]
        BY <1>0, <1>1 DEF Begin, Inspect, GiveUp, OpenFails, Die, lockVars, Early
    <2>2. Phase(p)'
        <3>1. OwnState(p)'
            BY <1>0, <2>1 DEF OwnState, diskVars, loopVars, Early
        <3>2. HoldsLock(p)'
            BY <2>1 DEF HoldsLock, Critical, PreJournal
        <3> QED
            BY <2>1, <3>1, <3>2, ActorPlain
    <2> QED
        BY <2>1, <2>2, OthersUntouched
<1>2. CASE CreateLock(p)
    <2>1. \A q \in Procs : pc[q] \notin Critical
        BY <1>2, ConstantsAssumption DEF CreateLock, Vacant, Phase, HoldsLock
    <2>2. /\ UNCHANGED <<diskVars, loopVars, result>> /\ lock' = p
          /\ pc'[p] = "signing" /\ pc[p] = "acquire"
          /\ \A q \in Procs \ {p} : pc'[q] = pc[q]
        BY <1>0, <1>2 DEF CreateLock
    <2>3. Phase(p)'
        <3>1. OwnState(p)'
            BY <1>0, <2>2 DEF OwnState, diskVars, loopVars, Early
        <3> QED
            BY <2>2, <3>1, ActorPlain DEF HoldsLock
    <2> QED
        BY <2>1, <2>2, <2>3, OthersOutside DEF diskVars, loopVars
<1>3. CASE Reclaim(p)
    <2>1. /\ UNCHANGED <<diskVars, loopVars, result>>
          /\ pc'[p] = "acquire" /\ pc[p] = "reclaim"
          /\ \A q \in Procs \ {p} : pc'[q] = pc[q]
        BY <1>0, <1>3 DEF Reclaim
    <2>2. Phase(p)'
        <3>1. OwnState(p)'
            BY <1>0, <2>1 DEF OwnState, diskVars, loopVars, Early
        <3>2. HoldsLock(p)'
            BY <2>1 DEF HoldsLock, Critical, PreJournal
        <3> QED
            BY <2>1, <3>1, <3>2, ActorPlain
    <2>3. CASE lock' = lock
        BY <2>1, <2>2, <2>3, OthersUntouched
    <2>4. CASE lock' # lock
        <3>1. lock = None \/ pc[lock] = "dead"
            BY <1>3, <2>4 DEF Reclaim, lockVars
        <3>2. \A q \in Procs : pc[q] \notin Critical
            BY <3>1, ConstantsAssumption DEF Phase, HoldsLock, Critical, PreJournal
        <3> QED
            BY <2>1, <2>2, <3>2, OthersOutside DEF diskVars, loopVars
    <2> QED
        BY <2>3, <2>4
<1>4. CASE Sign(p) \/ Release(p)
    <2>1. /\ pc[p] \in Critical /\ pc'[p] \in {"recover", "release", "done"}
          /\ \A q \in Procs \ {p} : /\ pc'[q] = pc[q] /\ result'[q] = result[q]
                                    /\ errs'[q] = errs[q]
          /\ UNCHANGED <<backed, kept>>
          /\ errs[p] => errs'[p]
          /\ pc'[p] # "done" => lock' = lock
          /\ pc'[p] = "recover" => pc[p] = "signing" /\ result'[p] = result[p]
        BY <1>0, <1>4
        DEF Sign, Release, Record, diskVars, loopVars, Critical, PreJournal
    <2>2. lock = p /\ \A q \in Procs : q # p => pc[q] \notin Critical
        BY <2>1, HolderAlone
    <2>3. Phase(p)'
        <3>1. OwnState(p)'
            BY <1>0, <2>1 DEF OwnState, Early
        <3>2. HoldsLock(p)'
            BY <2>1, <2>2 DEF HoldsLock, Critical, PreJournal
        <3> QED
            BY <2>1, <3>1, <3>2, ActorPlain
    <2> QED
        BY <2>1, <2>2, <2>3, OthersOutside
<1> QED
    BY <1>1, <1>2, <1>3, <1>4

(* A step of the holder that leaves the places of the others alone only    *)
(* has to re-establish the holder's own phase.                             *)
LEMMA HolderStep ==
    ASSUME \A q \in Procs : Phase(q), NEW p \in Procs, pc[p] \in Critical,
           \A q \in Procs \ {p} :
               /\ pc'[q] = pc[q] /\ backed'[q] = backed[q] /\ kept'[q] = kept[q]
               /\ errs'[q] = errs[q] /\ result'[q] = result[q],
           Phase(p)'
    PROVE  \A q \in Procs : Phase(q)'
<1> SUFFICES ASSUME NEW q \in Procs, q # p PROVE Phase(q)'
    OBVIOUS
<1>1. pc[q] \notin Critical
    BY HolderAlone
<1> QED
    BY <1>1, OthersOutside

(* What leaving for the exception handler does to p's place.               *)
LEMMA RaisePlace ==
    ASSUME TypeOK, NEW p \in Procs, NEW S, NEW T, Raise(p, S, T)
    PROVE  /\ \A q \in Procs \ {p} : pc'[q] = pc[q] /\ result'[q] = result[q]
           /\ IF S = {} THEN /\ pc'[p] = IF T = {} THEN "drop" ELSE "cleanup"
                             /\ todo'[p] = T
                        ELSE pc'[p] = "rollback" /\ todo'[p] = S
           /\ result'[p] = "failed"
BY DEF TypeOK, Raise, Loop, Goto, Decide

(* What entering a loop does to p's place.                                 *)
LEMMA LoopPlace ==
    ASSUME TypeOK, NEW p \in Procs, NEW label, NEW after, NEW S,
           Loop(p, label, S, after)
    PROVE  /\ \A q \in Procs \ {p} : pc'[q] = pc[q]
           /\ pc'[p] = IF S = {} THEN after ELSE label
           /\ todo'[p] = S
BY DEF TypeOK, Loop, Goto

(* The steps of the holder that are in no loop keep all phases.            *)
LEMMA PhaseStages ==
    ASSUME TypeOK, \A q \in Procs : Phase(q), NEW p \in Procs,
           ReadJournal(p) \/ FinishRecovery(p) \/ Validate(p)
              \/ WriteJournal(p) \/ Commit(p) \/ DropJournal(p)
    PROVE  \A q \in Procs : Phase(q)'
<1>0. /\ Phase(p) /\ HoldsLock(p) /\ JournalPhase(p) /\ LoopPhase(p)
      /\ CopyPhase(p) /\ OwnState(p)
    BY DEF Phase
<1>t. /\ pc \in [Procs -> Labels] /\ result \in [Procs -> Results]
      /\ errs \in [Procs -> BOOLEAN] /\ todo \in [Procs -> SUBSET Files]
      /\ replays \in [Procs -> Procs] /\ journal \in Procs \cup {None}
    BY DEF TypeOK
<1>c. pc[p] \in Critical => lock = p
    BY <1>0 DEF HoldsLock
<1>n. None \notin Procs
    BY ConstantsAssumption
<1>1. CASE ReadJournal(p)
    <2>1. /\ pc[p] = "recover" /\ pc[p] \in Critical
          /\ \A q \in Procs \ {p} :
               /\ pc'[q] = pc[q] /\ backed'[q] = backed[q] /\ kept'[q] = kept[q]
               /\ errs'[q] = errs[q] /\ result'[q] = result[q]
          /\ UNCHANGED <<lock, dest, temp, backup, backed, journal, kept>>
          /\ pc'[p] \in {"release", "validate", "restoring"}
          /\ pc'[p] # "release" => result'[p] = result[p] /\ errs'[p] = errs[p]
          /\ pc'[p] = "validate" => journal = None
          /\ pc'[p] = "restoring" => /\ journal # None /\ replays'[p] = journal
                                     /\ todo'[p] = Writes[journal]
          /\ errs[p] => errs'[p]
        BY <1>1, <1>t DEF ReadJournal, Pending, Goto, Decide, Record, loopVars, lockVars,
                      diskVars, Critical
    <2>2. HoldsLock(p)' /\ JournalPhase(p)' /\ LoopPhase(p)'
        BY <1>c, <2>1 DEF HoldsLock, JournalPhase, LoopPhase, PreJournal
    <2>3. CopyPhase(p)'
        BY <2>1 DEF CopyPhase
    <2>4. OwnState(p)'
        BY <1>0, <2>1 DEF OwnState, Early
    <2> QED
        BY <2>1, <2>2, <2>3, <2>4, HolderStep DEF Phase
<1>2. CASE FinishRecovery(p)
    <2>1. /\ pc[p] = "restoring" /\ pc[p] \in Critical
          /\ \A q \in Procs \ {p} :
               /\ pc'[q] = pc[q] /\ backed'[q] = backed[q] /\ kept'[q] = kept[q]
               /\ errs'[q] = errs[q] /\ result'[q] = result[q]
          /\ UNCHANGED <<lock, backed, kept>>
          /\ pc'[p] \in {"release", "validate"}
          /\ pc'[p] # "release" => /\ result'[p] = result[p] /\ errs'[p] = errs[p]
                                   /\ journal' = None
          /\ errs[p] => errs'[p]
        BY <1>2, <1>t DEF FinishRecovery, Goto, Decide, lockVars, loopVars,
                      Critical
    <2>2. HoldsLock(p)' /\ JournalPhase(p)' /\ LoopPhase(p)'
        BY <1>c, <2>1 DEF HoldsLock, JournalPhase, LoopPhase, PreJournal
    <2>3. CopyPhase(p)'
        BY <2>1 DEF CopyPhase
    <2>4. OwnState(p)'
        BY <1>0, <2>1 DEF OwnState, Early
    <2> QED
        BY <2>1, <2>2, <2>3, <2>4, HolderStep DEF Phase
<1>3. CASE Validate(p)
    <2>1. /\ pc[p] = "validate" /\ pc[p] \in Critical
          /\ \A q \in Procs \ {p} :
               /\ pc'[q] = pc[q] /\ backed'[q] = backed[q] /\ kept'[q] = kept[q]
               /\ errs'[q] = errs[q] /\ result'[q] = result[q]
          /\ UNCHANGED <<lock, dest, temp, backup, backed, journal, kept, errs>>
          /\ \/ pc'[p] = "release"
             \/ /\ pc'[p] = IF Writes[p] = {} THEN "journal" ELSE "prepare"
                /\ todo'[p] = Writes[p] /\ result'[p] = result[p]
        <3>1. CASE Loop(p, "prepare", Writes[p], "journal") /\ UNCHANGED result
            BY <1>3, <3>1, <1>t, LoopPlace DEF Validate, lockVars, diskVars,
               Critical, PreJournal
        <3>2. CASE Goto(p, "release") /\ Decide(p, "failed") /\ UNCHANGED todo
            BY <1>3, <3>2, <1>t DEF Validate, Goto, Decide, lockVars, diskVars,
               Critical, PreJournal
        <3> QED
            BY <1>3, <3>1, <3>2 DEF Validate
    <2>2. HoldsLock(p)' /\ JournalPhase(p)' /\ LoopPhase(p)'
        BY <1>0, <2>1 DEF HoldsLock, JournalPhase, LoopPhase, PreJournal
    <2>3. CopyPhase(p)'
        BY <1>0, <2>1 DEF CopyPhase, OwnState, Early
    <2>4. OwnState(p)'
        BY <1>0, <2>1 DEF OwnState, Early
    <2> QED
        BY <2>1, <2>2, <2>3, <2>4, HolderStep DEF Phase
<1>4. CASE WriteJournal(p)
    <2>1. /\ pc[p] = "journal" /\ pc[p] \in Critical
          /\ \A q \in Procs \ {p} :
               /\ pc'[q] = pc[q] /\ backed'[q] = backed[q] /\ kept'[q] = kept[q]
               /\ errs'[q] = errs[q] /\ result'[q] = result[q]
          /\ UNCHANGED <<lock, dest, temp, backup, backed, kept, errs>>
          /\ todo'[p] = Writes[p]
          /\ \/ pc'[p] \in {"cleanup", "drop"} /\ journal' = journal
             \/ /\ pc'[p] = IF Writes[p] = {} THEN "commit" ELSE "replace"
                /\ journal' = p /\ result'[p] = result[p]
        BY <1>4, LoopPlace, RaisePlace DEF WriteJournal, lockVars, Critical, PreJournal
    <2>2. journal = None
        BY <1>0, <2>1 DEF JournalPhase, PreJournal
    <2>3. HoldsLock(p)' /\ JournalPhase(p)' /\ LoopPhase(p)'
        BY <1>c, <2>1, <2>2 DEF HoldsLock, JournalPhase, LoopPhase, PreJournal
    <2>4. CopyPhase(p)'
        BY <1>0, <1>n, <2>1, <2>2 DEF CopyPhase, Prepared
    <2>5. OwnState(p)'
        BY <1>0, <2>1 DEF OwnState, Early
    <2> QED
        BY <2>1, <2>3, <2>4, <2>5, HolderStep DEF Phase
<1>5. CASE Commit(p)
    <2>1. /\ pc[p] = "commit" /\ pc[p] \in Critical
          /\ \A q \in Procs \ {p} :
               /\ pc'[q] = pc[q] /\ backed'[q] = backed[q] /\ kept'[q] = kept[q]
               /\ errs'[q] = errs[q] /\ result'[q] = result[q]
          /\ UNCHANGED <<lock, dest, temp, backup, backed, kept, errs>>
          /\ todo'[p] = Writes[p]
          /\ \/ pc'[p] \in {"dispose", "release"} /\ journal' = None
             \/ /\ pc'[p] = IF Writes[p] = {} THEN "drop" ELSE "rollback"
                /\ journal' = journal
        <3>1. CASE Raise(p, Writes[p], Writes[p]) /\ UNCHANGED journal
            BY <1>5, <3>1, RaisePlace DEF Commit, lockVars, Critical
        <3>2. CASE /\ journal' = None
                   /\ Loop(p, "dispose", Writes[p], "release")
                   /\ Decide(p, "committed")
            BY <1>5, <1>t, <3>2, LoopPlace DEF Commit, Decide, lockVars, Critical
        <3> QED
            BY <1>5, <3>1, <3>2 DEF Commit
    <2>2. journal = p
        BY <1>0, <2>1 DEF JournalPhase
    <2>3. HoldsLock(p)' /\ JournalPhase(p)' /\ LoopPhase(p)'
        BY <1>c, <2>1, <2>2 DEF HoldsLock, JournalPhase, LoopPhase, PreJournal
    <2>4. CopyPhase(p)'
        BY <1>0, <2>1, <2>2 DEF CopyPhase, Promoted
    <2>5. OwnState(p)'
        BY <1>0, <2>1 DEF OwnState, Early
    <2> QED
        BY <2>1, <2>3, <2>4, <2>5, HolderStep DEF Phase
<1>6. CASE DropJournal(p)
    <2>1. /\ pc[p] = "drop" /\ pc[p] \in Critical /\ pc'[p] = "release"
          /\ \A q \in Procs \ {p} :
               /\ pc'[q] = pc[q] /\ backed'[q] = backed[q] /\ kept'[q] = kept[q]
               /\ errs'[q] = errs[q] /\ result'[q] = result[q]
          /\ UNCHANGED <<lock, kept, errs>>
        BY <1>6, <1>t DEF DropJournal, Goto, loopVars, lockVars, Critical
    <2>2. HoldsLock(p)'
        BY <1>c, <2>1 DEF HoldsLock
    <2>3. OwnState(p)'
        BY <1>0, <2>1 DEF OwnState, Early
    <2>4. Phase(p)'
        BY <2>1, <2>2, <2>3, ActorPlain
    <2> QED
        BY <2>1, <2>4, HolderStep
<1> QED
    BY <1>1, <1>2, <1>3, <1>4, <1>5, <1>6

(* What visiting a file does to p's place.                                 *)
LEMMA VisitedPlace ==
    ASSUME TypeOK, NEW p \in Procs, NEW f, NEW after, Visited(p, f, after)
    PROVE  /\ \A q \in Procs \ {p} : pc'[q] = pc[q]
           /\ pc'[p] = IF todo[p] \ {f} = {} THEN after ELSE pc[p]
           /\ todo'[p] = todo[p] \ {f}
BY LoopPlace DEF Visited

(* Replaying one journal entry leaves that entry settled.                  *)
LEMMA PhaseRestore ==
    ASSUME TypeOK, \A q \in Procs : Phase(q), NEW p \in Procs, NEW f \in Files,
           Restore(p, f)
    PROVE  \A q \in Procs : Phase(q)'
<1> DEFINE o == replays[p]
<1>0. /\ HoldsLock(p) /\ JournalPhase(p) /\ LoopPhase(p)
      /\ CopyPhase(p) /\ OwnState(p)
    BY DEF Phase
<1>t. /\ o \in Procs /\ todo \in [Procs -> SUBSET Files]
      /\ errs \in [Procs -> BOOLEAN] /\ backed \in [Procs -> SUBSET Files]
      /\ dest \in [Files -> Contents \cup {Absent, Torn}]
      /\ backup \in [Procs -> [Files -> Contents \cup {Absent, Torn}]]
    BY DEF TypeOK
<1>1. /\ pc[p] = "restoring" /\ pc[p] \in Critical /\ pc' = pc
      /\ UNCHANGED <<lock, backed, journal, replays, kept, result>>
      /\ \A q \in Procs \ {p} : errs'[q] = errs[q]
      /\ todo'[p] = todo[p] \ {f}
      /\ errs[p] => errs'[p]
    BY <1>t DEF Restore, Record, lockVars, Critical
<1>2. \/ errs'[p]
      \/ /\ dest' = [dest EXCEPT ![f] = Replayed(o, f)]
         /\ backup' = [backup EXCEPT ![o][f] =
                          IF f \in backed[o] THEN Absent ELSE @]
    BY <1>t DEF Restore, Record
<1>3. \A g \in Files \ {f} : dest'[g] = dest[g] /\ backup'[o][g] = backup[o][g]
    BY <1>t DEF Restore
<1>4. errs'[p] \/ Settled(o, f)'
    BY <1>1, <1>2, <1>t, ConstantsAssumption DEF Settled, Replayed
<1>5. \A g \in Files \ {f} : Settled(o, g) => Settled(o, g)'
    BY <1>1, <1>3 DEF Settled
<1>6. HoldsLock(p)' /\ JournalPhase(p)' /\ LoopPhase(p)'
    BY <1>0, <1>1 DEF HoldsLock, JournalPhase, LoopPhase, PreJournal
<1>7. CopyPhase(p)'
    <2>1. \A g \in Writes[o] \ todo'[p] : errs'[p] \/ Settled(o, g)'
        BY <1>0, <1>1, <1>4, <1>5, <1>t, ConstantsAssumption DEF CopyPhase
    <2> QED
        BY <1>1, <2>1 DEF CopyPhase
<1>8. OwnState(p)'
    BY <1>0, <1>1 DEF OwnState, Early
<1> QED
    BY <1>1, <1>6, <1>7, <1>8, HolderStep DEF Phase

(* Preparing a file, or failing to, keeps all phases.                      *)
LEMMA PhasePrepare ==
    ASSUME TypeOK, \A q \in Procs : Phase(q), NEW p \in Procs, NEW f \in Files,
           Prepare(p, f)
    PROVE  \A q \in Procs : Phase(q)'
<1>0. /\ HoldsLock(p) /\ JournalPhase(p) /\ LoopPhase(p)
      /\ CopyPhase(p) /\ OwnState(p)
    BY DEF Phase
<1>t. /\ todo \in [Procs -> SUBSET Files] /\ backed \in [Procs -> SUBSET Files]
      /\ temp \in [Procs -> [Files -> Procs \cup {Absent, Torn}]]
      /\ backup \in [Procs -> [Files -> Contents \cup {Absent, Torn}]]
    BY DEF TypeOK
<1>1. /\ pc[p] = "prepare" /\ pc[p] \in Critical /\ f \in todo[p]
      /\ UNCHANGED <<lock, dest, journal, kept, errs>>
      /\ \A q \in Procs \ {p} : backed'[q] = backed[q]
      /\ backed'[p] = IF dest[f] # Absent THEN backed[p] \cup {f} ELSE backed[p]
    BY <1>t DEF Prepare, lockVars, Critical, PreJournal
<1>2. journal = None /\ journal # p
    BY <1>0, <1>1, ConstantsAssumption DEF JournalPhase, PreJournal
<1>3. CASE Raise(p, {}, (Writes[p] \ todo[p]) \cup {f})
    <2>1. /\ \A q \in Procs \ {p} : pc'[q] = pc[q] /\ result'[q] = result[q]
          /\ pc'[p] = "cleanup" /\ todo'[p] = (Writes[p] \ todo[p]) \cup {f}
        BY <1>3, RaisePlace
    <2>2. HoldsLock(p)' /\ JournalPhase(p)' /\ LoopPhase(p)'
        BY <1>0, <1>1, <1>2, <2>1 DEF HoldsLock, JournalPhase, LoopPhase, PreJournal
    <2>3. CopyPhase(p)'
        BY <1>1, <1>2, <2>1 DEF CopyPhase
    <2>4. OwnState(p)'
        BY <1>0, <1>1, <2>1 DEF OwnState, Early
    <2> QED
        BY <1>1, <2>1, <2>2, <2>3, <2>4, HolderStep DEF Phase
<1>4. CASE /\ backup' = [backup EXCEPT ![p][f] = dest[f]]
           /\ temp' = [temp EXCEPT ![p][f] = p]
           /\ Visited(p, f, "journal")
           /\ UNCHANGED result
    <2>1. /\ \A q \in Procs \ {p} : pc'[q] = pc[q]
          /\ pc'[p] = IF todo[p] \ {f} = {} THEN "journal" ELSE "prepare"
          /\ todo'[p] = todo[p] \ {f} /\ result' = result
        BY <1>1, <1>4, VisitedPlace
    <2>2. HoldsLock(p)' /\ JournalPhase(p)' /\ LoopPhase(p)'
        BY <1>0, <1>1, <1>2, <2>1 DEF HoldsLock, JournalPhase, LoopPhase, PreJournal,
           Critical
    <2>3. CopyPhase(p)'
        <3>1. f \in Writes[p]
            BY <1>0, <1>1 DEF LoopPhase
        <3>2. f \notin backed[p]
            BY <1>0, <1>1, <3>1 DEF CopyPhase
        <3>3. Prepared(p, f)'
            BY <1>1, <1>4, <1>t, <3>2 DEF Prepared
        <3>4. ASSUME NEW g \in Writes[p], g # f
              PROVE  /\ g \in todo[p] => g \notin backed'[p]
                     /\ g \notin todo[p] => Prepared(p, g)'
            <4>1. g \in Files
                BY ConstantsAssumption
            <4>2. /\ g \in todo[p] => g \notin backed[p]
                  /\ g \notin todo[p] => Prepared(p, g)
                BY <1>0, <1>1 DEF CopyPhase
            <4>3. /\ g \in backed'[p] <=> g \in backed[p]
                  /\ dest'[g] = dest[g] /\ temp'[p][g] = temp[p][g]
                  /\ backup'[p][g] = backup[p][g]
                BY <1>1, <1>4, <1>t, <3>4, <4>1
            <4> QED
                BY <4>2, <4>3 DEF Prepared
        <3>5. pc'[p] \in {"prepare", "journal"}
            BY <2>1
        <3> QED
            BY <2>1, <3>3, <3>4, <3>5 DEF CopyPhase
    <2>4. OwnState(p)'
        BY <1>0, <1>1, <2>1 DEF OwnState, Early
    <2> QED
        BY <1>1, <2>1, <2>2, <2>3, <2>4, HolderStep DEF Phase
<1> QED
    BY <1>3, <1>4 DEF Prepare

(* Renaming a temporary over its destination keeps the pre-image safe.     *)
LEMMA PhaseReplace ==
    ASSUME TypeOK, \A q \in Procs : Phase(q), NEW p \in Procs, NEW f \in Files,
           ReplaceFile(p, f)
    PROVE  \A q \in Procs : Phase(q)'
<1>0. /\ HoldsLock(p) /\ JournalPhase(p) /\ LoopPhase(p)
      /\ CopyPhase(p) /\ OwnState(p)
    BY DEF Phase
<1>t. /\ todo \in [Procs -> SUBSET Files]
      /\ dest \in [Files -> Contents \cup {Absent, Torn}]
      /\ temp \in [Procs -> [Files -> Procs \cup {Absent, Torn}]]
    BY DEF TypeOK
<1>1. /\ pc[p] = "replace" /\ pc[p] \in Critical /\ f \in todo[p]
      /\ UNCHANGED <<lock, backup, backed, journal, kept, errs>>
    BY DEF ReplaceFile, lockVars, Critical
<1>2. journal = p /\ f \in Writes[p] /\ todo[p] \subseteq Writes[p]
    BY <1>0, <1>1 DEF JournalPhase, LoopPhase
<1>3. \A g \in Writes[p] : IF g \in todo[p] THEN Prepared(p, g) ELSE Promoted(p, g)
    BY <1>0, <1>1 DEF CopyPhase
<1>4. CASE Raise(p, Writes[p] \ todo[p], Writes[p]) /\ UNCHANGED <<dest, temp>>
    <2>1. /\ \A q \in Procs \ {p} : pc'[q] = pc[q] /\ result'[q] = result[q]
          /\ result'[p] = "failed"
          /\ \/ pc'[p] = "rollback" /\ todo'[p] = Writes[p] \ todo[p]
             \/ /\ pc'[p] = "cleanup" /\ todo'[p] = Writes[p]
                /\ Writes[p] \subseteq todo[p]
        BY <1>2, <1>4, RaisePlace
    <2>2. HoldsLock(p)' /\ JournalPhase(p)' /\ LoopPhase(p)'
        BY <1>0, <1>1, <1>2, <2>1 DEF HoldsLock, JournalPhase, LoopPhase, PreJournal
    <2>3. CopyPhase(p)'
        <3>1. \A g \in todo[p] : Undone(p, g)'
            BY <1>1, <1>2, <1>3, <1>4, ConstantsAssumption DEF Undone, Prepared
        <3>2. \A g \in Writes[p] \ todo[p] : Promoted(p, g)'
            BY <1>1, <1>3, <1>4 DEF Promoted
        <3> QED
            BY <2>1, <3>1, <3>2 DEF CopyPhase
    <2>4. OwnState(p)'
        BY <1>0, <1>1, <2>1 DEF OwnState, Early
    <2> QED
        BY <1>1, <2>1, <2>2, <2>3, <2>4, HolderStep DEF Phase
<1>5. CASE /\ dest' = [dest EXCEPT ![f] = temp[p][f]]
           /\ temp' = [temp EXCEPT ![p][f] = Absent]
           /\ Visited(p, f, "commit")
           /\ UNCHANGED result
    <2>1. /\ \A q \in Procs \ {p} : pc'[q] = pc[q]
          /\ pc'[p] = IF todo[p] \ {f} = {} THEN "commit" ELSE "replace"
          /\ todo'[p] = todo[p] \ {f} /\ result' = result
        BY <1>1, <1>5, VisitedPlace
    <2>2. HoldsLock(p)' /\ JournalPhase(p)' /\ LoopPhase(p)'
        BY <1>0, <1>1, <1>2, <2>1 DEF HoldsLock, JournalPhase, LoopPhase, PreJournal,
           Critical
    <2>3. CopyPhase(p)'
        <3>1. Promoted(p, f)'
            BY <1>1, <1>2, <1>3, <1>5, <1>t DEF Prepared, Promoted
        <3>2. ASSUME NEW g \in Writes[p], g # f
              PROVE  IF g \in todo[p] THEN Prepared(p, g)' ELSE Promoted(p, g)'
            <4>1. g \in Files
                BY ConstantsAssumption
            <4>2. dest'[g] = dest[g] /\ temp'[p][g] = temp[p][g]
                BY <1>5, <1>t, <3>2, <4>1
            <4> QED
                BY <1>1, <1>3, <4>2 DEF Prepared, Promoted
        <3> QED
            BY <2>1, <3>1, <3>2 DEF CopyPhase
    <2>4. OwnState(p)'
        BY <1>0, <1>1, <2>1 DEF OwnState, Early
    <2> QED
        BY <1>1, <2>1, <2>2, <2>3, <2>4, HolderStep DEF Phase
<1> QED
    BY <1>4, <1>5 DEF ReplaceFile

(* Removing backups after the commit disturbs no one.                      *)
LEMMA PhaseDispose ==
    ASSUME TypeOK, \A q \in Procs : Phase(q), NEW p \in Procs, NEW f \in Files,
           Dispose(p, f)
    PROVE  \A q \in Procs : Phase(q)'
<1>0. /\ HoldsLock(p) /\ JournalPhase(p) /\ LoopPhase(p) /\ OwnState(p)
    BY DEF Phase
<1>t. errs \in [Procs -> BOOLEAN]
    BY DEF TypeOK
<1>1. /\ pc[p] = "dispose" /\ pc[p] \in Critical
      /\ pc'[p] \in {"dispose", "release"}
      /\ \A q \in Procs \ {p} : pc'[q] = pc[q] /\ errs'[q] = errs[q]
      /\ todo'[p] = todo[p] \ {f}
      /\ errs[p] => errs'[p]
      /\ UNCHANGED <<lock, backed, journal, kept, result>>
    BY <1>t, VisitedPlace DEF Dispose, Record, lockVars, Critical
<1>2. HoldsLock(p)' /\ JournalPhase(p)' /\ LoopPhase(p)'
    BY <1>0, <1>1 DEF HoldsLock, JournalPhase, LoopPhase, PreJournal
<1>3. CopyPhase(p)'
    BY <1>1 DEF CopyPhase
<1>4. OwnState(p)'
    BY <1>0, <1>1 DEF OwnState, Early
<1> QED
    BY <1>1, <1>2, <1>3, <1>4, HolderStep DEF Phase

(* Undoing one promoted file keeps all phases.                             *)
LEMMA PhaseRollback ==
    ASSUME TypeOK, \A q \in Procs : Phase(q), NEW p \in Procs, NEW f \in Files,
           RollbackFile(p, f)
    PROVE  \A q \in Procs : Phase(q)'
<1>0. /\ HoldsLock(p) /\ JournalPhase(p) /\ LoopPhase(p)
      /\ CopyPhase(p) /\ OwnState(p)
    BY DEF Phase
<1>t. /\ todo \in [Procs -> SUBSET Files] /\ kept \in [Procs -> SUBSET Files]
      /\ errs \in [Procs -> BOOLEAN]
      /\ dest \in [Files -> Contents \cup {Absent, Torn}]
      /\ backup \in [Procs -> [Files -> Contents \cup {Absent, Torn}]]
    BY DEF TypeOK
<1>1. /\ pc[p] = "rollback" /\ pc[p] \in Critical /\ f \in todo[p]
      /\ UNCHANGED <<lock, backed, journal, result>>
      /\ \A q \in Procs \ {p} : kept'[q] = kept[q] /\ errs'[q] = errs[q]
      /\ errs[p] => errs'[p]
      /\ kept'[p] = kept[p] \/ errs'[p]
      /\ kept[p] \subseteq kept'[p]
    BY <1>t DEF RollbackFile, Record, lockVars, Critical
<1>2. journal = p /\ f \in Writes[p] /\ todo[p] \subseteq Writes[p]
    BY <1>0, <1>1 DEF JournalPhase, LoopPhase
<1>3. /\ \A q \in Procs \ {p} : pc'[q] = pc[q]
      /\ \/ /\ pc'[p] = "rollback" /\ todo'[p] = todo[p] \ {f}
         \/ /\ pc'[p] = "cleanup" /\ todo'[p] = Writes[p]
            /\ todo[p] \subseteq {f}
    BY <1>2, LoopPlace DEF RollbackFile, RolledBack
<1>4. Undone(p, f)'
    <2>1. Promoted(p, f)
        BY <1>0, <1>1, <1>2 DEF CopyPhase
    <2>2. CASE /\ f \notin backed[p]
               /\ dest' = [dest EXCEPT ![f] = Absent]
        BY <1>1, <1>t, <2>2, ConstantsAssumption DEF Undone
    <2>3. CASE /\ f \in backed[p]
               /\ backup' = [backup EXCEPT ![p][f] = Absent]
        BY <1>1, <1>t, <2>3 DEF Undone
    <2>4. CASE /\ kept' = [kept EXCEPT ![p] =
                               IF f \in backed[p] THEN @ \cup {f} ELSE @]
               /\ Record(p)
        BY <1>1, <1>t, <2>4 DEF Undone, Record
    <2> QED
        BY <2>2, <2>3, <2>4 DEF RollbackFile
<1>5. ASSUME NEW g \in Writes[p], g # f
      PROVE  IF g \in todo[p] THEN Promoted(p, g)' ELSE Undone(p, g)'
    <2>1. g \in Files
        BY ConstantsAssumption
    <2>2. dest'[g] = dest[g] /\ backup'[p][g] = backup[p][g]
        BY <1>t, <1>5, <2>1 DEF RollbackFile
    <2>3. IF g \in todo[p] THEN Promoted(p, g) ELSE Undone(p, g)
        BY <1>0, <1>1 DEF CopyPhase
    <2> QED
        BY <1>1, <2>2, <2>3 DEF Promoted, Undone
<1>6. HoldsLock(p)' /\ JournalPhase(p)' /\ LoopPhase(p)'
    BY <1>0, <1>1, <1>2, <1>3 DEF HoldsLock, JournalPhase, LoopPhase, PreJournal
<1>7. CopyPhase(p)'
    BY <1>2, <1>3, <1>4, <1>5 DEF CopyPhase
<1>8. OwnState(p)'
    BY <1>0, <1>1, <1>3 DEF OwnState, Early
<1> QED
    BY <1>1, <1>3, <1>6, <1>7, <1>8, HolderStep DEF Phase

(* Cleaning up only removes copies that no replay needs.                   *)
LEMMA PhaseCleanup ==
    ASSUME TypeOK, \A q \in Procs : Phase(q), NEW p \in Procs, NEW f \in Files,
           CleanupFile(p, f)
    PROVE  \A q \in Procs : Phase(q)'
<1>0. /\ HoldsLock(p) /\ JournalPhase(p) /\ LoopPhase(p)
      /\ CopyPhase(p) /\ OwnState(p)
    BY DEF Phase
<1>t. /\ todo \in [Procs -> SUBSET Files] /\ errs \in [Procs -> BOOLEAN]
      /\ backup \in [Procs -> [Files -> Contents \cup {Absent, Torn}]]
    BY DEF TypeOK
<1>1. /\ pc[p] = "cleanup" /\ pc[p] \in Critical /\ f \in todo[p]
      /\ UNCHANGED <<lock, dest, backed, journal, kept, result>>
      /\ \A q \in Procs \ {p} : errs'[q] = errs[q]
      /\ errs[p] => errs'[p]
    BY <1>t DEF CleanupFile, lockVars, Critical
<1>2. /\ \A q \in Procs \ {p} : pc'[q] = pc[q]
      /\ pc'[p] = IF todo[p] \ {f} = {} THEN "drop" ELSE "cleanup"
      /\ todo'[p] = todo[p] \ {f}
    BY <1>1, VisitedPlace DEF CleanupFile
<1>3. /\ backup'[p][f] \in {Absent, backup[p][f]}
      /\ f \in backed[p] \ kept[p] => backup'[p][f] = Absent \/ errs'[p]
    <2> DEFINE paths == CleanupPaths(p, f)
    <2>1. PICK gone \in SUBSET paths :
             /\ backup' = [backup EXCEPT ![p][f] =
                              IF "backup" \in gone THEN Absent ELSE @]
             /\ errs' = [errs EXCEPT ![p] = @ \/ gone # paths]
        BY DEF CleanupFile
    <2>2. backup'[p][f] = IF "backup" \in gone THEN Absent ELSE backup[p][f]
        BY <1>t, <2>1
    <2>3. gone # paths => errs'[p]
        BY <1>t, <2>1
    <2> QED
        BY <2>2, <2>3 DEF CleanupPaths
<1>4. \A g \in Files \ {f} : backup'[p][g] = backup[p][g]
    BY <1>t DEF CleanupFile
<1>5. HoldsLock(p)' /\ JournalPhase(p)' /\ LoopPhase(p)'
    BY <1>0, <1>1, <1>2 DEF HoldsLock, JournalPhase, LoopPhase, PreJournal
<1>6. CopyPhase(p)'
    <2>1. SUFFICES ASSUME journal = p
                   PROVE  \A g \in Writes[p] :
                             /\ Undone(p, g)'
                             /\ g \notin todo'[p] => errs'[p] \/ Settled(p, g)'
        BY <1>1, <1>2 DEF CopyPhase
    <2>2. TAKE g \in Writes[p]
    <2>3. g \in Files
        BY ConstantsAssumption
    <2>4. Undone(p, g) /\ (g \notin todo[p] => errs[p] \/ Settled(p, g))
        BY <1>0, <1>1, <2>1 DEF CopyPhase
    <2>5. Undone(p, g)'
        BY <1>1, <1>3, <1>4, <2>3, <2>4 DEF Undone
    <2>6. g \notin todo[p] => errs'[p] \/ Settled(p, g)'
        BY <1>1, <1>2, <1>4, <2>3, <2>4 DEF Settled
    <2>7. g = f => errs'[p] \/ Settled(p, g)'
        BY <1>0, <1>1, <1>3, <2>4 DEF Settled, Undone, OwnState
    <2> QED
        BY <1>2, <2>5, <2>6, <2>7
<1>7. OwnState(p)'
    BY <1>0, <1>1, <1>2 DEF OwnState, Early
<1> QED
    BY <1>1, <1>2, <1>5, <1>6, <1>7, HolderStep DEF Phase

(* A theft is not forgotten.                                               *)
LEMMA TheftRemembered == ASSUME TypeOK, [Next]_vars, ~stolen' PROVE ~stolen
<1>1. CASE UNCHANGED vars
    BY <1>1 DEF vars
<1>2. CASE Next
    <2>1. PICK p \in Procs : Begin(p) \/ Work(p) \/ OpenFails(p) \/ Die(p)
        BY <1>2 DEF Next
    <2> QED
        BY <2>1 DEF Work, Begin, Die, CreateLock, Inspect, Reclaim, GiveUp, OpenFails,
           Sign, Release, ReadJournal, FinishRecovery, Validate, WriteJournal, Commit,
           DropJournal, Restore, Prepare, ReplaceFile, Dispose, RollbackFile,
           CleanupFile, lockVars, TypeOK
<1> QED
    BY <1>1, <1>2

(* Whatever fails and whoever dies, the pending journal can be replayed.   *)
LEMMA PhaseNext ==
    ASSUME TypeOK, JournalReplayable, [Next]_vars
    PROVE  JournalReplayable'
<1> SUFFICES ASSUME ~stolen' PROVE \A q \in Procs : Phase(q)'
    BY DEF JournalReplayable
<1>1. CASE UNCHANGED vars
    <2>1. \A q \in Procs : Phase(q)
        BY <1>1 DEF JournalReplayable, vars
    <2> QED
        BY <1>1, <2>1, OthersUntouched DEF vars, diskVars, loopVars
<1>2. CASE Next
    <2>1. PICK p \in Procs : Begin(p) \/ Work(p) \/ OpenFails(p) \/ Die(p)
        BY <1>2 DEF Next
    <2>2. ~stolen
        BY TheftRemembered
    <2>3. \A q \in Procs : Phase(q)
        BY <2>2 DEF JournalReplayable
    <2>4. CASE \E f \in Files :
                  \/ Restore(p, f) \/ Prepare(p, f) \/ ReplaceFile(p, f)
                  \/ Dispose(p, f) \/ RollbackFile(p, f) \/ CleanupFile(p, f)
        BY <2>3, <2>4, PhaseRestore, PhasePrepare, PhaseReplace, PhaseDispose,
           PhaseRollback, PhaseCleanup
    <2>5. CASE ~ \E f \in Files :
                  \/ Restore(p, f) \/ Prepare(p, f) \/ ReplaceFile(p, f)
                  \/ Dispose(p, f) \/ RollbackFile(p, f) \/ CleanupFile(p, f)
        BY <2>1, <2>3, <2>5, PhaseLock, PhaseStages DEF Work
    <2> QED
        BY <2>4, <2>5
<1> QED
    BY <1>1, <1>2

(* Whatever raises and whoever dies, the copies that replaying the journal *)
(* relies on are there and are the right ones                              *)
(* (_recover_interrupted_promotion).                                       *)
THEOREM AlwaysReplayable == Spec => []JournalReplayable
<1>1. Init => JournalReplayable
    BY PhaseInit DEF JournalReplayable
<1>2. TypeOK /\ TypeOK' /\ JournalReplayable /\ [Next]_vars => JournalReplayable'
    BY PhaseNext
<1> QED
    BY <1>1, <1>2, TypeCorrect, PTL DEF Spec

-----------------------------------------------------------------------------
(* Consequences.                                                           *)

(* At most one transaction is between _acquire_lock and _release_lock, in  *)
(* every behaviour without a theft.                                        *)
THEOREM HoldersExclude == Spec => []OneHolder
<1>1. JournalReplayable => OneHolder
    BY DEF JournalReplayable, Phase, HoldsLock, OneHolder
<1> QED
    BY <1>1, AlwaysReplayable, PTL

(* No promotion writes its journal over the journal of another.            *)
THEOREM JournalKept == Spec => JournalNeverOverwritten
<1> DEFINE Kept == ~stolen' /\ journal # None /\ journal' # journal
                      => journal' = None
<1>1. ASSUME TypeOK, JournalReplayable, [Next]_vars
      PROVE  [Kept]_vars
    <2> SUFFICES ASSUME Next, ~stolen', journal # None, journal' # journal
                 PROVE  journal' = None
        BY <1>1
    <2>1. PICK p \in Procs : Begin(p) \/ Work(p) \/ OpenFails(p) \/ Die(p)
        BY DEF Next
    <2>2. WriteJournal(p) => journal = None
        <3>1. WriteJournal(p) => ~stolen /\ pc[p] \in PreJournal
            BY DEF WriteJournal, lockVars, PreJournal
        <3> QED
            BY <1>1, <3>1 DEF JournalReplayable, Phase, JournalPhase
    <2> QED
        BY <2>1, <2>2
        DEF Work, Begin, Die, CreateLock, Inspect, Reclaim, GiveUp, OpenFails, Sign,
           Release, ReadJournal, FinishRecovery, Validate, Commit,
           DropJournal, Restore, Prepare, ReplaceFile, Dispose, RollbackFile,
           CleanupFile, diskVars
<1> QED
    BY <1>1, TypeCorrect, AlwaysReplayable, PTL DEF Spec, JournalNeverOverwritten

-----------------------------------------------------------------------------
(* A promotion that ends without an error leaves nothing behind.           *)

(* f's temporary of p exists only from its preparation to its rename or    *)
(* its clean-up, ...                                                       *)
TempInUse(p, f) ==
    /\ f \in Writes[p]
    /\ \/ pc[p] = "prepare" /\ f \notin todo[p]
       \/ pc[p] \in {"journal", "rollback"}
       \/ pc[p] \in {"replace", "cleanup"} /\ f \in todo[p]

(* ... f's backup from its preparation to its disposal or its clean-up,    *)
BackupInUse(p, f) ==
    /\ f \in Writes[p] \cap backed[p]
    /\ \/ pc[p] = "prepare" /\ f \notin todo[p]
       \/ pc[p] \in {"journal", "replace", "commit", "rollback"}
       \/ pc[p] \in {"cleanup", "dispose"} /\ f \in todo[p]

(* ... and p's output is seen from its rename until it is rolled back.     *)
OutputShown(p, f) ==
    /\ f \in Writes[p]
    /\ \/ pc[p] = "replace" /\ f \notin todo[p]
       \/ pc[p] = "commit"
       \/ pc[p] = "rollback" /\ f \in todo[p]

(* p has no file that its present phase does not account for, and nobody   *)
(* has backed up output that p may still take back.                        *)
TidyFile(p, f) ==
    /\ temp[p][f] # Absent => TempInUse(p, f)
    /\ backup[p][f] # Absent => BackupInUse(p, f)
    /\ result[p] # "committed" => /\ dest[f] = p => OutputShown(p, f)
                                  /\ \A q \in Procs : backup[q][f] # p

Tidy(p) == ~errs[p] /\ pc[p] # "dead" => \A f \in Files : TidyFile(p, f)

(* What a step of p may do to the others' places and to the copies: those  *)
(* of others only disappear, and a destination gets p's output only from a *)
(* rename, or else goes back to a backup.                                  *)
Footprint(p) ==
    /\ pc[p] # "dead"
    /\ errs[p] => errs'[p]
    /\ result[p] = "committed" => result'[p] = "committed"
    /\ \A q \in Procs \ {p} : /\ pc'[q] = pc[q] /\ todo'[q] = todo[q]
                              /\ backed'[q] = backed[q] /\ errs'[q] = errs[q]
                              /\ result'[q] = result[q]
    /\ \A q \in Procs, f \in Files :
          \/ temp'[q][f] \in {temp[q][f], Absent}
          \/ q = p /\ pc[p] = "prepare"
    /\ \A q \in Procs, f \in Files :
          \/ backup'[q][f] \in {backup[q][f], Absent}
          \/ q = p /\ pc[p] = "prepare" /\ backup'[q][f] \in {dest[f], Torn}
    /\ \A f \in Files :
          \/ dest'[f] \in {dest[f], Absent}
          \/ dest'[f] = p /\ pc[p] = "replace"
          \/ \E r \in Procs : dest'[f] = backup[r][f]

(* Nothing exists at the start.                                            *)
LEMMA TidyInit == Init => \A p \in Procs : Tidy(p)
BY ConstantsAssumption DEF Init, Tidy, TidyFile

(* The other processes stay tidy: nobody holds the lock beside p, so what  *)
(* p backs up or puts back is no output that another may still take back.  *)
LEMMA OthersTidy ==
    ASSUME NEW p \in Procs, \A q \in Procs : Phase(q), Footprint(p),
           NEW q \in Procs, q # p, Tidy(q)
    PROVE  Tidy(q)'
<1>1. /\ pc'[q] = pc[q] /\ todo'[q] = todo[q] /\ backed'[q] = backed[q]
      /\ errs'[q] = errs[q] /\ result'[q] = result[q]
    BY DEF Footprint
<1> SUFFICES ASSUME ~errs[q], pc[q] # "dead", NEW f \in Files
             PROVE  TidyFile(q, f)'
    BY <1>1 DEF Tidy
<1>2. TidyFile(q, f)
    BY DEF Tidy
<1>3. /\ TempInUse(q, f)' <=> TempInUse(q, f)
      /\ BackupInUse(q, f)' <=> BackupInUse(q, f)
      /\ OutputShown(q, f)' <=> OutputShown(q, f)
    BY <1>1 DEF TempInUse, BackupInUse, OutputShown
<1>4. /\ temp'[q][f] \in {temp[q][f], Absent}
      /\ backup'[q][f] \in {backup[q][f], Absent}
    BY DEF Footprint
<1>5. ASSUME result[q] # "committed"
      PROVE  /\ dest'[f] = q => OutputShown(q, f)
             /\ \A r \in Procs : backup'[r][f] # q
    <2>1. q # Absent /\ q # Torn
        BY ConstantsAssumption
    <2>2. \A r \in Procs : backup[r][f] # q
        BY <1>2, <1>5 DEF TidyFile
    <2>3. dest'[f] = q => dest[f] = q
        BY <2>1, <2>2 DEF Footprint
    <2>4. pc[p] = "prepare" => dest[f] # q
        <3>1. pc[p] = "prepare" => pc[q] \notin Critical
            BY HolderAlone DEF Critical, PreJournal
        <3>2. OutputShown(q, f) => pc[q] \in Critical
            BY DEF OutputShown, Critical
        <3> QED
            BY <1>2, <1>5, <3>1, <3>2 DEF TidyFile
    <2>5. ASSUME NEW r \in Procs PROVE backup'[r][f] # q
        <3>1. \/ backup'[r][f] \in {backup[r][f], Absent}
              \/ pc[p] = "prepare" /\ backup'[r][f] \in {dest[f], Torn}
            BY DEF Footprint
        <3> QED
            BY <2>1, <2>2, <2>4, <3>1
    <2> QED
        BY <1>2, <1>5, <2>3, <2>5 DEF TidyFile
<1> QED
    BY <1>1, <1>2, <1>3, <1>4, <1>5 DEF TidyFile

(* Outside these phases p has no file of its own, and gets none.           *)
Handling == {"prepare", "journal", "replace", "commit", "rollback", "cleanup", "dispose"}

(* p stays tidy when it is in none of them.                                *)
LEMMA PlainTidy ==
    ASSUME NEW p \in Procs, Footprint(p), Tidy(p), pc[p] \notin Handling
    PROVE  Tidy(p)'
<1>1. /\ pc[p] # "dead" /\ (errs[p] => errs'[p])
      /\ result[p] = "committed" => result'[p] = "committed"
    BY DEF Footprint
<1> SUFFICES ASSUME ~errs'[p], NEW f \in Files PROVE TidyFile(p, f)'
    BY DEF Tidy
<1>2. TidyFile(p, f)
    BY <1>1 DEF Tidy
<1>3. ~TempInUse(p, f) /\ ~BackupInUse(p, f) /\ ~OutputShown(p, f)
    BY DEF TempInUse, BackupInUse, OutputShown, Handling
<1>4. temp[p][f] = Absent /\ backup[p][f] = Absent
    BY <1>2, <1>3 DEF TidyFile
<1>5. pc[p] # "prepare" /\ pc[p] # "replace"
    BY DEF Handling
<1>6. temp'[p][f] = Absent /\ backup'[p][f] = Absent
    BY <1>4, <1>5 DEF Footprint
<1>7. ASSUME result'[p] # "committed"
      PROVE  dest'[f] # p /\ \A r \in Procs : backup'[r][f] # p
    <2>1. p # Absent
        BY ConstantsAssumption
    <2>2. dest[f] # p /\ \A r \in Procs : backup[r][f] # p
        BY <1>1, <1>2, <1>3, <1>7 DEF TidyFile
    <2>3. dest'[f] # p
        BY <1>5, <2>1, <2>2 DEF Footprint
    <2>4. ASSUME NEW r \in Procs PROVE backup'[r][f] # p
        <3>1. backup'[r][f] \in {backup[r][f], Absent}
            BY <1>5 DEF Footprint
        <3> QED
            BY <2>1, <2>2, <3>1
    <2> QED
        BY <2>3, <2>4
<1> QED
    BY <1>6, <1>7 DEF TidyFile

(* Copying f for p, or removing that copy, changes one entry.              *)
LEMMA OneCopy ==
    ASSUME NEW T, NEW g \in [Procs -> [Files -> T]], NEW h,
           NEW p \in Procs, NEW f \in Files, NEW c,
           h = g \/ h = [g EXCEPT ![p][f] = c]
    PROVE  \A q \in Procs, x \in Files :
               h[q][x] = g[q][x] \/ (q = p /\ x = f /\ h[q][x] = c)
OBVIOUS

(* Entering a loop or leaving for the exception handler moves p alone.     *)
LEMMA LoopMovesOne ==
    ASSUME TypeOK, NEW p \in Procs, NEW label, NEW after, NEW S,
           Loop(p, label, S, after)
    PROVE  \A q \in Procs \ {p} : pc'[q] = pc[q] /\ todo'[q] = todo[q]
BY DEF TypeOK, Loop, Goto

LEMMA RaiseMovesOne ==
    ASSUME TypeOK, NEW p \in Procs, NEW S, NEW T, Raise(p, S, T)
    PROVE  /\ \A q \in Procs \ {p} : /\ pc'[q] = pc[q] /\ todo'[q] = todo[q]
                                     /\ result'[q] = result[q]
           /\ result'[p] = "failed"
BY LoopMovesOne, RaisePlace DEF Raise

(* The steps that leave the copies and the destinations alone.             *)
LEMMA FootprintPlaces ==
    ASSUME TypeOK, \A q \in Procs : Phase(q), NEW p \in Procs,
           \/ Begin(p) \/ CreateLock(p) \/ Inspect(p) \/ Reclaim(p) \/ GiveUp(p)
           \/ OpenFails(p) \/ Sign(p) \/ Release(p) \/ Die(p)
           \/ ReadJournal(p) \/ FinishRecovery(p) \/ Validate(p)
           \/ WriteJournal(p) \/ Commit(p) \/ DropJournal(p)
    PROVE  Footprint(p)
<1>t. /\ pc \in [Procs -> Labels] /\ result \in [Procs -> Results]
      /\ errs \in [Procs -> BOOLEAN] /\ todo \in [Procs -> SUBSET Files]
    BY DEF TypeOK
<1>o. OwnState(p)
    BY DEF Phase
<1>u. UNCHANGED <<dest, temp, backup, backed>>
    BY DEF Begin, CreateLock, Inspect, Reclaim, GiveUp, OpenFails, Sign, Release, Die,
       ReadJournal, FinishRecovery, Validate, WriteJournal, Commit, DropJournal,
       diskVars
<1>1. ASSUME /\ pc[p] # "dead"
             /\ errs[p] => errs'[p]
             /\ result[p] = "committed" => result'[p] = "committed"
             /\ \A q \in Procs \ {p} : /\ pc'[q] = pc[q] /\ todo'[q] = todo[q]
                                       /\ errs'[q] = errs[q]
                                       /\ result'[q] = result[q]
      PROVE  Footprint(p)
    BY <1>1, <1>u DEF Footprint
<1>2. CASE Begin(p) \/ CreateLock(p) \/ Inspect(p) \/ Reclaim(p) \/ GiveUp(p)
              \/ OpenFails(p) \/ Die(p)
    <2>1. /\ pc[p] # "dead" /\ UNCHANGED <<todo, errs>>
          /\ result' = result
                \/ (pc[p] \in Early /\ \E r \in Results :
                                          result' = [result EXCEPT ![p] = r])
          /\ \E label \in Labels : pc' = [pc EXCEPT ![p] = label]
        BY <1>2, LabelFacts DEF Begin, CreateLock, Inspect, Reclaim, GiveUp, OpenFails,
           Die, AttemptFailed, Goto, Decide, loopVars, Early
    <2> QED
        BY <1>t, <1>o, <1>1, <2>1 DEF OwnState
<1>3. CASE Sign(p) \/ Release(p)
    <2>1. /\ pc[p] # "dead" /\ UNCHANGED todo
          /\ result' = result
                \/ (pc[p] \in Early /\ \E r \in Results :
                                          result' = [result EXCEPT ![p] = r])
          /\ \E label \in Labels : pc' = [pc EXCEPT ![p] = label]
        BY <1>3, LabelFacts DEF Sign, Release, Goto, Decide, loopVars, Early
    <2>2. errs' = errs \/ Record(p)
        BY <1>3 DEF Sign, Release, loopVars
    <2>3. /\ errs[p] => errs'[p]
          /\ \A q \in Procs \ {p} : errs'[q] = errs[q]
        BY <1>t, <2>2 DEF Record
    <2> QED
        BY <1>t, <1>o, <1>1, <2>1, <2>3 DEF OwnState
<1>4. CASE ReadJournal(p) \/ FinishRecovery(p)
    <2>1. /\ pc[p] \in Early \ {"dead"}
          /\ result' = result
                \/ \E r \in Results : result' = [result EXCEPT ![p] = r]
          /\ \E label \in Labels : pc' = [pc EXCEPT ![p] = label]
          /\ todo' = todo \/ todo' = [todo EXCEPT ![p] = Writes[journal]]
        BY <1>4, LabelFacts DEF ReadJournal, FinishRecovery, Goto, Decide, loopVars, Early
    <2>2. errs' = errs \/ Record(p)
        BY <1>4 DEF ReadJournal, FinishRecovery, loopVars
    <2>3. /\ errs[p] => errs'[p]
          /\ \A q \in Procs \ {p} : errs'[q] = errs[q]
        BY <1>t, <2>2 DEF Record
    <2>4. /\ \A q \in Procs \ {p} : pc'[q] = pc[q] /\ todo'[q] = todo[q]
          /\ \A q \in Procs \ {p} : result'[q] = result[q]
        BY <1>t, <2>1
    <2> QED
        BY <1>t, <1>o, <1>1, <2>1, <2>3, <2>4 DEF OwnState, Early
<1>5. CASE Validate(p)
    <2>1. pc[p] = "validate" /\ UNCHANGED errs /\ result[p] = "none"
        BY <1>5, <1>o DEF Validate, OwnState, Early
    <2>2. CASE Loop(p, "prepare", Writes[p], "journal") /\ UNCHANGED result
        BY <1>1, <2>1, <2>2, LoopMovesOne
    <2>3. CASE Goto(p, "release") /\ Decide(p, "failed") /\ UNCHANGED todo
        BY <1>t, <1>1, <2>1, <2>3 DEF Goto, Decide
    <2> QED
        BY <1>5, <2>2, <2>3 DEF Validate
<1>6. CASE WriteJournal(p)
    <2>1. pc[p] = "journal" /\ UNCHANGED errs /\ result[p] = "none"
        BY <1>6, <1>o DEF WriteJournal, OwnState
    <2>2. CASE Loop(p, "replace", Writes[p], "commit") /\ UNCHANGED result
        BY <1>1, <2>1, <2>2, LoopMovesOne
    <2>3. CASE Raise(p, {}, Writes[p])
        BY <1>1, <2>1, <2>3, RaiseMovesOne
    <2> QED
        BY <1>6, <2>2, <2>3 DEF WriteJournal
<1>7. CASE Commit(p)
    <2>1. pc[p] = "commit" /\ UNCHANGED errs /\ result[p] = "none"
        BY <1>7, <1>o DEF Commit, OwnState
    <2>2. CASE Loop(p, "dispose", Writes[p], "release") /\ Decide(p, "committed")
        <3>1. \A q \in Procs \ {p} : result'[q] = result[q]
            BY <1>t, <2>2 DEF Decide
        <3> QED
            BY <1>1, <2>1, <2>2, <3>1, LoopMovesOne
    <2>3. CASE Raise(p, Writes[p], Writes[p])
        BY <1>1, <2>1, <2>3, RaiseMovesOne
    <2> QED
        BY <1>7, <2>2, <2>3 DEF Commit
<1>8. CASE DropJournal(p)
    BY <1>8, <1>t, <1>1 DEF DropJournal, Goto, loopVars
<1> QED
    BY <1>2, <1>3, <1>4, <1>5, <1>6, <1>7, <1>8

(* The steps that visit a file.                                            *)
LEMMA FootprintLoops ==
    ASSUME TypeOK, \A q \in Procs : Phase(q), NEW p \in Procs, NEW f \in Files,
           Restore(p, f) \/ Prepare(p, f) \/ ReplaceFile(p, f)
              \/ Dispose(p, f) \/ RollbackFile(p, f) \/ CleanupFile(p, f)
    PROVE  Footprint(p)
<1>t. /\ todo \in [Procs -> SUBSET Files] /\ backed \in [Procs -> SUBSET Files]
      /\ errs \in [Procs -> BOOLEAN] /\ replays \in [Procs -> Procs]
      /\ dest \in [Files -> Contents \cup {Absent, Torn}]
      /\ temp \in [Procs -> [Files -> Procs \cup {Absent, Torn}]]
      /\ backup \in [Procs -> [Files -> Contents \cup {Absent, Torn}]]
    BY DEF TypeOK
<1>c. ASSUME NEW o \in Procs, NEW c,
             temp' = temp \/ temp' = [temp EXCEPT ![o][f] = c]
      PROVE  \A q \in Procs, g \in Files :
                temp'[q][g] = temp[q][g] \/ (q = o /\ g = f /\ temp'[q][g] = c)
    BY <1>c, <1>t, OneCopy
<1>b. ASSUME NEW o \in Procs, NEW c,
             backup' = backup \/ backup' = [backup EXCEPT ![o][f] = c]
      PROVE  \A q \in Procs, g \in Files :
                backup'[q][g] = backup[q][g] \/ (q = o /\ g = f /\ backup'[q][g] = c)
    BY <1>b, <1>t, OneCopy
<1>e. ASSUME errs' = errs \/ Record(p)
      PROVE  /\ errs[p] => errs'[p]
             /\ \A q \in Procs \ {p} : errs'[q] = errs[q]
    BY <1>e, <1>t DEF Record
<1>v. ASSUME NEW after, Visited(p, f, after)
      PROVE  \A q \in Procs \ {p} : pc'[q] = pc[q] /\ todo'[q] = todo[q]
    BY <1>v, LoopMovesOne DEF Visited
<1>1. CASE Restore(p, f)
    <2> DEFINE o == replays[p]
    <2>1. o \in Procs
        BY <1>t
    <2>2. /\ pc[p] = "restoring" /\ UNCHANGED <<pc, backed, result>>
          /\ \A q \in Procs \ {p} : todo'[q] = todo[q]
        BY <1>1, <1>t DEF Restore
    <2>3. /\ errs[p] => errs'[p]
          /\ \A q \in Procs \ {p} : errs'[q] = errs[q]
        BY <1>1, <1>e DEF Restore
    <2>4. /\ temp' = temp \/ temp' = [temp EXCEPT ![o][f] = Absent]
          /\ \/ backup' = backup
             \/ backup' = [backup EXCEPT ![o][f] = IF f \in backed[o] THEN Absent ELSE @]
          /\ dest' = dest \/ dest' = [dest EXCEPT ![f] = Replayed(o, f)]
        BY <1>1 DEF Restore
    <2>5. ASSUME NEW q \in Procs, NEW g \in Files
          PROVE  /\ temp'[q][g] \in {temp[q][g], Absent}
                 /\ backup'[q][g] \in {backup[q][g], Absent}
        <3>1. temp'[q][g] = temp[q][g] \/ temp'[q][g] = Absent
            BY <2>1, <2>4, <1>c
        <3>2. PICK c : /\ c = Absent \/ c = backup[o][f]
                       /\ backup' = backup \/ backup' = [backup EXCEPT ![o][f] = c]
            BY <2>4
        <3>3. backup'[q][g] = backup[q][g] \/ backup'[q][g] = Absent
            BY <2>1, <3>2, <1>b
        <3> QED
            BY <3>1, <3>3
    <2>6. Replayed(o, f) \in {dest[f], Absent, backup[o][f]}
        BY DEF Replayed
    <2>7. \A g \in Files : \/ dest'[g] \in {dest[g], Absent}
                           \/ \E r \in Procs : dest'[g] = backup[r][g]
        BY <1>t, <2>1, <2>4, <2>6
    <2> QED
        BY <2>2, <2>3, <2>5, <2>7 DEF Footprint
<1>2. CASE Prepare(p, f)
    <2>1. /\ pc[p] = "prepare" /\ UNCHANGED <<dest, errs>> /\ result[p] = "none"
          /\ \A q \in Procs \ {p} : backed'[q] = backed[q]
        BY <1>2, <1>t DEF Prepare, Phase, OwnState
    <2>2. \A q \in Procs \ {p} : /\ pc'[q] = pc[q] /\ todo'[q] = todo[q]
                                 /\ result'[q] = result[q]
        BY <1>2, <1>v, RaiseMovesOne DEF Prepare
    <2>3. PICK b \in {dest[f], Absent, Torn}, t \in {p, dest[f], Absent, Torn} :
             /\ backup' = [backup EXCEPT ![p][f] = b]
             /\ temp' = [temp EXCEPT ![p][f] = t]
        <3>1. \A c \in HalfPrepared(f) : /\ c[1] \in {dest[f], Absent, Torn}
                                         /\ c[2] \in {Absent, Torn}
            BY DEF HalfPrepared
        <3> QED
            BY <1>2, <3>1 DEF Prepare
    <2>4. \A q \in Procs, g \in Files :
             /\ temp'[q][g] = temp[q][g] \/ q = p
             /\ backup'[q][g] = backup[q][g] \/ (q = p /\ g = f)
        BY <1>t, <2>3
    <2>5. backup'[p][f] \in {dest[f], Absent, Torn}
        BY <1>t, <2>3
    <2> QED
        BY <2>1, <2>2, <2>4, <2>5 DEF Footprint
<1>3. CASE ReplaceFile(p, f)
    <2>1. /\ pc[p] = "replace" /\ UNCHANGED <<backup, backed, errs>>
          /\ result[p] = "none" /\ f \in todo[p] /\ todo[p] \subseteq Writes[p]
          /\ \A g \in Writes[p] : g \in todo[p] => Prepared(p, g)
        BY <1>3 DEF ReplaceFile, Phase, OwnState, LoopPhase, CopyPhase
    <2>2. \A q \in Procs \ {p} : /\ pc'[q] = pc[q] /\ todo'[q] = todo[q]
                                 /\ result'[q] = result[q]
        BY <1>3, <1>v, RaiseMovesOne DEF ReplaceFile
    <2>3. temp[p][f] = p
        BY <2>1 DEF Prepared
    <2>4. /\ temp' = temp \/ temp' = [temp EXCEPT ![p][f] = Absent]
          /\ dest' = dest \/ dest' = [dest EXCEPT ![f] = p]
        BY <1>3, <2>3 DEF ReplaceFile
    <2>5. ASSUME NEW q \in Procs, NEW g \in Files
          PROVE  temp'[q][g] = temp[q][g] \/ temp'[q][g] = Absent
        BY <2>4, <1>c
    <2>6. \A g \in Files : dest'[g] \in {dest[g], p}
        BY <1>t, <2>4
    <2> QED
        BY <2>1, <2>2, <2>5, <2>6 DEF Footprint
<1>4. CASE Dispose(p, f)
    <2>1. pc[p] = "dispose" /\ UNCHANGED <<dest, temp, backed, result>>
        BY <1>4 DEF Dispose
    <2>2. \A q \in Procs \ {p} : pc'[q] = pc[q] /\ todo'[q] = todo[q]
        BY <1>4, <1>v DEF Dispose
    <2>3. /\ errs[p] => errs'[p]
          /\ \A q \in Procs \ {p} : errs'[q] = errs[q]
        BY <1>4, <1>e DEF Dispose
    <2>4. backup' = backup \/ backup' = [backup EXCEPT ![p][f] = Absent]
        BY <1>4 DEF Dispose
    <2>5. ASSUME NEW q \in Procs, NEW g \in Files
          PROVE  backup'[q][g] = backup[q][g] \/ backup'[q][g] = Absent
        BY <2>4, <1>b
    <2> QED
        BY <2>1, <2>2, <2>3, <2>5 DEF Footprint
<1>5. CASE RollbackFile(p, f)
    <2>1. pc[p] = "rollback" /\ UNCHANGED <<temp, backed, result>>
        BY <1>5 DEF RollbackFile
    <2>2. \A q \in Procs \ {p} : pc'[q] = pc[q] /\ todo'[q] = todo[q]
        BY <1>5, LoopMovesOne DEF RollbackFile, RolledBack
    <2>3. /\ errs[p] => errs'[p]
          /\ \A q \in Procs \ {p} : errs'[q] = errs[q]
        BY <1>5, <1>e DEF RollbackFile
    <2>4. /\ backup' = backup \/ backup' = [backup EXCEPT ![p][f] = Absent]
          /\ \/ dest' = dest
             \/ dest' = [dest EXCEPT ![f] = Absent]
             \/ dest' = [dest EXCEPT ![f] = backup[p][f]]
        BY <1>5 DEF RollbackFile
    <2>5. ASSUME NEW q \in Procs, NEW g \in Files
          PROVE  backup'[q][g] = backup[q][g] \/ backup'[q][g] = Absent
        BY <2>4, <1>b
    <2>6. \A g \in Files : \/ dest'[g] \in {dest[g], Absent}
                           \/ dest'[g] = backup[p][g]
        BY <1>t, <2>4
    <2> QED
        BY <2>1, <2>2, <2>3, <2>5, <2>6 DEF Footprint
<1>6. CASE CleanupFile(p, f)
    <2>1. pc[p] = "cleanup" /\ UNCHANGED <<dest, backed, result>>
        BY <1>6 DEF CleanupFile
    <2>2. \A q \in Procs \ {p} : pc'[q] = pc[q] /\ todo'[q] = todo[q]
        BY <1>6, <1>v DEF CleanupFile
    <2>3. PICK gone \in SUBSET CleanupPaths(p, f) :
             /\ temp' = [temp EXCEPT ![p][f] = IF "temp" \in gone THEN Absent ELSE @]
             /\ backup' = [backup EXCEPT ![p][f] =
                              IF "backup" \in gone THEN Absent ELSE @]
             /\ errs' = [errs EXCEPT ![p] = @ \/ gone # CleanupPaths(p, f)]
        BY <1>6 DEF CleanupFile
    <2>4. /\ errs[p] => errs'[p]
          /\ \A q \in Procs \ {p} : errs'[q] = errs[q]
        BY <1>t, <2>3
    <2>5. /\ \/ temp' = [temp EXCEPT ![p][f] = Absent]
             \/ temp' = [temp EXCEPT ![p][f] = temp[p][f]]
          /\ \/ backup' = [backup EXCEPT ![p][f] = Absent]
             \/ backup' = [backup EXCEPT ![p][f] = backup[p][f]]
        BY <2>3
    <2>6. ASSUME NEW q \in Procs, NEW g \in Files
          PROVE  /\ temp'[q][g] = temp[q][g] \/ temp'[q][g] = Absent
                 /\ backup'[q][g] = backup[q][g] \/ backup'[q][g] = Absent
        <3>1. temp'[q][g] = temp[q][g] \/ temp'[q][g] = Absent
            BY <2>5, <1>c
        <3>2. backup'[q][g] = backup[q][g] \/ backup'[q][g] = Absent
            BY <2>5, <1>b
        <3> QED
            BY <3>1, <3>2
    <2> QED
        BY <2>1, <2>2, <2>4, <2>6 DEF Footprint
<1> QED
    BY <1>1, <1>2, <1>3, <1>4, <1>5, <1>6

(* p stays tidy when its next phase accounts for the files it has by then: *)
(* no backup gets p's output, for p itself only backs up before it renames.*)
LEMMA OwnTidy ==
    ASSUME NEW p \in Procs, Footprint(p), Tidy(p),
           ASSUME ~errs'[p], NEW f \in Files, TidyFile(p, f)
           PROVE  /\ temp'[p][f] # Absent => TempInUse(p, f)'
                  /\ backup'[p][f] # Absent => BackupInUse(p, f)'
                  /\ result'[p] # "committed" /\ dest'[f] = p => OutputShown(p, f)'
    PROVE  Tidy(p)'
<1>1. /\ pc[p] # "dead" /\ (errs[p] => errs'[p])
      /\ result[p] = "committed" => result'[p] = "committed"
    BY DEF Footprint
<1> SUFFICES ASSUME ~errs'[p], NEW f \in Files PROVE TidyFile(p, f)'
    BY DEF Tidy
<1>2. TidyFile(p, f)
    BY <1>1 DEF Tidy
<1>3. ASSUME result'[p] # "committed", NEW r \in Procs PROVE backup'[r][f] # p
    <2>1. p # Absent /\ p # Torn
        BY ConstantsAssumption
    <2>2. backup[r][f] # p /\ (dest[f] = p => OutputShown(p, f))
        BY <1>1, <1>2, <1>3 DEF TidyFile
    <2>3. pc[p] = "prepare" => dest[f] # p
        BY <2>2 DEF OutputShown
    <2>4. \/ backup'[r][f] \in {backup[r][f], Absent}
          \/ pc[p] = "prepare" /\ backup'[r][f] \in {dest[f], Torn}
        BY DEF Footprint
    <2> QED
        BY <2>1, <2>2, <2>3, <2>4
<1> QED
    BY <1>2, <1>3 DEF TidyFile

(* Before the first rename, and at the commit, all prepared files are p's, *)
(* and whatever raises takes all of them along.                            *)
LEMMA StagesTidy ==
    ASSUME TypeOK, \A q \in Procs : Phase(q), NEW p \in Procs, Tidy(p),
           WriteJournal(p) \/ Commit(p)
    PROVE  Tidy(p)'
<1>1. Footprint(p)
    BY FootprintPlaces
<1>2. /\ pc[p] \in {"journal", "commit"} /\ result[p] = "none"
      /\ UNCHANGED <<dest, temp, backup, backed>>
    BY DEF WriteJournal, Commit, Phase, OwnState
<1>3. \/ /\ pc[p] = "journal" /\ todo'[p] = Writes[p]
         /\ pc'[p] \in IF Writes[p] = {} THEN {"commit", "drop"}
                                         ELSE {"replace", "cleanup"}
      \/ /\ pc[p] = "commit" /\ todo'[p] = Writes[p]
         /\ \/ pc'[p] = IF Writes[p] = {} THEN "drop" ELSE "rollback"
            \/ /\ pc'[p] = IF Writes[p] = {} THEN "release" ELSE "dispose"
               /\ result'[p] = "committed"
    <2>1. CASE WriteJournal(p)
        BY <2>1, LoopPlace, RaisePlace DEF WriteJournal
    <2>2. CASE Commit(p)
        <3>1. CASE Raise(p, Writes[p], Writes[p])
            BY <2>2, <3>1, RaisePlace DEF Commit
        <3>2. CASE Loop(p, "dispose", Writes[p], "release") /\ Decide(p, "committed")
            <4>1. result'[p] = "committed"
                BY <3>2 DEF Decide, TypeOK
            <4> QED
                BY <2>2, <3>2, <4>1, LoopPlace DEF Commit
        <3> QED
            BY <2>2, <3>1, <3>2 DEF Commit
    <2> QED
        BY <2>1, <2>2
<1>4. ASSUME NEW f \in Files, TidyFile(p, f)
      PROVE  /\ temp'[p][f] # Absent => TempInUse(p, f)'
             /\ backup'[p][f] # Absent => BackupInUse(p, f)'
             /\ result'[p] # "committed" /\ dest'[f] = p => OutputShown(p, f)'
    <2>1. /\ temp[p][f] # Absent => TempInUse(p, f)
          /\ backup[p][f] # Absent => BackupInUse(p, f)
          /\ dest[f] = p => OutputShown(p, f)
        BY <1>2, <1>4 DEF TidyFile
    <2>2. temp'[p][f] # Absent => TempInUse(p, f)'
        BY <1>2, <1>3, <2>1 DEF TempInUse
    <2>3. backup'[p][f] # Absent => BackupInUse(p, f)'
        BY <1>2, <1>3, <2>1 DEF BackupInUse
    <2>4. result'[p] # "committed" /\ dest'[f] = p => OutputShown(p, f)'
        BY <1>2, <1>3, <2>1 DEF OutputShown
    <2> QED
        BY <2>2, <2>3, <2>4
<1> QED
    BY <1>1, <1>4, OwnTidy

(* A prepared file is visited; one whose preparation raised is cleaned up  *)
(* with the prepared ones.                                                 *)
LEMMA PrepareTidy ==
    ASSUME TypeOK, \A q \in Procs : Phase(q), NEW p \in Procs, Tidy(p),
           NEW f \in Files, Prepare(p, f)
    PROVE  Tidy(p)'
<1>0. Footprint(p)
    BY FootprintLoops
<1>t. /\ todo \in [Procs -> SUBSET Files] /\ backed \in [Procs -> SUBSET Files]
      /\ temp \in [Procs -> [Files -> Procs \cup {Absent, Torn}]]
      /\ backup \in [Procs -> [Files -> Contents \cup {Absent, Torn}]]
    BY DEF TypeOK
<1>1. /\ pc[p] = "prepare" /\ f \in todo[p] /\ todo[p] \subseteq Writes[p]
      /\ result[p] = "none" /\ UNCHANGED dest
      /\ backed'[p] = IF dest[f] # Absent THEN backed[p] \cup {f} ELSE backed[p]
    BY <1>t DEF Prepare, Phase, OwnState, LoopPhase
<1>2. \/ /\ pc'[p] = IF todo[p] \ {f} = {} THEN "journal" ELSE "prepare"
         /\ todo'[p] = todo[p] \ {f}
      \/ pc'[p] = "cleanup" /\ todo'[p] = (Writes[p] \ todo[p]) \cup {f}
    BY <1>1, VisitedPlace, RaisePlace DEF Prepare
<1>3. PICK b, t : /\ b # Absent => dest[f] # Absent
                  /\ backup' = [backup EXCEPT ![p][f] = b]
                  /\ temp' = [temp EXCEPT ![p][f] = t]
    <2>1. \A c \in HalfPrepared(f) : c[1] # Absent => dest[f] # Absent
        BY DEF HalfPrepared
    <2> QED
        BY <2>1 DEF Prepare
<1>4. \A g \in Files \ {f} : temp'[p][g] = temp[p][g] /\ backup'[p][g] = backup[p][g]
    BY <1>3, <1>t
<1>5. backup'[p][f] # Absent => dest[f] # Absent
    BY <1>3, <1>t
<1>6. ASSUME NEW g \in Files, TidyFile(p, g)
      PROVE  /\ temp'[p][g] # Absent => TempInUse(p, g)'
             /\ backup'[p][g] # Absent => BackupInUse(p, g)'
             /\ result'[p] # "committed" /\ dest'[g] = p => OutputShown(p, g)'
    <2>1. /\ temp[p][g] # Absent => TempInUse(p, g)
          /\ backup[p][g] # Absent => BackupInUse(p, g)
          /\ dest[g] # p
        BY <1>1, <1>6 DEF TidyFile, OutputShown
    <2>2. temp'[p][g] # Absent => TempInUse(p, g)'
        <3>1. CASE g = f
            BY <1>1, <1>2, <3>1 DEF TempInUse
        <3>2. CASE g # f
            BY <1>1, <1>2, <1>4, <2>1, <3>2 DEF TempInUse
        <3> QED
            BY <3>1, <3>2
    <2>3. backup'[p][g] # Absent => BackupInUse(p, g)'
        <3>1. CASE g = f
            BY <1>1, <1>2, <1>5, <3>1 DEF BackupInUse
        <3>2. CASE g # f
            BY <1>1, <1>2, <1>4, <2>1, <3>2 DEF BackupInUse
        <3> QED
            BY <3>1, <3>2
    <2>4. dest'[g] # p
        BY <1>1, <2>1
    <2> QED
        BY <2>2, <2>3, <2>4
<1> QED
    BY <1>0, <1>6, OwnTidy

(* A rename uses up its temporary and shows its output.                    *)
LEMMA ReplaceTidy ==
    ASSUME TypeOK, \A q \in Procs : Phase(q), NEW p \in Procs, Tidy(p),
           NEW f \in Files, ReplaceFile(p, f)
    PROVE  Tidy(p)'
<1>0. Footprint(p)
    BY FootprintLoops
<1>t. /\ todo \in [Procs -> SUBSET Files]
      /\ dest \in [Files -> Contents \cup {Absent, Torn}]
      /\ temp \in [Procs -> [Files -> Procs \cup {Absent, Torn}]]
    BY DEF TypeOK
<1>1. /\ pc[p] = "replace" /\ f \in todo[p] /\ todo[p] \subseteq Writes[p]
      /\ result[p] = "none" /\ UNCHANGED <<backup, backed>>
    BY DEF ReplaceFile, Phase, OwnState, LoopPhase
<1>2. \/ /\ dest' = [dest EXCEPT ![f] = temp[p][f]]
         /\ temp' = [temp EXCEPT ![p][f] = Absent]
         /\ pc'[p] = IF todo[p] \ {f} = {} THEN "commit" ELSE "replace"
         /\ todo'[p] = todo[p] \ {f}
      \/ /\ UNCHANGED <<dest, temp>>
         /\ \/ /\ pc'[p] = "rollback" /\ todo'[p] = Writes[p] \ todo[p]
            \/ /\ pc'[p] = "cleanup" /\ todo'[p] = Writes[p]
               /\ Writes[p] \subseteq todo[p]
    <2>1. CASE Raise(p, Writes[p] \ todo[p], Writes[p]) /\ UNCHANGED <<dest, temp>>
        BY <1>1, <2>1, RaisePlace
    <2>2. CASE /\ dest' = [dest EXCEPT ![f] = temp[p][f]]
               /\ temp' = [temp EXCEPT ![p][f] = Absent]
               /\ Visited(p, f, "commit")
        BY <1>1, <2>2, VisitedPlace
    <2> QED
        BY <2>1, <2>2 DEF ReplaceFile
<1>3. ASSUME NEW g \in Files, TidyFile(p, g)
      PROVE  /\ temp'[p][g] # Absent => TempInUse(p, g)'
             /\ backup'[p][g] # Absent => BackupInUse(p, g)'
             /\ result'[p] # "committed" /\ dest'[g] = p => OutputShown(p, g)'
    <2>1. /\ temp[p][g] # Absent => TempInUse(p, g)
          /\ backup[p][g] # Absent => BackupInUse(p, g)
          /\ dest[g] = p => OutputShown(p, g)
        BY <1>1, <1>3 DEF TidyFile
    <2>2. backup'[p][g] # Absent => BackupInUse(p, g)'
        BY <1>1, <1>2, <2>1 DEF BackupInUse
    <2>3. CASE /\ dest' = [dest EXCEPT ![f] = temp[p][f]]
               /\ temp' = [temp EXCEPT ![p][f] = Absent]
               /\ pc'[p] = IF todo[p] \ {f} = {} THEN "commit" ELSE "replace"
               /\ todo'[p] = todo[p] \ {f}
        <3>1. /\ temp'[p][f] = Absent
              /\ g # f => temp'[p][g] = temp[p][g] /\ dest'[g] = dest[g]
            BY <1>t, <2>3
        <3>2. temp'[p][g] # Absent => TempInUse(p, g)'
            BY <1>1, <2>1, <2>3, <3>1 DEF TempInUse
        <3>3. dest'[g] = p => OutputShown(p, g)'
            BY <1>1, <2>1, <2>3, <3>1 DEF OutputShown
        <3> QED
            BY <2>2, <3>2, <3>3
    <2>4. CASE /\ UNCHANGED <<dest, temp>>
               /\ \/ /\ pc'[p] = "rollback" /\ todo'[p] = Writes[p] \ todo[p]
                  \/ /\ pc'[p] = "cleanup" /\ todo'[p] = Writes[p]
                     /\ Writes[p] \subseteq todo[p]
        <3>1. temp'[p][g] # Absent => TempInUse(p, g)'
            BY <1>1, <2>1, <2>4 DEF TempInUse
        <3>2. dest'[g] = p => OutputShown(p, g)'
            BY <1>1, <2>1, <2>4 DEF OutputShown
        <3> QED
            BY <2>2, <3>1, <3>2
    <2> QED
        BY <1>2, <2>3, <2>4
<1> QED
    BY <1>0, <1>3, OwnTidy

(* After the commit every backup goes, or its error is reported.           *)
LEMMA DisposeTidy ==
    ASSUME TypeOK, \A q \in Procs : Phase(q), NEW p \in Procs, Tidy(p),
           NEW f \in Files, Dispose(p, f)
    PROVE  Tidy(p)'
<1>0. Footprint(p)
    BY FootprintLoops
<1>t. /\ errs \in [Procs -> BOOLEAN]
      /\ backup \in [Procs -> [Files -> Contents \cup {Absent, Torn}]]
    BY DEF TypeOK
<1>1. /\ pc[p] = "dispose" /\ f \in todo[p] /\ todo[p] \subseteq Writes[p]
      /\ UNCHANGED <<dest, temp, backed, result>>
      /\ pc'[p] = IF todo[p] \ {f} = {} THEN "release" ELSE "dispose"
      /\ todo'[p] = todo[p] \ {f}
    BY VisitedPlace DEF Dispose, Phase, LoopPhase
<1>2. \/ backup' = [backup EXCEPT ![p][f] = Absent]
      \/ errs' = [errs EXCEPT ![p] = TRUE]
    BY DEF Dispose, Record
<1>3. ASSUME ~errs'[p], NEW g \in Files, TidyFile(p, g)
      PROVE  /\ temp'[p][g] # Absent => TempInUse(p, g)'
             /\ backup'[p][g] # Absent => BackupInUse(p, g)'
             /\ result'[p] # "committed" /\ dest'[g] = p => OutputShown(p, g)'
    <2>1. /\ temp[p][g] = Absent
          /\ backup[p][g] # Absent => BackupInUse(p, g)
          /\ result[p] # "committed" => dest[g] # p
        BY <1>1, <1>3 DEF TidyFile, TempInUse, OutputShown
    <2>2. backup' = [backup EXCEPT ![p][f] = Absent]
        BY <1>t, <1>2, <1>3
    <2>3. backup'[p][f] = Absent /\ (g # f => backup'[p][g] = backup[p][g])
        BY <1>t, <2>2
    <2>4. backup'[p][g] # Absent => BackupInUse(p, g)'
        BY <1>1, <2>1, <2>3 DEF BackupInUse
    <2> QED
        BY <1>1, <2>1, <2>4
<1> QED
    BY <1>0, <1>3, OwnTidy

(* A rollback takes the output back, and cleans up all prepared files.     *)
LEMMA RollbackTidy ==
    ASSUME TypeOK, \A q \in Procs : Phase(q), NEW p \in Procs, Tidy(p),
           NEW f \in Files, RollbackFile(p, f)
    PROVE  Tidy(p)'
<1>0. Footprint(p)
    BY FootprintLoops
<1>t. /\ errs \in [Procs -> BOOLEAN]
      /\ dest \in [Files -> Contents \cup {Absent, Torn}]
      /\ backup \in [Procs -> [Files -> Contents \cup {Absent, Torn}]]
    BY DEF TypeOK
<1>1. /\ pc[p] = "rollback" /\ f \in todo[p] /\ todo[p] \subseteq Writes[p]
      /\ UNCHANGED <<temp, backed, result>>
    BY DEF RollbackFile, Phase, LoopPhase
<1>2. \/ pc'[p] = "rollback" /\ todo'[p] = todo[p] \ {f}
      \/ pc'[p] = "cleanup" /\ todo'[p] = Writes[p] /\ todo[p] \subseteq {f}
    BY <1>1, LoopPlace DEF RollbackFile, RolledBack
<1>3. \/ dest' = [dest EXCEPT ![f] = Absent] /\ UNCHANGED backup
      \/ /\ dest' = [dest EXCEPT ![f] = backup[p][f]]
         /\ backup' = [backup EXCEPT ![p][f] = Absent]
      \/ errs' = [errs EXCEPT ![p] = TRUE]
    BY DEF RollbackFile, Record
<1>4. ASSUME ~errs'[p], NEW g \in Files, TidyFile(p, g)
      PROVE  /\ temp'[p][g] # Absent => TempInUse(p, g)'
             /\ backup'[p][g] # Absent => BackupInUse(p, g)'
             /\ result'[p] # "committed" /\ dest'[g] = p => OutputShown(p, g)'
    <2>1. /\ temp[p][g] # Absent => g \in Writes[p]
          /\ backup[p][g] # Absent => g \in Writes[p] \cap backed[p]
          /\ result[p] # "committed" => /\ dest[g] = p => g \in todo[p]
                                        /\ backup[p][g] # p
        BY <1>1, <1>4 DEF TidyFile, TempInUse, BackupInUse, OutputShown
    <2>2. \/ dest' = [dest EXCEPT ![f] = Absent] /\ UNCHANGED backup
          \/ /\ dest' = [dest EXCEPT ![f] = backup[p][f]]
             /\ backup' = [backup EXCEPT ![p][f] = Absent]
        BY <1>t, <1>3, <1>4
    <2>3. /\ backup'[p][g] # Absent => backup[p][g] # Absent
          /\ g # f => dest'[g] = dest[g]
          /\ dest'[f] = Absent \/ dest'[f] = backup[p][f]
        BY <1>t, <2>2
    <2>4. temp'[p][g] # Absent => TempInUse(p, g)'
        BY <1>1, <1>2, <2>1 DEF TempInUse
    <2>5. backup'[p][g] # Absent => BackupInUse(p, g)'
        BY <1>1, <1>2, <2>1, <2>3 DEF BackupInUse
    <2>6. result'[p] # "committed" /\ dest'[g] = p => OutputShown(p, g)'
        <3>1. p # Absent
            BY ConstantsAssumption
        <3>2. result'[p] # "committed" => dest'[f] # p \/ g # f
            BY <1>1, <2>1, <2>3, <3>1
        <3> QED
            BY <1>1, <1>2, <2>1, <2>3, <3>2 DEF OutputShown
    <2> QED
        BY <2>4, <2>5, <2>6
<1> QED
    BY <1>0, <1>4, OwnTidy

(* A clean-up without an error removes the temporary, and the backup that  *)
(* only an error could have kept.                                          *)
LEMMA CleanupTidy ==
    ASSUME TypeOK, \A q \in Procs : Phase(q), NEW p \in Procs, Tidy(p),
           NEW f \in Files, CleanupFile(p, f)
    PROVE  Tidy(p)'
<1>0. Footprint(p)
    BY FootprintLoops
<1>t. /\ errs \in [Procs -> BOOLEAN]
      /\ temp \in [Procs -> [Files -> Procs \cup {Absent, Torn}]]
      /\ backup \in [Procs -> [Files -> Contents \cup {Absent, Torn}]]
    BY DEF TypeOK
<1>1. /\ pc[p] = "cleanup" /\ f \in todo[p] /\ todo[p] \subseteq Writes[p]
      /\ UNCHANGED <<dest, backed, result>>
      /\ kept[p] # {} => errs[p]
    BY DEF CleanupFile, Phase, LoopPhase, OwnState
<1>2. /\ pc'[p] = IF todo[p] \ {f} = {} THEN "drop" ELSE "cleanup"
      /\ todo'[p] = todo[p] \ {f}
    BY <1>1, VisitedPlace DEF CleanupFile
<1>3. PICK gone \in SUBSET CleanupPaths(p, f) :
         /\ temp' = [temp EXCEPT ![p][f] = IF "temp" \in gone THEN Absent ELSE @]
         /\ backup' = [backup EXCEPT ![p][f] = IF "backup" \in gone THEN Absent ELSE @]
         /\ errs' = [errs EXCEPT ![p] = @ \/ gone # CleanupPaths(p, f)]
    BY DEF CleanupFile
<1>4. ASSUME ~errs'[p], NEW g \in Files, TidyFile(p, g)
      PROVE  /\ temp'[p][g] # Absent => TempInUse(p, g)'
             /\ backup'[p][g] # Absent => BackupInUse(p, g)'
             /\ result'[p] # "committed" /\ dest'[g] = p => OutputShown(p, g)'
    <2>1. /\ temp[p][g] # Absent => g \in todo[p]
          /\ backup[p][g] # Absent => g \in backed[p] /\ g \in todo[p]
          /\ result[p] # "committed" => dest[g] # p
        BY <1>1, <1>4 DEF TidyFile, TempInUse, BackupInUse, OutputShown
    <2>2. ~errs[p] /\ gone = CleanupPaths(p, f)
        BY <1>t, <1>3, <1>4
    <2>3. "temp" \in gone /\ (f \in backed[p] => "backup" \in gone)
        BY <1>1, <2>2 DEF CleanupPaths
    <2>4. /\ temp'[p][f] = Absent
          /\ f \in backed[p] => backup'[p][f] = Absent
          /\ f \notin backed[p] => backup'[p][f] \in {backup[p][f], Absent}
        BY <1>t, <1>3, <2>3
    <2>5. g # f => temp'[p][g] = temp[p][g] /\ backup'[p][g] = backup[p][g]
        BY <1>t, <1>3
    <2>6. temp'[p][g] # Absent => TempInUse(p, g)'
        BY <1>1, <1>2, <2>1, <2>4, <2>5 DEF TempInUse
    <2>7. backup'[p][g] # Absent => BackupInUse(p, g)'
        BY <1>1, <1>2, <2>1, <2>4, <2>5 DEF BackupInUse
    <2> QED
        BY <1>1, <2>1, <2>6, <2>7
<1> QED
    BY <1>0, <1>4, OwnTidy

(* A dead process has nothing to show.                                     *)
LEMMA DeadTidy == ASSUME TypeOK, NEW p \in Procs, Die(p) PROVE Tidy(p)'
BY DEF TypeOK, Die, Goto, Tidy

(* Every process stays tidy while no lock is stolen.                       *)
LEMMA TidyNext ==
    ASSUME TypeOK, \A q \in Procs : Phase(q), \A q \in Procs : Tidy(q), Next
    PROVE  \A q \in Procs : Tidy(q)'
<1>1. PICK p \in Procs : Begin(p) \/ Work(p) \/ OpenFails(p) \/ Die(p)
    BY DEF Next
<1>2. CASE \E f \in Files :
              \/ Restore(p, f) \/ Prepare(p, f) \/ ReplaceFile(p, f)
              \/ Dispose(p, f) \/ RollbackFile(p, f) \/ CleanupFile(p, f)
    <2>1. PICK f \in Files :
             \/ Restore(p, f) \/ Prepare(p, f) \/ ReplaceFile(p, f)
             \/ Dispose(p, f) \/ RollbackFile(p, f) \/ CleanupFile(p, f)
        BY <1>2
    <2>2. Footprint(p)
        BY <2>1, FootprintLoops
    <2>3. Restore(p, f) => pc[p] \notin Handling
        BY DEF Restore, Handling
    <2>4. Tidy(p)'
        BY <2>1, <2>2, <2>3, PlainTidy, PrepareTidy, ReplaceTidy, DisposeTidy,
           RollbackTidy, CleanupTidy
    <2> QED
        BY <2>2, <2>4, OthersTidy
<1>3. CASE ~ \E f \in Files :
              \/ Restore(p, f) \/ Prepare(p, f) \/ ReplaceFile(p, f)
              \/ Dispose(p, f) \/ RollbackFile(p, f) \/ CleanupFile(p, f)
    <2>1. \/ Begin(p) \/ CreateLock(p) \/ Inspect(p) \/ Reclaim(p) \/ GiveUp(p)
          \/ OpenFails(p) \/ Sign(p) \/ Release(p) \/ Die(p)
          \/ ReadJournal(p) \/ FinishRecovery(p) \/ Validate(p)
          \/ WriteJournal(p) \/ Commit(p) \/ DropJournal(p)
        BY <1>1, <1>3 DEF Work
    <2>2. Footprint(p)
        BY <2>1, FootprintPlaces
    <2>3. CASE WriteJournal(p) \/ Commit(p)
        BY <2>2, <2>3, StagesTidy, OthersTidy
    <2>4. CASE Die(p)
        BY <2>2, <2>4, DeadTidy, OthersTidy
    <2>5. CASE \/ Begin(p) \/ CreateLock(p) \/ Inspect(p) \/ Reclaim(p) \/ GiveUp(p)
               \/ OpenFails(p) \/ Sign(p) \/ Release(p)
               \/ ReadJournal(p) \/ FinishRecovery(p) \/ Validate(p) \/ DropJournal(p)
        <3>1. pc[p] \notin Handling
            BY <2>5 DEF Begin, CreateLock, Inspect, Reclaim, GiveUp, OpenFails, Sign,
               Release, AttemptFailed, ReadJournal, FinishRecovery, Validate,
               DropJournal, Handling
        <3> QED
            BY <2>2, <3>1, PlainTidy, OthersTidy
    <2> QED
        BY <2>1, <2>3, <2>4, <2>5
<1> QED
    BY <1>2, <1>3

(* A promotion that ends without reporting an error leaves no temporary    *)
(* and no backup, and none of its output when it raised                    *)
(* (_cleanup_preparation, _rollback, the loop after the commit point).     *)
THEOREM EndsClean == Spec => []CleanEnd
<1> DEFINE AllTidy == ~stolen => \A p \in Procs : Tidy(p)
<1>1. Init => AllTidy
    BY TidyInit
<1>2. ASSUME TypeOK, JournalReplayable, AllTidy, [Next]_vars
      PROVE  AllTidy'
    <2> SUFFICES ASSUME ~stolen' PROVE \A p \in Procs : Tidy(p)'
        OBVIOUS
    <2>1. ~stolen
        BY <1>2, TheftRemembered
    <2>2. CASE UNCHANGED vars
        BY <1>2, <2>1, <2>2 DEF vars, Tidy, TidyFile, TempInUse, BackupInUse, OutputShown
    <2>3. CASE Next
        BY <1>2, <2>1, <2>3, TidyNext DEF JournalReplayable
    <2> QED
        BY <1>2, <2>2, <2>3
<1>3. AllTidy => CleanEnd
    BY DEF CleanEnd, Tidy, TidyFile, TempInUse, BackupInUse, OutputShown
<1> QED
    BY <1>1, <1>2, <1>3, TypeCorrect, AlwaysReplayable, PTL DEF Spec


-----------------------------------------------------------------------------
(* The promotion is atomic: the refinement of AtomicPromotion.             *)

Content == [f \in Files |-> Recovered(f)]

(* Leaving the journal, the entries it names and the destinations alone    *)
(* leaves the recovered content alone.                                     *)
LEMMA ContentSame ==
    ASSUME UNCHANGED <<dest, journal>>,
           journal # None => /\ backed'[journal] = backed[journal]
                             /\ backup'[journal] = backup[journal]
    PROVE  Content' = Content
BY DEF Content, Recovered, Replayed

(* A step that replays or undoes one entry does too.                       *)
LEMMA ContentEntry ==
    ASSUME NEW f \in Files, Recovered(f)' = Recovered(f), UNCHANGED <<journal, backed>>,
           \A g \in Files \ {f} : dest'[g] = dest[g],
           journal # None =>
               \A g \in Files \ {f} : backup'[journal][g] = backup[journal][g]
    PROVE  Content' = Content
<1> SUFFICES ASSUME NEW g \in Files, g # f PROVE Recovered(g)' = Recovered(g)
    BY DEF Content
<1> QED
    BY DEF Recovered, Replayed

(* Removing a journal all of whose entries are settled does too.           *)
LEMMA ContentSettled ==
    ASSUME journal # None, journal' = None, UNCHANGED dest,
           \A f \in Writes[journal] : Settled(journal, f)
    PROVE  Content' = Content
BY DEF Content, Recovered, Replayed, Settled

(* The decisions that are taken without touching the disk.                 *)
LEMMA StepLock ==
    ASSUME TypeOK, \A q \in Procs : Phase(q), NEW p \in Procs,
           \/ Begin(p) \/ CreateLock(p) \/ Inspect(p) \/ Reclaim(p) \/ GiveUp(p)
           \/ OpenFails(p) \/ Sign(p) \/ Release(p) \/ Die(p) \/ ReadJournal(p) \/ Validate(p)
    PROVE  /\ Content' = Content
           /\ result' = result \/ Promise!Decline(p)
<1>1. UNCHANGED diskVars
    BY DEF Begin, CreateLock, Inspect, Reclaim, GiveUp, OpenFails, Sign, Release, Die,
       ReadJournal, Validate
<1>2. Content' = Content
    BY <1>1, ContentSame DEF diskVars
<1>3. pc[p] \in Early => result[p] = "none"
    BY DEF Phase, OwnState
<1>4. \/ result' = result
      \/ /\ pc[p] \in Early
         /\ \E r \in {"failed", "contended", "recovered"} :
               result' = [result EXCEPT ![p] = r]
    BY DEF Begin, CreateLock, Inspect, Reclaim, GiveUp, OpenFails, Sign, Release, Die,
       AttemptFailed, ReadJournal, Validate, Decide, Early
<1> QED
    BY <1>2, <1>3, <1>4 DEF Promise!Decline, Content

(* So are the failures inside promote().                                   *)
LEMMA RaiseDeclines ==
    ASSUME NEW p \in Procs, Phase(p), Content' = Content, NEW S, NEW T,
           Raise(p, S, T), pc[p] \in {"prepare", "journal", "replace", "commit"}
    PROVE  Promise!Decline(p)
BY DEF Phase, OwnState, Raise, Decide, Promise!Decline, Content

(* The steps of the holder in no loop apply, decline or stutter.           *)
LEMMA StepStages ==
    ASSUME TypeOK, \A q \in Procs : Phase(q), NEW p \in Procs,
           FinishRecovery(p) \/ WriteJournal(p) \/ Commit(p) \/ DropJournal(p)
    PROVE  \/ Content' = Content /\ result' = result
           \/ Promise!Decline(p)
           \/ Promise!Apply(p)
<1>0. /\ Phase(p) /\ HoldsLock(p) /\ JournalPhase(p) /\ LoopPhase(p)
      /\ CopyPhase(p) /\ OwnState(p)
    BY DEF Phase
<1>n. None \notin Procs
    BY ConstantsAssumption
<1>1. CASE FinishRecovery(p)
    <2>1. /\ pc[p] = "restoring" /\ UNCHANGED <<dest, backup, backed>>
          /\ journal # None /\ journal = replays[p]
        BY <1>0, <1>1 DEF FinishRecovery, JournalPhase
    <2>2. Content' = Content
        <3>1. CASE journal' = journal
            BY <2>1, <3>1, ContentSame
        <3>2. CASE journal' # journal
            <4>1. journal' = None /\ ~errs[p] /\ todo[p] = {}
                BY <1>1, <3>2 DEF FinishRecovery
            <4>2. \A f \in Writes[journal] : Settled(journal, f)
                BY <1>0, <2>1, <4>1 DEF CopyPhase
            <4> QED
                BY <2>1, <4>1, <4>2, ContentSettled
        <3> QED
            BY <3>1, <3>2
    <2>3. result[p] = "none"
        BY <1>0, <2>1 DEF OwnState, Early
    <2>4. \/ result' = result
          \/ \E r \in {"failed", "recovered"} :
                result' = [result EXCEPT ![p] = r]
        BY <1>1 DEF FinishRecovery, Decide
    <2> QED
        BY <2>2, <2>3, <2>4 DEF Promise!Decline, Content
<1>2. CASE WriteJournal(p)
    <2>1. /\ pc[p] = "journal" /\ journal = None
          /\ UNCHANGED <<dest, temp, backup, backed>>
        BY <1>0, <1>2 DEF WriteJournal, JournalPhase, PreJournal
    <2>2. CASE Raise(p, {}, Writes[p]) /\ UNCHANGED journal
        BY <1>0, <2>1, <2>2, ContentSame, RaiseDeclines
    <2>3. CASE journal' = p /\ UNCHANGED result
        <3>1. \A f \in Writes[p] : Prepared(p, f)
            BY <1>0, <2>1 DEF CopyPhase
        <3>2. ASSUME NEW f \in Files PROVE Recovered(f)' = Recovered(f)
            BY <1>n, <2>1, <2>3, <3>1, ConstantsAssumption
            DEF Recovered, Replayed, Prepared
        <3> QED
            BY <2>3, <3>2 DEF Content
    <2> QED
        BY <1>2, <2>2, <2>3 DEF WriteJournal
<1>3. CASE Commit(p)
    <2>1. /\ pc[p] = "commit" /\ journal = p /\ result[p] = "none"
          /\ UNCHANGED <<dest, backup, backed>>
        BY <1>0, <1>3 DEF Commit, JournalPhase, OwnState
    <2>2. CASE Raise(p, Writes[p], Writes[p]) /\ UNCHANGED journal
        BY <1>0, <2>1, <2>2, ContentSame, RaiseDeclines
    <2>3. CASE /\ \A f \in Writes[p] : dest[f] = p
               /\ journal' = None
               /\ Decide(p, "committed")
        <3>1. ASSUME NEW f \in Files
              PROVE  Recovered(f)' = IF f \in Writes[p] THEN p ELSE Recovered(f)
            BY <1>n, <2>1, <2>3 DEF Recovered
        <3>2. Content' = [f \in Files |-> IF f \in Writes[p] THEN p
                                                             ELSE Content[f]]
            BY <3>1 DEF Content
        <3> QED
            BY <2>1, <2>3, <3>2 DEF Promise!Apply, Decide, Content
    <2> QED
        BY <1>3, <2>2, <2>3 DEF Commit
<1>4. CASE DropJournal(p)
    <2>1. /\ pc[p] = "drop" /\ journal \in {None, p} /\ UNCHANGED result
          /\ UNCHANGED <<dest, backup, backed>>
        BY <1>0, <1>4 DEF DropJournal, JournalPhase
    <2>2. CASE journal' = journal
        BY <2>1, <2>2, ContentSame
    <2>3. CASE journal' # journal
        <3>1. journal = p /\ journal' = None /\ ~errs[p]
            BY <1>4, <2>1, <2>3 DEF DropJournal
        <3>2. \A f \in Writes[p] : Settled(p, f)
            BY <1>0, <2>1, <3>1 DEF CopyPhase
        <3> QED
            BY <1>n, <2>1, <3>1, <3>2, ContentSettled
    <2> QED
        BY <2>2, <2>3
<1> QED
    BY <1>1, <1>2, <1>3, <1>4

(* Recovery changes no recovered content: that is what it is for.          *)
LEMMA StepRecovery ==
    ASSUME TypeOK, \A q \in Procs : Phase(q), NEW p \in Procs, NEW f \in Files,
           Restore(p, f)
    PROVE  Content' = Content /\ result' = result
<1> DEFINE o == replays[p]
<1>1. /\ pc[p] = "restoring" /\ journal # None /\ journal = o
      /\ f \in todo[p] /\ todo[p] \subseteq Writes[o]
    BY DEF Restore, Phase, JournalPhase, LoopPhase
<1>2. /\ o \in Procs
      /\ dest \in [Files -> Contents \cup {Absent, Torn}]
      /\ backup \in [Procs -> [Files -> Contents \cup {Absent, Torn}]]
    BY DEF TypeOK
<1>3. UNCHANGED <<journal, backed, result>>
    BY DEF Restore
<1>4. \A g \in Files \ {f} : dest'[g] = dest[g] /\ backup'[o][g] = backup[o][g]
    BY <1>2 DEF Restore
<1>5. CASE UNCHANGED <<dest, backup>>
    BY <1>3, <1>5, ContentSame
<1>6. CASE /\ dest' = [dest EXCEPT ![f] = Replayed(o, f)]
           /\ backup' = [backup EXCEPT ![o][f] =
                            IF f \in backed[o] THEN Absent ELSE @]
    <2>1. /\ dest'[f] = Replayed(o, f)
          /\ backup'[o][f] = IF f \in backed[o] THEN Absent ELSE backup[o][f]
        BY <1>2, <1>6
    <2>2. Replayed(journal, f)' = Replayed(journal, f)
        BY <1>1, <1>2, <1>3, <2>1, ConstantsAssumption DEF Replayed
    <2>3. Recovered(f)' = Recovered(f)
        BY <1>1, <1>3, <2>2 DEF Recovered
    <2> QED
        BY <1>1, <1>3, <1>4, <2>3, ContentEntry
<1> QED
    BY <1>5, <1>6 DEF Restore

(* Preparing and replacing stutter, or decline when they raise.            *)
LEMMA StepPromotion ==
    ASSUME TypeOK, \A q \in Procs : Phase(q), NEW p \in Procs, NEW f \in Files,
           Prepare(p, f) \/ ReplaceFile(p, f)
    PROVE  \/ Content' = Content /\ result' = result
           \/ Promise!Decline(p)
<1>0. /\ Phase(p) /\ JournalPhase(p) /\ LoopPhase(p) /\ CopyPhase(p)
    BY DEF Phase
<1>n. None \notin Procs
    BY ConstantsAssumption
<1>1. CASE Prepare(p, f)
    <2>1. pc[p] = "prepare" /\ journal = None /\ UNCHANGED <<dest, journal>>
        BY <1>0, <1>1 DEF Prepare, JournalPhase, PreJournal
    <2>2. Content' = Content
        BY <2>1, ContentSame
    <2> QED
        BY <1>0, <1>1, <2>1, <2>2, RaiseDeclines DEF Prepare
<1>2. CASE ReplaceFile(p, f)
    <2>1. /\ pc[p] = "replace" /\ journal = p /\ f \in Writes[p] /\ f \in todo[p]
          /\ UNCHANGED <<journal, backup, backed>>
        BY <1>0, <1>2 DEF ReplaceFile, JournalPhase, LoopPhase
    <2>2. CASE /\ Raise(p, Writes[p] \ todo[p], Writes[p])
               /\ UNCHANGED <<dest, temp>>
        BY <1>0, <2>1, <2>2, ContentSame, RaiseDeclines
    <2>3. CASE dest' = [dest EXCEPT ![f] = temp[p][f]] /\ UNCHANGED result
        <3>1. Prepared(p, f) /\ dest \in [Files -> Contents \cup {Absent, Torn}]
            BY <1>0, <2>1 DEF CopyPhase, TypeOK
        <3>2. dest'[f] = p /\ \A g \in Files \ {f} : dest'[g] = dest[g]
            BY <2>3, <3>1 DEF Prepared
        <3>3. Recovered(f)' = Recovered(f)
            BY <1>n, <2>1, <3>1, <3>2, ConstantsAssumption
            DEF Recovered, Replayed, Prepared
        <3> QED
            BY <2>1, <2>3, <3>2, <3>3, ContentEntry
    <2> QED
        BY <1>2, <2>2, <2>3 DEF ReplaceFile
<1> QED
    BY <1>1, <1>2

(* Rolling back and cleaning up stutter.                                   *)
LEMMA StepUndo ==
    ASSUME TypeOK, \A q \in Procs : Phase(q), NEW p \in Procs, NEW f \in Files,
           Dispose(p, f) \/ RollbackFile(p, f) \/ CleanupFile(p, f)
    PROVE  Content' = Content /\ result' = result
<1>0. /\ Phase(p) /\ JournalPhase(p) /\ LoopPhase(p) /\ CopyPhase(p)
    BY DEF Phase
<1>n. None \notin Procs
    BY ConstantsAssumption
<1>t. /\ dest \in [Files -> Contents \cup {Absent, Torn}]
      /\ backup \in [Procs -> [Files -> Contents \cup {Absent, Torn}]]
    BY DEF TypeOK
<1>1. CASE Dispose(p, f)
    BY <1>0, <1>1, ContentSame DEF Dispose, JournalPhase
<1>2. CASE RollbackFile(p, f)
    <2>1. /\ pc[p] = "rollback" /\ journal = p /\ f \in Writes[p] /\ f \in todo[p]
          /\ UNCHANGED <<journal, backed, result>>
        BY <1>0, <1>2 DEF RollbackFile, JournalPhase, LoopPhase
    <2>2. Promoted(p, f)
        BY <1>0, <2>1 DEF CopyPhase
    <2>3. \A g \in Files \ {f} : dest'[g] = dest[g] /\ backup'[p][g] = backup[p][g]
        BY <1>2, <1>t DEF RollbackFile
    <2>4. Replayed(journal, f)' = Replayed(journal, f)
        <3>1. CASE f \notin backed[p] /\ dest' = [dest EXCEPT ![f] = Absent]
            BY <1>t, <2>1, <2>2, <3>1, ConstantsAssumption DEF Replayed, Promoted
        <3>2. CASE /\ f \in backed[p]
                   /\ dest' = [dest EXCEPT ![f] = backup[p][f]]
                   /\ backup' = [backup EXCEPT ![p][f] = Absent]
            <4>1. dest'[f] = backup[p][f] /\ backup'[p][f] = Absent
                BY <1>t, <3>2
            <4> QED
                BY <2>1, <2>2, <3>2, <4>1 DEF Replayed, Promoted
        <3>3. CASE UNCHANGED <<dest, backup>>
            BY <2>1, <3>3 DEF Replayed
        <3> QED
            BY <1>2, <3>1, <3>2, <3>3 DEF RollbackFile
    <2>5. Recovered(f)' = Recovered(f)
        BY <1>n, <2>1, <2>4 DEF Recovered
    <2> QED
        BY <2>1, <2>3, <2>5, ContentEntry
<1>3. CASE CleanupFile(p, f)
    <2>1. /\ pc[p] = "cleanup" /\ journal \in {None, p} /\ f \in todo[p]
          /\ f \in Writes[p] /\ UNCHANGED <<dest, journal, backed, result>>
        BY <1>0, <1>3 DEF CleanupFile, JournalPhase, LoopPhase
    <2>2. CASE journal = None
        BY <2>1, <2>2, ContentSame
    <2>3. CASE journal = p
        <3>1. Undone(p, f)
            BY <1>0, <2>1, <2>3 DEF CopyPhase
        <3>2. \A g \in Files \ {f} : backup'[p][g] = backup[p][g]
            BY <1>3, <1>t DEF CleanupFile
        <3>3. /\ backup'[p][f] \in {Absent, backup[p][f]}
              /\ f \notin backed[p] \ kept[p] => backup'[p][f] = backup[p][f]
            BY <1>3, <1>t DEF CleanupFile, CleanupPaths
        <3>4. Replayed(p, f)' = Replayed(p, f)
            BY <2>1, <3>1, <3>3 DEF Replayed, Undone
        <3>5. Recovered(f)' = Recovered(f)
            BY <2>1, <2>3, <3>4 DEF Recovered
        <3> QED
            BY <2>1, <2>3, <3>2, <3>5, ContentEntry
    <2> QED
        BY <2>1, <2>2, <2>3
<1> QED
    BY <1>1, <1>2, <1>3

(* The recovered workspace changes only when a promotion commits, then by  *)
(* all of its files at once, and every promotion is decided at most once:  *)
(* the behaviours without a theft implement AtomicPromotion.               *)
THEOREM PromotionIsAtomic == ExclusiveSpec => Implements
<1>1. Init => Promise!Init
    BY ConstantsAssumption DEF Init, Promise!Init, Recovered
<1>2. ASSUME TypeOK, JournalReplayable, ~stolen, [Next /\ ~stolen']_vars
      PROVE  [Promise!Next]_Promise!vars
    <2>1. CASE UNCHANGED vars
        <3>1. Content' = Content
            BY <2>1, ContentSame DEF vars
        <3> QED
            BY <2>1, <3>1 DEF vars, Promise!vars, Content
    <2>2. CASE Next
        <3>1. PICK p \in Procs : Begin(p) \/ Work(p) \/ OpenFails(p) \/ Die(p)
            BY <2>2 DEF Next
        <3>2. \A q \in Procs : Phase(q)
            BY <1>2 DEF JournalReplayable
        <3>3. \/ Content' = Content /\ result' = result
              \/ Promise!Decline(p)
              \/ Promise!Apply(p)
            <4>1. ASSUME NEW f \in Files,
                         \/ Restore(p, f) \/ Prepare(p, f) \/ ReplaceFile(p, f)
                         \/ Dispose(p, f) \/ RollbackFile(p, f) \/ CleanupFile(p, f)
                  PROVE  \/ Content' = Content /\ result' = result
                         \/ Promise!Decline(p)
                BY <1>2, <3>2, <4>1, StepRecovery, StepPromotion, StepUndo
            <4>2. CASE \/ Begin(p) \/ CreateLock(p) \/ Inspect(p) \/ Reclaim(p)
                       \/ GiveUp(p) \/ OpenFails(p) \/ Sign(p) \/ Release(p) \/ Die(p)
                       \/ ReadJournal(p) \/ Validate(p)
                BY <1>2, <3>2, <4>2, StepLock
            <4>3. CASE FinishRecovery(p) \/ WriteJournal(p) \/ Commit(p) \/ DropJournal(p)
                BY <1>2, <3>2, <4>3, StepStages
            <4> QED
                BY <3>1, <4>1, <4>2, <4>3 DEF Work
        <3> QED
            BY <3>3 DEF Promise!Next, Promise!vars, Content
    <2> QED
        BY <1>2, <2>1, <2>2
<1>3. Init => ~stolen
    BY DEF Init
<1>4. ~stolen /\ [Next /\ ~stolen']_vars => ~stolen'
    BY DEF vars
<1>5. [Next /\ ~stolen']_vars => [Next]_vars
    OBVIOUS
<1>6. ExclusiveSpec => Spec
    BY <1>5, PTL DEF ExclusiveSpec, Spec
<1> QED
    BY <1>1, <1>2, <1>3, <1>4, <1>6, TypeCorrect, AlwaysReplayable, PTL
    DEF ExclusiveSpec, Implements, Promise!Spec
=============================================================================
