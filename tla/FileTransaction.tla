--------------------------- MODULE FileTransaction ---------------------------
(***************************************************************************)
(* operations/file_transaction.py: promotion of staged files under a       *)
(* workspace lock, with a journal that lets the next lock holder roll back *)
(* a promotion whose process died before its commit point.                 *)
(*                                                                         *)
(* A process performs one FileTransaction: promote() of the destinations   *)
(* Writes[p], or, when Writes[p] is empty, a bare recover().  The content  *)
(* p staged is named by p.  Destinations of one promotion are distinct     *)
(* (_last_writers) and no guarantee depends on their order, so each loop   *)
(* over promotions takes them in any order.                                *)
(*                                                                         *)
(* Every file-system call may raise.  A copy that raises leaves a torn     *)
(* file, so the disk after a crash inside a copy is the disk after a       *)
(* failed copy followed by Die.                                            *)
(*                                                                         *)
(* Left out: created_directories and required_directories, permissions,    *)
(* the waiter files that keep the lock directory from being removed, the   *)
(* Windows sharing-violation case of _release_lock, and edits of a         *)
(* destination by programs that do not take the lock.                      *)
(***************************************************************************)
CONSTANTS
    Procs,     \* processes, each with a PID of its own
    Files,     \* destination paths
    Writes,    \* Writes[p]: the destinations p promotes, {} for recover()
    Base,      \* content of a destination before any promotion
    Absent,    \* the path does not exist
    Torn,      \* a copy that stopped half-way
    None       \* no lock file, no journal

ASSUME ConstantsAssumption ==
    /\ Writes \in [Procs -> SUBSET Files]
    /\ None \notin Procs
    /\ Base \notin Procs
    /\ Absent \notin Procs \cup {Base}
    /\ Torn \notin Procs \cup {Base, Absent}

VARIABLES
    pc,        \* pc[p]: where p is in promote() or recover()
    lock,      \* compilation.lock: the process that created it, or None
    signed,    \* the lock file holds its creator's PID
    stolen,    \* history: a lock was removed while its creator was running
    dest,      \* dest[f]: content of the destination
    temp,      \* temp[p][f]: p's temporary beside f
    backup,    \* backup[p][f]: p's backup of f
    backed,    \* backed[p]: entries of p whose backup path is not None
    journal,   \* compilation.journal: the process that wrote it, or None
    todo,      \* todo[p]: what the loop p is in has still to visit
    replays,   \* replays[p]: whose journal p is rolling back, initially p
    kept,      \* kept[p]: preserved_backups of p's rollback
    errs,      \* errs[p]: rollback, recovery or cleanup errors were recorded
    result     \* result[p]: what promote() or recover() decided

vars == <<pc, lock, signed, stolen, dest, temp, backup, backed, journal, todo,
          replays, kept, errs, result>>

lockVars == <<lock, signed, stolen>>
diskVars == <<dest, temp, backup, backed, journal>>
loopVars == <<todo, replays, kept, errs>>

Contents == Procs \cup {Base}

PreJournal == {"validate", "prepare", "journal"}
Critical == {"signing", "recover", "restoring", "replace", "commit",
             "rollback", "cleanup", "drop", "dispose", "release"} \cup PreJournal
Labels == Critical \cup {"idle", "acquire", "reclaim", "done", "dead"}
Results == {"none", "committed", "failed", "contended", "recovered"}

TypeOK ==
    /\ pc \in [Procs -> Labels]
    /\ lock \in Procs \cup {None}
    /\ signed \in BOOLEAN
    /\ stolen \in BOOLEAN
    /\ dest \in [Files -> Contents \cup {Absent, Torn}]
    /\ temp \in [Procs -> [Files -> Procs \cup {Absent, Torn}]]
    /\ backup \in [Procs -> [Files -> Contents \cup {Absent, Torn}]]
    /\ backed \in [Procs -> SUBSET Files]
    /\ journal \in Procs \cup {None}
    /\ todo \in [Procs -> SUBSET Files]
    /\ replays \in [Procs -> Procs]
    /\ kept \in [Procs -> SUBSET Files]
    /\ errs \in [Procs -> BOOLEAN]
    /\ result \in [Procs -> Results]

Init ==
    /\ pc = [p \in Procs |-> "idle"]
    /\ lock = None
    /\ signed = FALSE
    /\ stolen = FALSE
    /\ dest \in [Files -> {Base, Absent}]
    /\ temp = [p \in Procs |-> [f \in Files |-> Absent]]
    /\ backup = [p \in Procs |-> [f \in Files |-> Absent]]
    /\ backed = [p \in Procs |-> {}]
    /\ journal = None
    /\ todo = [p \in Procs |-> {}]
    /\ replays = [p \in Procs |-> p]
    /\ kept = [p \in Procs |-> {}]
    /\ errs = [p \in Procs |-> FALSE]
    /\ result = [p \in Procs |-> "none"]

-----------------------------------------------------------------------------
(* Control helpers.                                                        *)

Goto(p, label) == pc' = [pc EXCEPT ![p] = label]

Decide(p, r) == result' = [result EXCEPT ![p] = r]

(* p enters a loop over the files S; an empty loop is left at once, for    *)
(* the label `after'.                                                      *)
Loop(p, label, S, after) ==
    /\ Goto(p, IF S = {} THEN after ELSE label)
    /\ todo' = [todo EXCEPT ![p] = S]

(* p has visited f and stays in its loop, or leaves it for `after' when f  *)
(* was the last.                                                           *)
Visited(p, f, after) == Loop(p, pc[p], todo[p] \ {f}, after)

(* Defects that an edit of this code could introduce.  Each is a variant   *)
(* of the definition its name or comment gives, and is used by nothing.    *)
OpenWithoutExcl == TRUE              \* Vacant: O_CREAT without O_EXCL
WaitForever(p) == pc[p] = "reclaim"  \* AttemptFailed: no deadline on a live holder
PathsTemporary(p, f) == {"temp"}     \* CleanupPaths: the backups stay
PathsIgnoringKept(p, f) ==           \* CleanupPaths: preserved backups go too
    {"temp"} \cup (IF f \in backed[p] THEN {"backup"} ELSE {})
HalfPreparedSwapped(f) ==            \* HalfPrepared: the paths are exchanged
    {<<Absent, Absent>>, <<Absent, dest[f]>>, <<Torn, dest[f]>>}
RaiseWithoutRollback(p, done, prepared) ==
    Loop(p, "cleanup", prepared, "drop") /\ Decide(p, "failed")

-----------------------------------------------------------------------------
(* The exception handler of promote(): undo the promotions in `done', or   *)
(* go straight to the clean-up of the prepared files when there are none.  *)
Raise(p, done, prepared) ==
    /\ IF done = {} THEN Loop(p, "cleanup", prepared, "drop")
                    ELSE Loop(p, "rollback", done, "cleanup")
    /\ Decide(p, "failed")

Record(p) == errs' = [errs EXCEPT ![p] = TRUE]

-----------------------------------------------------------------------------
(* The workspace lock.                                                     *)

(* There is a journal to recover from.                                     *)
Pending == journal # None

(* promote() takes the lock at once; recover() returns when its unlocked   *)
(* look finds no journal.                                                  *)
Begin(p) ==
    /\ pc[p] = "idle"
    /\ \/ /\ Writes[p] # {} \/ Pending
          /\ Goto(p, "acquire")
          /\ UNCHANGED result
       \/ /\ Writes[p] = {} /\ ~Pending
          /\ Goto(p, "done")
          /\ Decide(p, "recovered")
    /\ UNCHANGED <<lockVars, diskVars, loopVars>>

(* O_CREAT|O_EXCL would succeed.                                           *)
Vacant == lock = None

CreateLock(p) ==
    /\ pc[p] = "acquire"
    /\ Vacant
    /\ lock' = p
    /\ signed' = FALSE
    /\ Goto(p, "signing")
    /\ UNCHANGED <<stolen, diskVars, loopVars, result>>

(* The PID in the lock file parses and no process has it.                  *)
Stale == lock # None /\ signed /\ pc[lock] = "dead"

(* _try_reclaim_stale_lock up to its decision: read, parse, probe.         *)
Inspect(p) ==
    /\ pc[p] = "acquire"
    /\ Stale
    /\ Goto(p, "reclaim")
    /\ UNCHANGED <<lockVars, diskVars, loopVars, result>>

(* The unlink that acts on that decision.  It removes whatever lock file   *)
(* is there by then; when it raises, the caller polls on.                  *)
Reclaim(p) ==
    /\ pc[p] = "reclaim"
    /\ Goto(p, "acquire")
    /\ \/ /\ lock' = None
          /\ stolen' = (stolen \/ (lock # None /\ pc[lock] # "dead"))
          /\ UNCHANGED signed
       \/ UNCHANGED lockVars
    /\ UNCHANGED <<diskVars, loopVars, result>>

(* The last attempt reclaimed nothing: the holder is alive, the file does  *)
(* not parse, or the unlink raised.                                        *)
AttemptFailed(p) ==
    \/ pc[p] = "acquire" /\ ~Vacant /\ ~Stale
    \/ pc[p] = "reclaim"

(* The deadline has passed.                                                *)
GiveUp(p) ==
    /\ AttemptFailed(p)
    /\ Goto(p, "done")
    /\ Decide(p, "contended")
    /\ UNCHANGED <<lockVars, diskVars, loopVars>>

(* Creating the lock or its directory raised anything but FileExistsError. *)
OpenFails(p) ==
    /\ pc[p] = "acquire"
    /\ Goto(p, "done")
    /\ Decide(p, "failed")
    /\ UNCHANGED <<lockVars, diskVars, loopVars>>

(* The PID is written and synced after the file is created.  When either   *)
(* raises, promote() releases the lock and fails; recover() calls          *)
(* _acquire_lock outside its try block, so it fails at once.               *)
Sign(p) ==
    /\ pc[p] = "signing"
    /\ \/ /\ signed' = (signed \/ lock = p)
          /\ Goto(p, "recover")
          /\ UNCHANGED result
       \/ /\ signed' \in {signed, signed \/ lock = p}
          /\ Goto(p, IF Writes[p] = {} THEN "done" ELSE "release")
          /\ Decide(p, "failed")
    /\ UNCHANGED <<lock, stolen, diskVars, loopVars>>

(* _release_lock unlinks the lock path whoever created the file, or, when  *)
(* unlink and rename both raise, leaves it and reports the error.          *)
Release(p) ==
    /\ pc[p] = "release"
    /\ Goto(p, "done")
    /\ \/ lock' = None /\ UNCHANGED errs
       \/ Record(p) /\ UNCHANGED lock
    /\ UNCHANGED <<signed, stolen, diskVars, todo, replays, kept, result>>

-----------------------------------------------------------------------------
(* Recovery of an interrupted promotion, under the lock.                   *)

(* Without a journal the transaction goes on; one that cannot be read ends *)
(* it and is kept, and is reported when it was read but makes no sense.    *)
ReadJournal(p) ==
    /\ pc[p] = "recover"
    /\ \/ /\ ~Pending
          /\ Goto(p, IF Writes[p] = {} THEN "release" ELSE "validate")
          /\ IF Writes[p] = {} THEN Decide(p, "recovered") ELSE UNCHANGED result
          /\ UNCHANGED loopVars
       \/ /\ Pending
          /\ Goto(p, "restoring")
          /\ replays' = [replays EXCEPT ![p] = journal]
          /\ todo' = [todo EXCEPT ![p] = Writes[journal]]
          /\ UNCHANGED <<kept, errs, result>>
       \/ /\ Pending
          /\ Goto(p, "release")
          /\ Decide(p, "failed")
          /\ Record(p) \/ UNCHANGED errs
          /\ UNCHANGED <<todo, replays, kept>>
    /\ UNCHANGED <<lockVars, diskVars>>

(* What replaying the entry of q for f makes of the destination.           *)
Replayed(q, f) ==
    IF f \in backed[q]
    THEN IF backup[q][f] # Absent THEN backup[q][f] ELSE dest[f]
    ELSE IF dest[f] = q THEN Absent ELSE dest[f]

(* One entry of the journal: put the backup back, or remove a destination  *)
(* that did not exist before and still has the promoted content; then      *)
(* remove the temporary.  An error is recorded and the loop goes on.       *)
Restore(p, f) ==
    LET q == replays[p] IN
    /\ pc[p] = "restoring"
    /\ f \in todo[p]
    /\ todo' = [todo EXCEPT ![p] = @ \ {f}]
    /\ \/ /\ dest' = [dest EXCEPT ![f] = Replayed(q, f)]
          /\ backup' = [backup EXCEPT ![q][f] =
                            IF f \in backed[q] THEN Absent ELSE @]
          /\ \/ temp' = [temp EXCEPT ![q][f] = Absent] /\ UNCHANGED errs
             \/ Record(p) /\ UNCHANGED temp
       \/ /\ Record(p)
          /\ UNCHANGED <<dest, temp, backup>>
    /\ UNCHANGED <<pc, lockVars, backed, journal, replays, kept, result>>

(* Every entry was visited.  Any error keeps the journal and fails this    *)
(* transaction; otherwise the journal goes, unless its unlink raises.      *)
FinishRecovery(p) ==
    /\ pc[p] = "restoring"
    /\ todo[p] = {}
    /\ \/ /\ ~errs[p]
          /\ journal' = None
          /\ Goto(p, IF Writes[p] = {} THEN "release" ELSE "validate")
          /\ IF Writes[p] = {} THEN Decide(p, "recovered") ELSE UNCHANGED result
       \/ /\ Goto(p, "release")
          /\ Decide(p, "failed")
          /\ UNCHANGED journal
    /\ UNCHANGED <<lockVars, dest, temp, backup, backed, loopVars>>

-----------------------------------------------------------------------------
(* The promotion itself.                                                   *)

(* The caller's validate(), before anything is prepared.                   *)
Validate(p) ==
    /\ pc[p] = "validate"
    /\ \/ Loop(p, "prepare", Writes[p], "journal") /\ UNCHANGED result
       \/ Goto(p, "release") /\ Decide(p, "failed") /\ UNCHANGED todo
    /\ UNCHANGED <<lockVars, diskVars, replays, kept, errs>>

(* The backup and the temporary of f when preparing f raised: neither      *)
(* copied, a torn backup, a torn temporary.                                *)
HalfPrepared(f) ==
    {<<Absent, Absent>>, <<dest[f], Absent>>, <<dest[f], Torn>>}
        \cup (IF dest[f] # Absent THEN {<<Torn, Absent>>} ELSE {})

(* Copy the destination, if it exists, to a backup and the staged file to  *)
(* a temporary.                                                            *)
Prepare(p, f) ==
    /\ pc[p] = "prepare"
    /\ f \in todo[p]
    /\ backed' = [backed EXCEPT ![p] =
                      IF dest[f] # Absent THEN @ \cup {f} ELSE @]
    /\ \/ /\ backup' = [backup EXCEPT ![p][f] = dest[f]]
          /\ temp' = [temp EXCEPT ![p][f] = p]
          /\ Visited(p, f, "journal")
          /\ UNCHANGED result
       \/ /\ \E c \in HalfPrepared(f) :
                /\ backup' = [backup EXCEPT ![p][f] = c[1]]
                /\ temp' = [temp EXCEPT ![p][f] = c[2]]
          /\ Raise(p, {}, (Writes[p] \ todo[p]) \cup {f})
    /\ UNCHANGED <<lockVars, dest, journal, replays, kept, errs>>

(* The second validate(), then the journal, which appears whole: it is     *)
(* written and synced beside its path and renamed over it.                 *)
WriteJournal(p) ==
    /\ pc[p] = "journal"
    /\ \/ /\ journal' = p
          /\ Loop(p, "replace", Writes[p], "commit")
          /\ UNCHANGED result
       \/ /\ Raise(p, {}, Writes[p])
          /\ UNCHANGED journal
    /\ UNCHANGED <<lockVars, dest, temp, backup, backed, replays, kept, errs>>

(* Rename one temporary over its destination.                              *)
ReplaceFile(p, f) ==
    /\ pc[p] = "replace"
    /\ f \in todo[p]
    /\ \/ /\ temp[p][f] # Absent
          /\ dest' = [dest EXCEPT ![f] = temp[p][f]]
          /\ temp' = [temp EXCEPT ![p][f] = Absent]
          /\ Visited(p, f, "commit")
          /\ UNCHANGED result
       \/ /\ Raise(p, Writes[p] \ todo[p], Writes[p])
          /\ UNCHANGED <<dest, temp>>
    /\ UNCHANGED <<lockVars, backup, backed, journal, replays, kept, errs>>

(* Every promoted file is verified against its hash, then removing the     *)
(* journal commits.  A failed verification or unlink rolls back.           *)
Commit(p) ==
    /\ pc[p] = "commit"
    /\ \/ /\ \A f \in Writes[p] : dest[f] = p
          /\ journal' = None
          /\ Loop(p, "dispose", Writes[p], "release")
          /\ Decide(p, "committed")
       \/ /\ Raise(p, Writes[p], Writes[p])
          /\ UNCHANGED journal
    /\ UNCHANGED <<lockVars, dest, temp, backup, backed, replays, kept, errs>>

(* After the commit point: remove one backup.  When unlink raises the      *)
(* error is reported and the backup is renamed away, if that succeeds.     *)
Dispose(p, f) ==
    /\ pc[p] = "dispose"
    /\ f \in todo[p]
    /\ Visited(p, f, "release")
    /\ \/ backup' = [backup EXCEPT ![p][f] = Absent] /\ UNCHANGED errs
       \/ /\ f \in backed[p]
          /\ Record(p)
          /\ \/ backup' = [backup EXCEPT ![p][f] = Absent]
             \/ UNCHANGED backup
    /\ UNCHANGED <<lockVars, dest, temp, backed, journal, replays, kept, result>>

-----------------------------------------------------------------------------
(* Rolling back a promotion that raised.                                   *)

(* The loop over the promoted files is over: clean up all prepared ones.   *)
RolledBack(p, f) ==
    IF todo[p] \ {f} = {} THEN Loop(p, "cleanup", Writes[p], "drop")
                          ELSE Loop(p, "rollback", todo[p] \ {f}, "cleanup")

(* Put one promoted file back.  An error is recorded and its backup kept.  *)
RollbackFile(p, f) ==
    /\ pc[p] = "rollback"
    /\ f \in todo[p]
    /\ RolledBack(p, f)
    /\ \/ /\ f \notin backed[p]
          /\ dest' = [dest EXCEPT ![f] = Absent]
          /\ UNCHANGED <<backup, kept, errs>>
       \/ /\ f \in backed[p] /\ backup[p][f] # Absent
          /\ dest' = [dest EXCEPT ![f] = backup[p][f]]
          /\ backup' = [backup EXCEPT ![p][f] = Absent]
          /\ UNCHANGED <<kept, errs>>
       \/ /\ kept' = [kept EXCEPT ![p] =
                          IF f \in backed[p] THEN @ \cup {f} ELSE @]
          /\ Record(p)
          /\ UNCHANGED <<dest, backup>>
    /\ UNCHANGED <<lockVars, temp, backed, journal, replays, result>>

(* What the clean-up of f removes.                                         *)
CleanupPaths(p, f) ==
    {"temp"} \cup (IF f \in backed[p] \ kept[p] THEN {"backup"} ELSE {})

(* _cleanup_preparation: the temporary, and the backup if there is one not *)
(* kept.  Each unlink may raise on its own.                                *)
CleanupFile(p, f) ==
    LET paths == CleanupPaths(p, f) IN
    /\ pc[p] = "cleanup"
    /\ f \in todo[p]
    /\ Visited(p, f, "drop")
    /\ \E gone \in SUBSET paths :
          /\ temp' = [temp EXCEPT ![p][f] = IF "temp" \in gone THEN Absent ELSE @]
          /\ backup' = [backup EXCEPT ![p][f] = IF "backup" \in gone THEN Absent ELSE @]
          /\ errs' = [errs EXCEPT ![p] = @ \/ gone # paths]
    /\ UNCHANGED <<lockVars, dest, backed, journal, replays, kept, result>>

(* The journal goes only when nothing went wrong, and an error of its own  *)
(* unlink is suppressed.                                                   *)
DropJournal(p) ==
    /\ pc[p] = "drop"
    /\ Goto(p, "release")
    /\ \/ ~errs[p] /\ journal' = None
       \/ UNCHANGED journal
    /\ UNCHANGED <<lockVars, dest, temp, backup, backed, loopVars, result>>

-----------------------------------------------------------------------------
(* The process is killed, or exits after its promotion.  Its files stay.   *)
Die(p) ==
    /\ pc[p] # "dead"
    /\ Goto(p, "dead")
    /\ UNCHANGED <<lockVars, diskVars, loopVars, result>>

Work(p) ==
    \/ CreateLock(p) \/ Inspect(p) \/ Reclaim(p) \/ GiveUp(p)
    \/ Sign(p) \/ Release(p)
    \/ ReadJournal(p) \/ FinishRecovery(p)
    \/ Validate(p) \/ WriteJournal(p) \/ Commit(p) \/ DropJournal(p)
    \/ \E f \in Files :
          \/ Restore(p, f) \/ Prepare(p, f) \/ ReplaceFile(p, f)
          \/ Dispose(p, f) \/ RollbackFile(p, f) \/ CleanupFile(p, f)

Next == \E p \in Procs : Begin(p) \/ Work(p) \/ OpenFails(p) \/ Die(p)

Spec == Init /\ [][Next]_vars

(* A process that is neither killed nor blocked goes on, and one that      *)
(* fails to get the lock again and again gives up, for its deadline stays  *)
(* passed.  Nothing is assumed of Begin, OpenFails and Die.                *)
Fairness == \A p \in Procs : WF_vars(Work(p)) /\ SF_vars(GiveUp(p))

FairSpec == Spec /\ Fairness

(* The behaviours in which no running process loses its lock to a          *)
(* reclaimer.                                                              *)
ExclusiveSpec == Init /\ [][Next /\ ~stolen']_vars

-----------------------------------------------------------------------------
(* Properties.                                                             *)

(* The content of f once the pending journal, if any, has been replayed.   *)
Recovered(f) ==
    IF journal # None /\ f \in Writes[journal] THEN Replayed(journal, f)
                                               ELSE dest[f]

Promise == INSTANCE AtomicPromotion
               WITH content <- [f \in Files |-> Recovered(f)]

(* promote() is all or nothing, also across crashes and failed rollbacks:  *)
(* seen through the recovery that the next lock holder performs, the       *)
(* workspace changes only when a promotion commits, then by all of its     *)
(* files at once, and no promotion is decided twice.                       *)
Implements == Promise!Spec

(* _release_lock, _try_reclaim_stale_lock: at most one transaction is past *)
(* _acquire_lock, unless a reclaimer removed a running process's lock.     *)
OneHolder ==
    ~stolen => \A p, q \in Procs :
                   pc[p] \in Critical /\ pc[q] \in Critical => p = q

(* The same without the exception: "Another compilation transaction owns   *)
(* the workspace lock" (LockContentionError).                              *)
MutualExclusion ==
    \A p, q \in Procs : pc[p] \in Critical /\ pc[q] \in Critical => p = q

(* _write_journal renames over the journal path: the pre-images a crashed  *)
(* or half rolled back promotion left there are never overwritten by a     *)
(* later promotion, only removed once they have been put back.             *)
JournalNeverOverwritten ==
    [][~stolen' /\ journal # None /\ journal' # journal => journal' = None]_vars

(* A promote() that ends without reporting rollback or clean-up errors     *)
(* leaves neither a temporary nor a backup beside any destination, and     *)
(* when it raises no byte of its output either, even before any recovery.  *)
CleanEnd ==
    ~stolen => \A p \in Procs :
        pc[p] = "done" /\ ~errs[p] =>
            \A f \in Files : /\ temp[p][f] = Absent /\ backup[p][f] = Absent
                             /\ result[p] = "failed" => dest[f] # p

(* Every transaction that asks for the lock ends: it waits no longer than  *)
(* its deadline and none of its loops runs forever, whatever fails.        *)
EveryTransactionEnds ==
    \A p \in Procs : pc[p] = "acquire" ~> pc[p] \in {"done", "dead"}

-----------------------------------------------------------------------------
(* Why it works: an inductive invariant.  Everything it says about the     *)
(* disk is about the lock holder, so a step of another process cannot      *)
(* disturb it.                                                             *)

(* Replaying the entry of p for f would change nothing any more.           *)
Settled(p, f) ==
    IF f \in backed[p] THEN backup[p][f] = Absent ELSE dest[f] # p

(* f is prepared by p and the destination is as it was then.               *)
Prepared(p, f) ==
    /\ temp[p][f] = p
    /\ IF f \in backed[p] THEN dest[f] # Absent /\ backup[p][f] = dest[f]
                          ELSE dest[f] = Absent

(* f has its new content, and its old one is safe.                         *)
Promoted(p, f) ==
    /\ dest[f] = p
    /\ f \in backed[p] => backup[p][f] # Absent

(* p's rollback is through with f, or never had to touch it.               *)
Undone(p, f) ==
    IF f \in backed[p]
    THEN f \in kept[p] \/ backup[p][f] \in {Absent, dest[f]}
    ELSE errs[p] \/ dest[f] # p

HoldsLock(p) == pc[p] \in Critical => lock = p

JournalPhase(p) ==
    /\ pc[p] \in PreJournal \cup {"dispose"} => journal = None
    /\ pc[p] \in {"replace", "commit", "rollback"} => journal = p
    /\ pc[p] \in {"cleanup", "drop"} => journal \in {None, p}
    /\ pc[p] = "restoring" => journal # None /\ journal = replays[p]

LoopPhase(p) ==
    /\ pc[p] \in {"prepare", "replace", "rollback", "cleanup", "dispose"}
          => todo[p] \subseteq Writes[p]
    /\ pc[p] = "restoring" => todo[p] \subseteq Writes[replays[p]]

CopyPhase(p) ==
    /\ pc[p] = "restoring" => \A f \in Writes[replays[p]] \ todo[p] :
                                 errs[p] \/ Settled(replays[p], f)
    /\ \A f \in Writes[p] :
          /\ pc[p] = "prepare" => IF f \in todo[p] THEN f \notin backed[p]
                                                   ELSE Prepared(p, f)
          /\ pc[p] = "journal" => Prepared(p, f)
          /\ pc[p] = "replace" => IF f \in todo[p] THEN Prepared(p, f)
                                                   ELSE Promoted(p, f)
          /\ pc[p] = "commit" => Promoted(p, f)
          /\ pc[p] = "rollback" => IF f \in todo[p] THEN Promoted(p, f)
                                                    ELSE Undone(p, f)
          /\ pc[p] = "cleanup" /\ journal = p =>
                Undone(p, f) /\ (f \notin todo[p] => errs[p] \/ Settled(p, f))
          /\ pc[p] = "drop" /\ journal = p => errs[p] \/ Settled(p, f)

Early == {"idle", "acquire", "reclaim", "signing", "recover", "restoring", "validate"}

OwnState(p) ==
    /\ pc[p] \in Early => backed[p] = {}
    /\ pc[p] \in Early \cup {"prepare", "journal", "replace", "commit"}
          => result[p] = "none"
    /\ kept[p] # {} => errs[p]

Phase(p) == /\ HoldsLock(p)
            /\ JournalPhase(p)
            /\ LoopPhase(p)
            /\ CopyPhase(p)
            /\ OwnState(p)

(* The journal can be replayed at any moment: whatever the lock holder is  *)
(* doing, the copies it relies on are there and are the right ones.        *)
JournalReplayable == ~stolen => \A p \in Procs : Phase(p)
=============================================================================
