----------------------------- MODULE Compilation -----------------------------
(***************************************************************************)
(* operations/compilation.py: compilers that share a workspace, its two    *)
(* ledgers and its output.                                                 *)
(*                                                                         *)
(* A direct compilation (execute_direct) holds the locks of both ledgers   *)
(* while it copies them, compiles and promotes.  A conversation takes no   *)
(* lock while it previews, shows the user what it staged, and at the       *)
(* confirmation takes the lock of the registry-ID ledger only and promotes *)
(* the staged files if nothing it looked at has changed.  Meanwhile the    *)
(* author edits the source.                                                *)
(*                                                                         *)
(* FileTransaction is taken by its guarantee among those that hold the     *)
(* workspace lock, one promotion at a time and a journal that the next     *)
(* holder undoes, but not by more: a preview reads the files unlocked and  *)
(* sees a promotion half done.                                             *)
(*                                                                         *)
(* The locks of the ledgers (RegistryIdLock, registry/ids.py) are modelled *)
(* in their steps.  EnumNumbers gives the numbers of one enum declaration. *)
(*                                                                         *)
(* "output" stands for all artifacts, plans and the local registry, and    *)
(* the fingerprints of sources, configuration and overlay for one source.  *)
(* An absent ledger is an empty one: none is ever written empty here.      *)
(* Left out: the audit record, one more file of an apply's promotion with  *)
(* a name of its own; changed symbolic links; a staging directory that     *)
(* somebody else changes; a lock file that cannot be unlinked; OCI         *)
(* registries, which are pushed to before the promotion.                   *)
(***************************************************************************)
EXTENDS Naturals, FiniteSets, FiniteSetsExt, Functions

CONSTANTS
    Procs,          \* compilers, each for one compilation
    Conversations,  \* those among them that preview first
    Sources,        \* contents of the source: [names, history]
    Earlier,        \* those that a workspace may have been compiled from
    Additions,      \* <<s, t>>: t is s with further files
    MaxEdits,       \* bound: edits the author makes
    MaxDeaths,      \* bound: processes that are killed
    None            \* no lock file, nothing generated, nothing read

\* A name of a registered type is a number, its place in sorted order.
ASSUME ConstantsAssumption ==
    /\ Conversations \subseteq Procs
    /\ None \notin Procs
    /\ \A s \in Sources : s.names \in SUBSET Nat /\ IsFiniteSet(s.names)
    /\ Earlier \subseteq Sources
    /\ Additions \subseteq Sources \X Sources
    /\ MaxEdits \in Nat
    /\ MaxDeaths \in Nat

VARIABLES
    source,    \* what the .mdl files say
    edits,     \* how often the author has changed them
    disk,      \* disk[f]: content of a file of the workspace
    journal,   \* the files before the promotion in flight, or NoFiles
    ws,        \* who holds the workspace lock, or None
    caught,    \* history: ids were undone between a preview's two reads of them
    lock,      \* lock[l]: who created the lock file of ledger l, or None
    signed,    \* the lock files that hold their creator's PID
    stolen,    \* history: a running process lost its ledger lock
    pc,        \* pc[p]: where p is
    holds,     \* holds[p]: the ledger locks p owns (_owned)
    staging,   \* staging[p]: p's staged files, or NoFiles
    seen,      \* seen[p]: what p's preview read before it was shown
    todo,      \* todo[p]: the files a loop of p has still to visit
    result     \* result[p]: what p reports

lockVars == <<lock, signed, stolen, holds>>
diskVars == <<disk, journal, ws, caught>>
procVars == <<staging, seen, todo, result>>
vars == <<source, edits, diskVars, lockVars, pc, procVars>>

Ledgers == {"ids", "enums"}
Files == Ledgers \cup {"output"}

Enums == INSTANCE EnumNumbers WITH
    Declarations <- {}, Members <- {}, MaxVersions <- 0, MaxNumber <- 0,
    source <- <<>>, ledger <- <<>>, given <- {}, lapsed <- {}

\* No journal, no staging directory.
NoFiles == [f \in {} |-> None]

Empty == [ids |-> [n \in {} |-> 0], enums |-> Enums!NoEntry, output |-> None]

Blank == [print |-> None, ids |-> None, before |-> Empty]

\* What a reader finds once the promotion in flight, if any, is undone.
Settled == IF journal = NoFiles THEN disk ELSE journal

Exited(p) == pc[p] = "dead" \/ (pc[p] = "done" /\ p \notin Conversations)

\* The workspace lock can be had: it is free or its holder is gone.
WorkspaceFree(p) == ws \in {None, p} \cup {q \in Procs : Exited(q)}

\* A promotion is undone: disk' has files it had before.
Undo == caught' = (caught \/ (/\ disk'["ids"] # disk["ids"]
                              /\ \E c \in Conversations : pc[c] = "copyIds"))

Goto(p, label) == pc' = [pc EXCEPT ![p] = label]
Report(p, r) == result' = [result EXCEPT ![p] = r]

-----------------------------------------------------------------------------
(* Allocation.                                                             *)

\* allocate_registry_ids: new names in sorted order from the greatest id up.
AllocatedIds(names, ids) ==
    [n \in names \cup DOMAIN ids |->
        IF n \in DOMAIN ids THEN ids[n]
        ELSE Max(Range(ids) \cup {0})
               + Cardinality({m \in names \ DOMAIN ids : m <= n})]

(* Defects that an edit of this code could introduce, here and below.      *)
(* Each is a variant of the definition its comment names, and is used by   *)
(* nothing.                                                                *)
StrayFile(s, from) ==               \* Compiled: a file that no promotion takes
    [ids    |-> AllocatedIds(s.names, from["ids"]),
     enums  |-> Enums!Allocated(s.history, from["enums"]),
     output |-> None,
     plan   |-> s]

\* What _run_compilation stages from source s over the ledgers of `from'.
Compiled(s, from) ==
    LET ids == AllocatedIds(s.names, from["ids"])
        enums == Enums!Allocated(s.history, from["enums"])
    IN  [ids    |-> ids,
         enums  |-> enums,
         output |-> [of |-> s, ids |-> ids, enums |-> enums]]

\* EnumNumberConflictError.
Conflict(s, from) == Enums!Reintroduced(s.history, from["enums"]) # {}

\* The workspace is new, or was compiled from an earlier text.
Workspaces == {Empty} \cup {Compiled(s, Empty) : s \in Earlier}

Init ==
    /\ source \in Sources
    /\ edits = 0
    /\ disk \in Workspaces
    /\ journal = NoFiles
    /\ ws = None
    /\ caught = FALSE
    /\ lock = [l \in Ledgers |-> None]
    /\ signed = {}
    /\ stolen = FALSE
    /\ pc = [p \in Procs |-> "idle"]
    /\ holds = [p \in Procs |-> {}]
    /\ staging = [p \in Procs |-> NoFiles]
    /\ seen = [p \in Procs |-> Blank]
    /\ todo = [p \in Procs |-> {}]
    /\ result = [p \in Procs |-> "none"]

-----------------------------------------------------------------------------
(* RegistryIdLock.                                                         *)

\* The ledger locks that p enters, the ID ledger's first, and leaves in the
\* opposite order.
LocksOf(p) == IF p \in Conversations THEN {"ids"} ELSE Ledgers
Wanted(p) == IF "ids" \in holds[p] THEN "enums" ELSE "ids"
Innermost(p) == IF "enums" \in holds[p] THEN "enums" ELSE "ids"

\* os.open with O_EXCL.
CreateLock(p) ==
    /\ pc[p] = "acquire"
    /\ lock[Wanted(p)] = None
    /\ lock' = [lock EXCEPT ![Wanted(p)] = p]
    /\ signed' = signed \ {Wanted(p)}
    /\ Goto(p, "sign")
    /\ UNCHANGED <<source, edits, diskVars, stolen, holds, procVars>>

SignLock(p) ==
    /\ pc[p] = "sign"
    /\ signed' = IF lock[Wanted(p)] = p THEN signed \cup {Wanted(p)} ELSE signed
    /\ holds' = [holds EXCEPT ![p] = @ \cup {Wanted(p)}]
    /\ Goto(p, IF holds'[p] # LocksOf(p) THEN "acquire"
               ELSE IF p \in Conversations THEN "check" ELSE "recover")
    /\ UNCHANGED <<source, edits, diskVars, lock, stolen, procVars>>

\* os.write or os.fsync raises: the file stays, with or without a PID, and
\* nobody owns it.
SignFails(p) ==
    /\ pc[p] = "sign"
    /\ \/ lock[Wanted(p)] = p /\ signed' = signed \cup {Wanted(p)}
       \/ UNCHANGED signed
    /\ Report(p, "failed")
    /\ Goto(p, "release")
    /\ UNCHANGED <<source, edits, diskVars, lock, stolen, holds,
                   staging, seen, todo>>

\* _reclaim_stale_lock has read the PID of a process that is gone.
JudgeLock(p) ==
    LET l == Wanted(p) IN
    /\ pc[p] = "acquire"
    /\ lock[l] # None
    /\ l \in signed
    /\ Exited(lock[l])
    /\ Goto(p, "reclaim")
    /\ UNCHANGED <<source, edits, diskVars, lockVars, procVars>>

\* It unlinks whatever file is there by now.
ReclaimLock(p) ==
    LET l == Wanted(p) IN
    /\ pc[p] = "reclaim"
    /\ lock' = [lock EXCEPT ![l] = None]
    /\ signed' = signed \ {l}
    /\ stolen' = (stolen \/ (lock[l] # None /\ ~Exited(lock[l])))
    /\ Goto(p, "acquire")
    /\ UNCHANGED <<source, edits, diskVars, holds, procVars>>

\* RegistryIdLockContentionError, or FileTransactionLockContentionError when
\* p waits for the workspace lock.
TimeOut(p) ==
    /\ \/ pc[p] = "acquire" /\ lock[Wanted(p)] # None
       \/ pc[p] = "recover" /\ journal # NoFiles /\ ~WorkspaceFree(p)
       \/ pc[p] = "promote" /\ ~WorkspaceFree(p)
    /\ Report(p, "failed")
    /\ Goto(p, "release")
    /\ UNCHANGED <<source, edits, diskVars, lockVars, staging, seen, todo>>

\* __exit__ unlinks the file without a look at who created it.
ReleaseLock(p) ==
    LET l == Innermost(p) IN
    /\ pc[p] = "release"
    /\ holds[p] # {}
    /\ lock' = [lock EXCEPT ![l] = None]
    /\ signed' = signed \ {l}
    /\ stolen' = (stolen \/ lock[l] \notin {None, p})
    /\ holds' = [holds EXCEPT ![p] = @ \ {l}]
    /\ UNCHANGED <<source, edits, diskVars, pc, procVars>>

-----------------------------------------------------------------------------
(* Compiling into the staging directory.                                   *)

Fail(p) == Report(p, "failed") /\ Goto(p, "release")

Start(p) ==
    /\ pc[p] = "idle"
    /\ p \notin Conversations
    /\ Goto(p, "acquire")
    /\ UNCHANGED <<source, edits, diskVars, lockVars, procVars>>

\* FileTransaction.recover looks for a journal and undoes its promotion when
\* the workspace lock can be had.
Recover(p) ==
    /\ pc[p] = "recover"
    /\ journal = NoFiles \/ WorkspaceFree(p)
    /\ disk' = Settled
    /\ journal' = NoFiles
    /\ ws' = IF journal = NoFiles THEN ws ELSE None
    /\ Undo
    /\ Goto(p, "copy")
    /\ UNCHANGED <<source, edits, lockVars, procVars>>

CopyLedgers(p) ==
    /\ pc[p] = "copy"
    /\ staging' = [staging EXCEPT ![p] = [disk EXCEPT !["output"] = None]]
    /\ Goto(p, "run")
    /\ UNCHANGED <<source, edits, diskVars, lockVars, seen, todo, result>>

\* _run_compilation reads the source again.  It may also fail for a reason of
\* its own, and with orphaned ids unless the request allows them.
Run(p) ==
    /\ pc[p] = "run"
    /\ \/ /\ ~Conflict(source, staging[p])
          /\ staging' = [staging EXCEPT ![p] = Compiled(source, @)]
          /\ todo' = [todo EXCEPT ![p] = IF p \in Conversations THEN Files ELSE {}]
          /\ Goto(p, IF p \in Conversations THEN "read" ELSE "promote")
          /\ UNCHANGED result
       \/ Fail(p) /\ UNCHANGED <<staging, todo>>
    /\ UNCHANGED <<source, edits, diskVars, lockVars, seen>>

-----------------------------------------------------------------------------
(* preview, with no lock.                                                  *)

Fingerprint(p) ==
    /\ pc[p] = "idle"
    /\ p \in Conversations
    /\ seen' = [seen EXCEPT ![p].print = source]
    /\ Goto(p, "readIds")
    /\ UNCHANGED <<source, edits, diskVars, lockVars, staging, todo, result>>

ReadIds(p) ==
    /\ pc[p] = "readIds"
    /\ seen' = [seen EXCEPT ![p].ids = disk["ids"]]
    /\ Goto(p, "copyIds")
    /\ UNCHANGED <<source, edits, diskVars, lockVars, staging, todo, result>>

CopyIds(p) ==
    /\ pc[p] = "copyIds"
    /\ staging' = [staging EXCEPT ![p] = [Empty EXCEPT !["ids"] = disk["ids"]]]
    /\ Goto(p, "copyEnums")
    /\ UNCHANGED <<source, edits, diskVars, lockVars, seen, todo, result>>

CopyEnums(p) ==
    /\ pc[p] = "copyEnums"
    /\ staging' = [staging EXCEPT ![p]["enums"] = disk["enums"]]
    /\ Goto(p, "run")
    /\ UNCHANGED <<source, edits, diskVars, lockVars, seen, todo, result>>

\* Staged files are visited in the order of their names, enum-numbers.lock
\* before registry-ids.lock, and those of a direct compilation by
\* promotion_order, the output last.  A preview's output has names that come
\* before, between and behind those of the ledgers.
InOrder(p, f) ==
    /\ f = "ids" => "enums" \notin todo[p]
    /\ f = "output" /\ p \notin Conversations => todo[p] = {"output"}

\* _build_file_previews keeps the hash of what each file will replace.
ReadDestination(p) ==
    /\ pc[p] = "read"
    /\ \E f \in todo[p] :
          /\ InOrder(p, f)
          /\ seen' = [seen EXCEPT ![p].before[f] = disk[f]]
          /\ todo' = [todo EXCEPT ![p] = @ \ {f}]
    /\ Goto(p, IF todo'[p] = {} THEN "pending" ELSE "read")
    /\ UNCHANGED <<source, edits, diskVars, lockVars, staging, result>>

\* The limit of a preview's text, or a file that cannot be read.
PreviewFails(p) ==
    /\ pc[p] \in {"readIds", "copyIds", "copyEnums", "read"}
    /\ Fail(p)
    /\ UNCHANGED <<source, edits, diskVars, lockVars, staging, seen, todo>>

-----------------------------------------------------------------------------
(* The user's answer to a preview.                                         *)

LockedConfirm(p) ==                 \* Confirm: the workspace is locked first
    /\ pc[p] = "pending"
    /\ WorkspaceFree(p)
    /\ disk' = Settled
    /\ journal' = NoFiles
    /\ ws' = p
    /\ Undo
    /\ Goto(p, "acquire")
    /\ UNCHANGED <<source, edits, lockVars, procVars>>

Confirm(p) ==
    /\ pc[p] = "pending"
    /\ Goto(p, "acquire")
    /\ UNCHANGED <<source, edits, diskVars, lockVars, procVars>>

\* discard, and a confirmation of another action (_verify_confirmation).
Dismiss(p) ==
    /\ pc[p] = "pending"
    /\ \E r \in {"discarded", "stale"} : Report(p, r)
    /\ Goto(p, "release")
    /\ UNCHANGED <<source, edits, diskVars, lockVars, staging, seen, todo>>

AnyIds(p) == TRUE                   \* IdsUnchanged: the hashes are trusted

\* _verify_apply_freshness looks for the files that the preview knew, and not
\* for further ones; then the comparison with registry_ids_before.
SourceKept(p) ==
    source = seen[p].print \/ <<seen[p].print, source>> \in Additions
Fresh(p, files) == SourceKept(p) /\ files = seen[p].before
IdsUnchanged(p) == disk["ids"] = seen[p].ids

\* The first verification, with the lock of the ID ledger.
Check(p) ==
    /\ pc[p] = "check"
    /\ IF Fresh(p, disk) /\ IdsUnchanged(p)
       THEN Goto(p, "promote") /\ UNCHANGED result
       ELSE Report(p, "stale") /\ Goto(p, "release")
    /\ UNCHANGED <<source, edits, diskVars, lockVars, staging, seen, todo>>

-----------------------------------------------------------------------------
(* FileTransaction.promote, and the end of a compilation.                  *)

NeverValidated(p) == TRUE           \* Validated: only Check verifies

\* What promote is given as `validate': an apply verifies once more, now that
\* the workspace lock is held and an earlier promotion is undone.
Validated(p) == p \in Conversations => Fresh(p, Settled)

\* The journal is written, or the preparation is undone: nothing replaced.
BeginPromotion(p) ==
    /\ pc[p] = "promote"
    /\ WorkspaceFree(p)
    /\ disk' = Settled
    /\ Undo
    /\ \/ /\ Validated(p)
          /\ ws' = p
          /\ journal' = Settled
          /\ todo' = [todo EXCEPT ![p] = Files]
          /\ Goto(p, "replace")
          /\ UNCHANGED result
       \/ /\ ws' = None
          /\ journal' = NoFiles
          /\ Report(p, IF Validated(p) THEN "failed" ELSE "stale")
          /\ Goto(p, "release")
          /\ UNCHANGED todo
    /\ UNCHANGED <<source, edits, lockVars, staging, seen>>

Replace(p) ==
    /\ pc[p] = "replace"
    /\ \E f \in todo[p] :
          /\ InOrder(p, f)
          /\ disk' = [disk EXCEPT ![f] = staging[p][f]]
          /\ todo' = [todo EXCEPT ![p] = @ \ {f}]
    /\ UNCHANGED <<source, edits, journal, ws, caught, lockVars, pc, staging, seen,
                   result>>

RollbackForgotten(p) ==             \* PromotionFails: journal removed anyway
    /\ pc[p] = "replace"
    /\ \E S \in SUBSET Files :
          disk' = [f \in Files |-> IF f \in S THEN journal[f] ELSE disk[f]]
    /\ journal' = NoFiles
    /\ ws' = None
    /\ Undo
    /\ Fail(p)
    /\ UNCHANGED <<source, edits, lockVars, staging, seen, todo>>

\* Some call raises.  What cannot be put back is left to the next holder of
\* the workspace lock, with the journal.
PromotionFails(p) ==
    /\ pc[p] = "replace"
    /\ \E S \in SUBSET Files :
          /\ disk' = [f \in Files |-> IF f \in S THEN journal[f] ELSE disk[f]]
          /\ journal' = IF S = Files THEN NoFiles ELSE journal
    /\ ws' = None
    /\ Undo
    /\ Fail(p)
    /\ UNCHANGED <<source, edits, lockVars, staging, seen, todo>>

Commit(p) ==
    /\ pc[p] = "replace"
    /\ todo[p] = {}
    /\ journal' = NoFiles
    /\ ws' = None
    /\ Report(p, "committed")
    /\ Goto(p, "release")
    /\ UNCHANGED <<source, edits, disk, caught, lockVars, staging, seen, todo>>

CleanedAsFailed(p) ==               \* Clean: like _remove_staging everywhere
    /\ pc[p] = "release"
    /\ holds[p] = {}
    /\ \/ staging' = [staging EXCEPT ![p] = NoFiles] /\ UNCHANGED result
       \/ staging[p] # NoFiles /\ Report(p, "failed") /\ UNCHANGED staging
    /\ seen' = [seen EXCEPT ![p] = Blank]
    /\ todo' = [todo EXCEPT ![p] = {}]
    /\ Goto(p, "done")
    /\ UNCHANGED <<source, edits, diskVars, lockVars>>

\* The staging directory is removed.  If that raises, a compilation that has
\* committed says so all the same (FileTransactionCommittedError).
Clean(p) ==
    /\ pc[p] = "release"
    /\ holds[p] = {}
    /\ \/ staging' = [staging EXCEPT ![p] = NoFiles] /\ UNCHANGED result
       \/ /\ staging[p] # NoFiles
          /\ Report(p, IF result[p] = "committed" THEN "committed" ELSE "failed")
          /\ UNCHANGED staging
    /\ seen' = [seen EXCEPT ![p] = Blank]
    /\ todo' = [todo EXCEPT ![p] = {}]
    /\ Goto(p, "done")
    /\ UNCHANGED <<source, edits, diskVars, lockVars>>

\* The process is killed.  Its locks, its staging directory and its journal
\* stay; what it knew is gone.
Die(p) ==
    /\ pc[p] \notin {"idle", "done", "dead"}
    /\ Cardinality({q \in Procs : pc[q] = "dead"}) < MaxDeaths
    /\ Goto(p, "dead")
    /\ holds' = [holds EXCEPT ![p] = {}]
    /\ staging' = [staging EXCEPT ![p] = NoFiles]
    /\ seen' = [seen EXCEPT ![p] = Blank]
    /\ todo' = [todo EXCEPT ![p] = {}]
    /\ UNCHANGED <<source, edits, diskVars, lock, signed, stolen, result>>

\* The author saves another text, or an earlier one again.
EditSource ==
    /\ edits < MaxEdits
    /\ source' \in Sources \ {source}
    /\ edits' = edits + 1
    /\ UNCHANGED <<diskVars, lockVars, pc, procVars>>

Next ==
    \/ EditSource
    \/ \E p \in Procs :
          \/ Start(p) \/ Recover(p) \/ CopyLedgers(p) \/ Run(p)
          \/ Fingerprint(p) \/ ReadIds(p) \/ CopyIds(p) \/ CopyEnums(p)
          \/ ReadDestination(p) \/ PreviewFails(p) \/ Confirm(p) \/ Dismiss(p)
          \/ Check(p) \/ BeginPromotion(p) \/ Replace(p) \/ PromotionFails(p)
          \/ Commit(p) \/ Clean(p) \/ Die(p)
          \/ CreateLock(p) \/ SignLock(p) \/ SignFails(p) \/ JudgeLock(p)
          \/ ReclaimLock(p) \/ TimeOut(p) \/ ReleaseLock(p)

Spec == Init /\ [][Next]_vars

-----------------------------------------------------------------------------
(* Properties.                                                             *)

Labels == {"idle", "acquire", "sign", "reclaim", "recover", "copy", "run",
           "readIds", "copyIds", "copyEnums", "read", "pending", "check",
           "promote", "replace", "release", "done", "dead"}

Results == {"none", "failed", "stale", "discarded", "committed"}

IsSnapshot(files) == files = [f \in Files |-> files[f]]
IsSight(s) ==
    /\ s = [print |-> s.print, ids |-> s.ids, before |-> s.before]
    /\ IsSnapshot(s.before)

\* Every variable has its type; the contents of files are left open.
TypeOK ==
    /\ source \in Sources
    /\ edits \in 0..MaxEdits
    /\ IsSnapshot(disk)
    /\ journal = NoFiles \/ IsSnapshot(journal)
    /\ caught \in BOOLEAN
    /\ ws \in Procs \cup {None}
    /\ lock \in [Ledgers -> Procs \cup {None}]
    /\ signed \subseteq Ledgers
    /\ stolen \in BOOLEAN
    /\ pc \in [Procs -> Labels]
    /\ holds \in [Procs -> SUBSET Ledgers]
    /\ staging = [p \in Procs |-> staging[p]]
    /\ \A p \in Procs : staging[p] = NoFiles \/ IsSnapshot(staging[p])
    /\ seen = [p \in Procs |-> seen[p]]
    /\ \A p \in Procs : IsSight(seen[p])
    /\ todo \in [Procs -> SUBSET Files]
    /\ result \in [Procs -> Results]

\* What the workspace comes to once every promotion is finished or undone
\* changes only by a compilation that reports success, and one that has
\* succeeded never reports anything else: whatever fails or dies half-way, and
\* whatever happens to its staging directory afterwards.
ChangesAreReported ==
    [][/\ Settled' # Settled =>
             \E p \in Procs : /\ result[p] # "committed"
                              /\ result'[p] = "committed"
       /\ \A p \in Procs : result[p] = "committed" => result'[p] = "committed"
      ]_vars

Extends(old, new) ==
    DOMAIN old \subseteq DOMAIN new /\ \A n \in DOMAIN old : new[n] = old[n]

\* An id once published is the id of that name for ever (registry/ids.py, lines
\* 129-131), whoever compiles at the same time, unless a process has lost its
\* lock to another one that found it stale, or a preview that reads the IDs
\* twice was between the two when the first ones were undone.
IdsKept ==
    [][stolen' \/ caught' \/ Extends(Settled["ids"], Settled'["ids"])]_vars

\* The ids and enum numbers that the published artifacts were generated with
\* are the ones in the published ledgers, through crashes and rollbacks.
OutputMatchesLedgers ==
    Settled["output"] # None =>
        /\ Settled["output"].ids = Settled["ids"]
        /\ Settled["output"].enums = Settled["enums"]

\* An apply replaces exactly the files whose contents the user was shown, also
\* when its preview looked at them in the middle of somebody's promotion.
AppliedOverShown ==
    \A p \in Conversations : pc[p] = "replace" => journal = seen[p].before

\* No set of processes waits for one another's locks
\* (registry-protocol-map.md, line 32).
Waits(p, q) ==
    \/ pc[p] = "acquire" /\ q # p /\ Wanted(p) \in holds[q]
    \/ pc[p] \in {"recover", "promote"} /\ ws = q /\ q # p

NoLockCycle ==
    \A S \in (SUBSET Procs) \ {{}} : ~ \A p \in S : \E q \in S : Waits(p, q)

-----------------------------------------------------------------------------
(* What the documentation says and the code does not do; see README.md.    *)

\* "numbers are never reassigned" (enum_numbers.py, lines 9-10): an enum member
\* that is live before and after a compilation keeps its number.
EnumNumbersKept ==
    [][LET old == Settled["enums"].members
           new == Settled'["enums"].members
       IN  stolen' \/ \A m \in DOMAIN old \cap DOMAIN new : new[m] = old[m]]_vars
=============================================================================
