# Formal models of modelable

TLA+ specifications of the parts of modelable whose correctness depends on the
order in which things happen: processes that share a workspace, file-system
calls that fail half-way, processes that die, browser tabs and workers that
answer late. Each module is written from the source under `src/` and is checked
with TLC on small instances; the modules named `*Proofs` hold theorems checked
by TLAPS for instances of any size.

## 1. The system and its parts

modelable parses `.mdl` declarations, validates them, and generates artifacts
for many targets. Most of it is a sequential compiler. State that outlives a
call, and more than one actor touching it, occur in the following parts.

| Part | State | Operations | Hard behaviour | What makes it correct | Module |
|---|---|---|---|---|---|
| Workspace file transaction (`operations/file_transaction.py`) | lock file, journal, temporaries, backups, destinations | `promote`, `recover` | several processes, stale locks, every file-system call may raise, death at any point | a promotion is all or nothing, also across crashes; the journal is never lost; one holder at a time | `FileTransaction`, `AtomicPromotion` |
| Enum number ledger (`registry/enum_numbers.py`) | `enum-numbers.lock` | allocate, write | long sequences of recompilations | a number is never reassigned and never reused | `EnumNumbers` |
| Browser persistence (`web/src/usePersistentWorkspace.ts`, `workspace-repository.ts`) | workspace, dirty flag, timer, stored record | replace, save, load, retry, reset, broadcast | several tabs, asynchronous saves and loads | a tab that says *saved* is stored; no edit is lost silently | `PersistentWorkspace` |
| Compilation service (`operations/compilation.py`) and registry ID ledger (`registry/ids.py`) | both ledgers and their lock files, staged output, pending previews | `execute_direct`, `preview`, `apply`, `discard` | a preview is taken without a lock and applied much later; three nested locks; crashes in between | what is applied is what was shown, over what was shown; an ID is never reassigned; artifacts match the ledgers | `Compilation` |
| Browser client and worker, API of the compiler, language service and shell (`web/src/client.ts`, `compiler.worker.ts`, `language/`, `App.tsx`, `browser/`) | calls in flight, revisions on both sides, diagnostics, artifacts | open, validate, format, generate, ask, preview, accept, retry | answers of an older revision arrive late, a failing worker, two texts of one revision | only results about the text on the page are shown; the compiler gets the page's text in the end | `CompilerClient` |
| Conversation engine and hosts, workspace editor, sessions of the language server and of VS Code (`llm/`, `lsp/`, `vscode/`) | loaded sources, pending action on two levels, staging directories, sources being replaced | turns, preview, apply, discard, close | several sessions and the author write the same files; exceptions part engine and host; death half-way | what is applied is what the user asked for; a change is applied whole or not at all; no directory is lost track of | `Conversation` |
| Registry snapshot and lifecycle (`registry/snapshot.py`, `lifecycle.py`) | lock, object store, lifecycle document, source | `resolve`, `update`, `prune` | no command excludes another; a copy is killed half-way; edits between two reads of a file | what the lock names is stored whole; an identity keeps its content; a state goes forward; a failed update leaves no trace | `RegistrySnapshot` |
| Selecting a version (`registry/resolver.py`, `registry/snapshot.py`) | the published versions | publish, resolve a reference | two resolvers written apart; versions published in any order | both select the same version; no breaking change is stepped over | `VersionSelection` |
| Compatibility, planner, parser, emitters, refactorings, documentation retrieval, extension host, packages, commands | inputs of one call | pure functions, single-threaded handlers, I/O | none, or file-system writes one at a time | their results, which unit tests reach | none, section 13 |

`execute_direct` holds the locks of both ledgers, calls
`FileTransaction.recover`, stages into a directory of its own, and promotes
everything it staged, the ledgers included, in one `FileTransaction.promote`.
`apply` promotes bytes staged by an earlier preview in the same way. The
conversation hosts drive the compilation service and the workspace editor. In
the browser the same compiler runs in a worker behind `BrowserCompilerClient`;
the workspace lives in IndexedDB.

`PROJECT.json` lists every component with its sources, and every hazard with
the line where it bites and the properties that would catch it.

## 2. How the modules fit together

Each module models its part in full detail and takes its neighbours by what
they promise:

* `FileTransaction` is shown to implement `AtomicPromotion`, what a promotion
  promises. `Compilation` builds on that promise, and on one thing more that the
  promise does not hide: a preview reads the files without the lock, so that it
  sees promotions half done. Its `Settled` is the content of `AtomicPromotion`.
* `Compilation` instantiates `EnumNumbers` for what a compilation makes of the
  enum ledger.
* `Conversation` takes from `Compilation` that an apply succeeds or fails and
  that its staging directory is removed or stays; `CompilerClient` takes from
  `Conversation` that a turn may end in one pending preview, and from
  `PersistentWorkspace` that the page's workspace may be restored, adopted or
  edited.
* `MC*` modules hold the constants of the instances TLC checks; `*Proofs` hold
  the theorems TLAPS checks, for constants of any size.

The order of work was: the file transaction, the enum ledger, the browser
persistence, the compilation service with the ID ledger, the browser client,
the conversations, the registry snapshot, the selection of versions. Open, in
order of what they would add: the journal written short (`os.write` with a full
disk) and files edited by programs that do not take the lock, in
`FileTransaction`; several edits of one text between two previews (a third
conversation) in `Compilation`.

## 3. The file transaction

### Model and code

A process performs one `FileTransaction`. `Writes[p]` is the set of its
destinations; a process with none performs a bare `recover()`. (`promote()` of
nothing returns at once and is not a process.) Contents are abstract: the
content staged by `p` is `p`, the content before any promotion is `Base`, a
copy that stopped half-way is `Torn`.

| Variable | Code |
|---|---|
| `pc[p]` | the statement of `promote`/`recover` the process is at; `"dead"` when it was killed or has exited |
| `lock`, `signed` | `compilation.lock`: who created it, and whether its PID is written |
| `journal` | `compilation.journal`: whose entries it holds. The entries are `Writes[journal]`, `backed[journal]` and the hash of its content |
| `dest`, `temp`, `backup` | the files at the destination, temporary and backup paths |
| `backed[p]` | the promotions whose `backup` is not `None` |
| `todo[p]`, `kept[p]`, `errs[p]` | the rest of the loop, `preserved_backups`, the error lists being non-empty |
| `replays[p]` | whose journal `_recover_interrupted_promotion` read |
| `result[p]` | how the call ended, set at the point of no return |
| `stolen` | history only: a lock was unlinked by a reclaimer while its creator was running |

Actions follow the code's steps: `Begin`, `CreateLock`, `Inspect` (read the
lock, parse, probe the PID), `Reclaim` (the unlink after it), `GiveUp`,
`OpenFails`, `Sign`, `ReadJournal`, `Restore` (one entry), `FinishRecovery`,
`Validate`, `Prepare` (one file), `WriteJournal`, `ReplaceFile`, `Commit`,
`Dispose`, `RollbackFile`, `CleanupFile`, `DropJournal`, `Release`, `Die`. The
atomic unit is one file-system effect that another process or a crash can
observe, with two exceptions where the intermediate states are covered
differently. Preparing a file is a backup copy and a temporary copy; a raise
between or inside them leaves the combinations `HalfPrepared` lists, and a
crash there is a raise followed by `Die`. Replaying an entry is a rename and an
unlink of the temporary; a raise before either is an alternative of `Restore`.
Every call that may raise has a failing alternative.

Loops over files visit them in any order. The code goes forwards or backwards
through distinct destinations, whose entries share no state, so any order is a
superset of the code's behaviours.

Abstractions that a reader should know: contents of different promotions are
taken to be different (if two processes stage the same bytes, restoring and
keeping coincide); a rename is atomic and a file read as present is read whole;
the journal is written whole or the write raises; PIDs are not reused.
`created_directories`, required directories, permissions, waiter files, the
sharing-violation case of `_release_lock` and the journal's own temporary are
left out.

### Abstract specification

`AtomicPromotion` has two variables, the content of each file and the decision
taken on each promotion, and two actions: `Apply`, which changes all files of a
promotion and commits it, and `Decline`, which changes none. `FileTransaction`
implements it with `content[f] <- Recovered(f)`, what `f` holds once the
pending journal has been replayed. Before the journal is written that is the
destination itself; from then on the old contents, while the destinations
change underneath; and when the journal is unlinked, the commit point of
`promote`, all new contents become visible at once.

### Runs

| Run | Instance | What it shows |
|---|---|---|
| `transaction_all` | 2 processes promoting the same 2 files and 1 `recover()`, `ExclusiveSpec` | types, `JournalReplayable`, `CleanEnd`, `OneHolder` and the refinement `Implements`, with failures of any call and death at any step, in the behaviours where no running process loses its lock to a reclaimer |
| `transaction_ends` | 2 processes, 1 file, `FairSpec` | every transaction that asks for the lock ends |

Two files are needed to see a promotion half done and one file failing while
another succeeds; two processes for a crash and its recovery, three for a
crash of the recovering process. The two promotions and the
files are interchangeable, which `SYMMETRY` uses where no liveness is checked
(2.9 million states). State is finite without any constraint. Deadlock is not
checked: a system all of whose transactions have ended has no step left except
deaths. The same holds of the other modules, whose bounds end every behaviour.

`CleanEnd`, `OneHolder` and the rest are conditional on `~stolen`: after a
theft two transactions run at once and nothing of this holds; see below. `ExclusiveSpec` leaves out the steps of a theft, so
in `transaction_all` the condition is always met.

`Fairness` assumes that a process neither killed nor waiting goes on (`WF` of
`Work`), and that one whose attempts to get the lock keep failing gives up
(`SF` of `GiveUp`): `_acquire_lock` compares the clock with its deadline after
every failed attempt, and the clock does not go back. Nothing is assumed of
`Begin`, of failures (`OpenFails`) and of `Die`.

### What the code does not keep

`MutualExclusion`: `_try_reclaim_stale_lock` decides on a lock file it has
read and then unlinks the path. Process 1 takes the lock and dies. Processes 2
and 3 both find its PID dead. Process 2 unlinks the lock and creates its own;
process 3 then unlinks that one and creates a third. Both are past
`_acquire_lock`. `registry-protocol-map.md`, line 33, knows the same race of the
ledger lock.

Observed while modelling: a promotion dies after writing its journal. `recover()`
reclaims the lock and creates its own, and writing the PID raises. `promote()`
releases the lock in that situation; `recover()` called `_acquire_lock` outside
its `try`, so the file stays, possibly empty. An empty lock file is never
considered stale.

### Proofs

`FileTransactionProofs` proves, for any sets of processes and files and any
assignment of files to promotions, under `ConstantsAssumption` (the marker
values are different from each other and from the processes):

* `TypeCorrect`: `Spec => []TypeOK`;
* `AlwaysReplayable`: `Spec => []JournalReplayable`;
* `HoldersExclude`: `Spec => []OneHolder`;
* `JournalKept`: `Spec => JournalNeverOverwritten`, no promotion writes its
  journal over that of an interrupted one;
* `EndsClean`: `Spec => []CleanEnd`;
* `PromotionIsAtomic`: `ExclusiveSpec => Implements`.

The inductive invariant of the first four and of the last is `TypeOK /\
JournalReplayable`. The latter says, as long as no lock was stolen, that every
process satisfies `Phase`, a conjunction by place in the code: a process between
`Sign` and `Release` holds the lock (`HoldsLock`); where the journal is absent
or its own (`JournalPhase`); what its loop still has to visit (`LoopPhase`); and
for every file of its promotion what destination, temporary and backup look like
(`CopyPhase`): `Prepared` before the rename, `Promoted` after it, `Undone` after
its rollback, `Settled` once replaying the entry would change nothing. None of
the theorems' formulas is inductive by itself: that a backup may be unlinked in
the clean-up depends on the rollback having visited its file, and that in turn
on no one else touching the disk. Everything `Phase(p)` says beyond `HoldsLock`
is about the lock holder, so a step of another process cannot disturb it
(`OthersUntouched`, `OthersOutside`), and each action needs a proof for its own
process only (`Phase*` lemmas). The refinement follows: each action leaves
`Recovered` alone, or is the step that applies or declines (`Step*` lemmas).

`EndsClean` needs more: as long as no lock was stolen, `Tidy(p)` for every
process that has reported no error and is not dead. Every temporary and every
backup of `p` is accounted for by its place in the code and by what its loop
still has to visit (`TempInUse`, `BackupInUse`), its output is seen only while
it may still be rolled back (`OutputShown`), and nobody has a backup of that
output: a rollback of another process would otherwise bring it back. This is
about the disk, which others change too; what they may do to it is `Footprint`,
from which `OthersTidy` follows, and that no two processes promote or recover at
once is taken from `JournalReplayable`. TLC checked `Tidy` as an invariant of
the instance of `transaction_all` before it was proved (2.9 million states).

Not proved, only model-checked: `EveryTransactionEnds`, whose liveness under
fairness is out of the prover's reach.

## 4. Enum numbers

### Model and code

`registry/enum_numbers.py` gives Protobuf numbers to the members of enum-backed
declarations and keeps them in `enum-numbers.lock`.

| Variable | Code |
|---|---|
| `source[d]` | the member lists of the versions of `d`, lowest first, as `_allocate_one` gets them |
| `ledger[d]` | the `EnumNumberAllocation` of `d`: `members` and `reservations`, each from names to numbers |
| `given[d]` | history only: every pair of a name and a number any compilation wrote for `d` |
| `lapsed` | history only: the declarations whose entry was dropped |

`Allocated` is the result of `_allocate_one`: the walk over the versions and
their members is the order `SeenBefore`, and a member without a number gets the
next free one plus its rank in that order (`Fresh`), which is what the loop's
counter adds up to. `Reintroduced` is the conflict that refuses a compilation,
`NextLedger` is `allocate_enum_numbers`. `Compile` is one step, because the ledger reaches
the workspace in the same promotion as the artifacts (`AtomicPromotion`), and a
refused compilation is no step, because it writes nothing.

Authors add a version or delete the latest one; between two compilations these
compose to any edit, `DeleteVersion` of the only version being the withdrawal
of the declaration. An absent entry and an empty one are the same value: the
code treats them alike and never writes an empty one. Version numbers, keys and
the text of the file are left out.

### Runs

| Run | Instance | What it shows |
|---|---|---|
| `enum_edits` | 1 declaration, 3 members, 2 versions, numbers up to 4, `Spec` | types, `LedgerUnambiguous`, `NumberNeverReused`, `LiveNumbersStable`, `RemovedStaysRemoved` over any series of edits and compilations |

Declarations do not influence one another except that a conflict of one refuses
the compilation of all, which makes fewer steps possible; one is enough. Two
versions are needed for a member that only an old one declares, three members
for two to be numbered in one walk after a third was removed, and a fourth
number for one member to be numbered twice. `MaxNumber` disables compilations
that would need a greater number. Members are interchangeable (`SYMMETRY`);
2.6 million states. `AdditiveSpec` is the policy the module's documentation
relies on, versions are only added; a theorem is about it.

### What the code does not keep

Three things were observed while modelling; they have no run of their own.

* Version 1 declares `a` and `b`, version 2 only `a`. The first compilation
  reserves 2 for `b`; each later one walks over version 1 again, finds `b`
  without a live number, gives it the next one and replaces the reservation.
  The number that was on the wire is no longer reserved in the ledger, and the
  ledger changes at every compilation of an unchanged source. That no *other*
  member gets the number (`NumberNeverReused`) still holds: the next number is
  above the greatest one in the entry, and a reservation is only replaced by a
  greater one.
* Compiling while a declaration is withdrawn drops its entry. Declared again, it
  starts from 1: with `NumberNeverReassigned` among the invariants of
  `EnumNumbers_edits.cfg` TLC shows it. `lapsed` names exactly these
  declarations: `NumberNeverReused` exempts them and no others, and
  `AdditiveNeverReassigned` proves that without withdrawals there are none.
* A projection names a version of its source, and `resolve_projection_numbers`
  looks its members up among the live ones. One that a later version removed is
  a reservation, and the look-up raises `KeyError`.

### Proofs

`EnumNumbersProofs` proves for any declarations, any finite set of members and
any bounds: `TypeCorrect`, `AlwaysUnambiguous`, `NeverReused`,
`LiveStable` and `RemovedForEver`, every property of `enum_edits`; besides,
`AllNumbered`, that a compilation leaves no member of any declared version
without a number, and `AdditiveNeverReassigned`, which is `NumberNeverReassigned`
under the hypothesis it needs.

The inductive invariant is `TypeOK /\ LedgerUnambiguous /\ AllAccounted`.
`NumberNeverReused` is not inductive: a number could be given again if the
ledger had forgotten it, and, as the first observation shows, the ledger
does forget. `AllAccounted` says why that is harmless: of a declaration that has not
lapsed, every pair ever given, those of the entry among them, has a number below
the entry's `NextNumber`. The heart is that one walk gives distinct numbers:
`SeenBefore` is a strict total order on the members seen (`SeenBeforeIsTotal`,
`SeenBeforeIsStrict`, `SeenBeforeIsTransitive`), so the sets of predecessors of
two members are properly nested and their cardinalities differ (`RankGrows`,
`FreshIsInjective`); all of them lie above what the entry holds (`FreshIsNew`).
From there `AllocatedUnambiguous` and `NextNumberGrows` follow by cases on a
number being old or new.

## 5. Browser persistence

### Model and code

`usePersistentWorkspace` keeps a workspace per tab, and
`IndexedDbWorkspaceRepository` one record for all.

| Variable | Code |
|---|---|
| `store` | the record: a workspace, one that cannot be parsed (`Invalid`, with or without a revision), or `Missing` |
| `page[t]` | the tab is not yet opened, open or closed |
| `workspace[t]`, `dirty[t]`, `phase[t]` | `workspaceRef`, `dirtyRef`, the phase shown to the user |
| `timer[t]` | the snapshot the debounce timer will save |
| `calls[t]` | the promises of `save`, `load` and `remove` under way, in the order asked, with their answers; `latest` stands for the sequence number of `save` |
| `inbox[t]` | revisions announced on the `BroadcastChannel` and not yet delivered |
| `edits` | a counter that makes every edit a content of its own |
| `kept`, `collided`, `clobbered` | history only; see below |

A call is asked (`Ask`, `Save`), performed in a transaction of its own
(`PerformSave`, `PerformLoad`, `PerformRemove`, each of which may fail), and
settled in the tab that asked (`SettleSaved`, `SettleUnsaved`, `SettleRestore`,
`SettleAdopt`, `SettleReset`). The calls of one tab use the same store, so
IndexedDB opens their connections, runs their transactions and delivers their
events in the order asked; those of different tabs interleave freely, and
between any two of these steps the user may edit, hide, retry, reset or close.
A save is one transaction that reads the record and writes. A closed tab's
calls are still performed; their answers reach nobody.

Contents are abstract: content 0 is the default workspace's, every edit makes
the next one. Announcements are a set: they may arrive in any order, one that
is repeated counts once. Left out: edits that apply a preview and take their
revision from the compiler's reply, React's delay between `setWorkspace` and the
shell's own reference, the second mount of strict mode in development, blocked
upgrades of the database.

### Runs

| Run | Instance | What it shows |
|---|---|---|
| `workspace_tabs` | 2 tabs, 2 edits or resets, 2 calls a tab, `Spec` | types, `SavedIsClean`, `UnsavedIsPending`, `SavedIsStoredUnlessLost` |
| `workspace_ends` | 2 tabs, 1 edit or reset, 2 calls a tab, `FairSpec` | `WaitingEnds` |

`SavedIsStored` says that what a tab shows as saved is the record, unless a
later revision or a reset under way replaced it. It holds of a tab alone, which
may be either of the two while the other is never opened. With several tabs it
fails in two ways, which the history variables name: `collided`, a stored
workspace was removed, or replaced by another of its own revision; `clobbered`,
a late load replaced unsaved or later work. `SavedIsStoredUnlessLost` shows that
there is no third way.

Two edits are needed for two tabs to edit the same revision, or for one to edit
while the save of the first edit is under way; two calls for a save to be
superseded while it is performed. `MaxRevision` is 1: the record at first is the
default's revision, a broken one with or without a revision, or missing; edits
raise it. Tabs are interchangeable (`SYMMETRY`, not used for liveness);
2.3 million states.

A workspace that the page holds is taken to be readable when it was stored.
`parseWorkspaceRecord` refuses a record with a key it does not know, and the
acceptance of a proposal without an action (`App.tsx`, 1223-1252) adds one,
`metadata`. The page does not get there: a proposal is shown as one only for a
*preview* reply (1027-1042), which the conversation always gives a
`change_set_id`, and the client always has `conversationApply`, so that the
branch before it is taken. `Unreadable` records are there from the beginning.

`FairSpec` assumes that IndexedDB answers every call, successfully or not, that
the event loop of an open tab delivers answers and announcements and fires
timers (`WF` of `Work(t)`), and that a page is not hidden and shown for ever:
every hiding of a dirty page asks for a further save, which supersedes the one
under way, so that *saving* need never end. Nothing is assumed of the user.

### What the code does not keep

The two ways in which work is lost, as TLC found them:

* `collided`: two clean tabs show revision N. Both edit. Both save N+1: the
  repository rejects a save only when the stored revision is strictly greater,
  so the second replaces the first. The announcement of N+1 is ignored by the
  tab that is at N+1 itself. Both show *saved*; one edit is gone.
* `clobbered`: `applyLoadResult` does not compare. After a failed load, the user
  resets and then retries (the tab is clean, so that the retry loads); the reset
  makes unsaved work, the answer to the retry replaces it.

### Proofs

`PersistentWorkspaceProofs` proves for any set of tabs and any bounds:
`TypeCorrect`, `SavedAlwaysClean` (`Spec => []SavedIsClean`),
`UnsavedAlwaysPending` (`Spec => []UnsavedIsPending`) and
`SavedAlwaysStoredUnlessLost` (`Spec => []SavedIsStoredUnlessLost`). The
assumption is `ConstantsAssumption`: the markers `Missing`, `Unset` and `Failed`
are different from each other and from the records, no answer of a save or a
removal is `Unset` or `Failed`, and unreadable content is not that of an edit.

The inductive invariant of the first three is `TypeOK /\ \A t : TabOK(t)`.
`TabOK` says of an open tab that *saved* means clean, that unsaved work is in
the timer, in the latest save under way, or reported, and, the strengthening,
that if the tab has unsaved work and its timer runs, the timer holds that very
work: otherwise the timer, firing, could supersede the save that carries the
work by one that does not. A call that is settled is the head of the queue; when
it was the latest save and speaks for the tab the work is no longer unsaved, and
when it does not, the work is elsewhere (`TailCarries`); asking for a save
supersedes the others but carries the work itself (`WithSaveCarries`). A step of
one tab leaves `TabOK` of another alone (`SameTab`), so each action has a lemma
about its own tab.

That a tab that says *saved* is stored relates the tab to the record and to
everything asked in between. `WholeInv` adds three parts to the invariant:

* `TabKept`: whatever a call saved or loaded was stored at some time, and unless
  a late load replaced work (`clobbered`), the latest save and the timer are no
  later than the work, or the work is stored in their place (`NoLater`). So what
  is shown as saved was stored.
* `RecordKept`: the record was stored, and unless a save or removal took it away
  (`collided`), it is the latest of everything that was.
* `LoneTab`: for a tab that is alone, which may not lose anything at all. Its
  queue tells what became of the record (`Effects`): there is one restore at
  most, the latest save is the last one, a restore that is still to be applied
  finds no work to replace (`Harmless`), and while there is no unsaved work
  nothing but that work is saved (`Idle`). What is shown as saved is then the
  record, unless the answer to a removal is under way (`Shown`).

None of this is inductive without `NewTab`, that a tab not yet opened has asked
nothing. The lemmas are in three layers: what a queue of calls is after one is
asked, answered or settled (`Grown`, `Marked`, `Shrunk`), of values only; what
each action makes of its tab (`*Moves`); and that each part of `WholeInv` is
kept. TLC checked the invariant first: with one tab, five calls and four edits
(12.5 million states), and with two tabs and the run's bounds (2.3 million).

Only model-checked: `WaitingEnds`, whose liveness is out of the prover's reach.

## 6. Compilations that share a workspace

### Model and code

A process of `Compilation` is one compilation: a direct one (`execute_direct`),
or one of a conversation (`preview`, then `apply` or `discard`), a member of
`Conversations`. Several of them share the source files, the two ledgers and the
output; `"output"` stands for artifacts, plans and the local registry, which are
one result of one run.

| Variable | Code |
|---|---|
| `source` | the `.mdl` files, as far as ledgers depend on them: the registered names and the enum members by version |
| `disk`, `journal` | the destination files, and their contents before the promotion in flight (`compilation.journal` with its backups) |
| `ws` | who holds `compilation.lock` |
| `lock[l]`, `signed` | the lock files of the two ledgers, and whether the PID is in them |
| `holds[p]` | `_owned` of the `RegistryIdLock` objects of `p` |
| `staging[p]` | the files in the staging directory |
| `seen[p]` | what a preview keeps for its confirmation: `input_fingerprint`, `registry_ids_before`, `before_hash` of each file |
| `todo[p]` | files a loop has yet to visit |
| `result[p]` | the outcome reported |
| `stolen`, `caught` | history only; see below |

`LockSteps` follow `RegistryIdLock`: creating the file, writing the PID, judging
it stale, unlinking it, giving up, releasing. Both ledgers' locks are this
class; a direct compilation takes that of the IDs and then that of the enum
numbers, an apply that of the IDs only. `Recover`, `CopyLedgers`, `Run`,
`BeginPromotion`, `Replace`, `Commit` and `PromotionFails` are the steps of
`_execute_direct_staged`; a preview goes through `Fingerprint`, `ReadIds`,
`CopyIds`, `CopyEnums`, `Run` and `ReadDestination`, once for each file, with no
lock in between, and waits in `"pending"` for the user. `Check` and `Validated`
are the two verifications of `apply`, before and under the workspace lock.
`PromotionFails` leaves any of the files replaced, put back or not; a journal
stays if one of them is not. `Die` may happen at every place. Destinations are
read and replaced in the order of the code (`InOrder`): the enum numbers before
the IDs, by their names, and the output of a direct compilation last
(`promotion_order`). The output of a preview is many files that sort before,
between and behind the ledgers; it is taken as one that comes anywhere.

`SourceKept` looks for the files the preview knew: a file added since is not
noticed. `Additions` says which texts differ from which by added files only. A
workspace begins new or compiled once from a text of `Earlier` (`Workspaces`).

`Compiled` is what a run makes of source and ledgers: `AllocatedIds` gives a new
name the next number in the names' order, `EnumNumbers` gives the members
theirs, and the output records the ledgers it was generated from.

Left out: the audit record (a file of its own name in the promotion of an
apply), changed symbolic links, somebody else's changes to a staging directory,
lock files that cannot be unlinked, remote registries, to which `_run_compilation`
pushes before the promotion.

### Runs

| Run | Instance | What it shows |
|---|---|---|
| `compile_all` | 1 direct compilation, 1 conversation, 3 texts, 2 edits, 1 death, a workspace that is new or compiled once | types, `OutputMatchesLedgers`, `AppliedOverShown`, `NoLockCycle`, `ChangesAreReported`, `IdsKept` |
| `compile_enums` | the same two, 3 texts, 1 edit, the same workspaces | violation of `EnumNumbersKept` |

The three texts of `compile_all` differ by a registered name that sorts before
the other, in a file of its own, and by an enum member declared before the other: compiled apart from one another they
give one name, or one member, different numbers, so that a lost ledger shows.
Two edits let the source change and change back while a preview is pending. One
of the two may die anywhere; 3 million states. That more compilations at once
do not break the properties is proved, below.

`IdsKept` has two exceptions, and each of them is needed:

* `stolen`: a running process has lost its ledger lock, to a reclaimer that
  judged the lock before it was created anew, or to the release of somebody who
  had lost it, for `__exit__` unlinks the path whoever created it. Three direct
  compilations, one of which dies, then give one name two IDs.
* `caught`: a preview read the IDs for its comparison (`registry_ids_before`)
  from a promotion that was undone before it read them again for its staging
  directory. What it stages does not extend what it will be compared with; if a
  later compilation publishes those very IDs, the confirmation passes. Two
  direct compilations, a conversation and three edits are needed.

A preview of one text may carry another: the fingerprint is taken before
`_run_compilation` reads the sources again, and a text that is put back before
the confirmation compares equal. The user then confirms differences that no
present source explains. The properties speak of contents that were shown, not
of the text they come from, and hold all the same.

### What the code does not keep

`compile_enums`: the confirmation compares the IDs the preview copied with those
in place, but not the enum numbers. The workspace has been compiled, so that its
IDs are allocated, and an enum has gained a member *b*. A direct compilation has
compiled that text. The author declares a further member before the others and
asks for a preview, which copies both ledgers; now the direct compilation
promotes, replacing the enum numbers, then the IDs by the same IDs, then the
output, and commits, so that *b* has its number. The preview compiles over its
copies, in which *b* has none, gives *b* another number, and takes the hashes of
the destinations, among them that of the ledger just committed; the user
confirms. Both verifications pass, for the IDs are those the preview copied, and
the promotion puts a ledger in place that never knew the number given in between.
`registry-protocol-map.md`, line 31, asks this question.

### Proofs

`CompilationProofs` proves for any set of processes and conversations, any
texts, any number of edits and deaths: `TypeCorrect`, `LocksNeverCycle`,
`OutputAlwaysMatches`, `AppliedAlwaysShown`, `ChangesAlwaysReported` and
`IdsAlwaysKept`, all properties of `compile_all`.

The assumptions are `ConstantsAssumption` only: that `None` is no process, that
conversations are processes and the other constants sets of texts. The argument has three layers.

* `PlaceInv`: which locks a process owns at each place of the code
  (`LockPhase`), and that whoever has the workspace lock is in a promotion or
  died in one. So who waits for the workspace waits for somebody who waits for
  nobody, and in a circle of waiters for ledgers somebody would have to own the
  ID ledger and want it (`LocksNeverCycle`).
* `WorkInv`: what is staged is a complete result (`Built`, `Matches`), and in a
  promotion the files visited are the staged ones and the others are the
  journal's (`HalfDone`). Hence only a commit changes `Settled`
  (`OnlyCommitSettles`), by what was staged (`CommitSettles`), and three theorems
  follow.
* `IdsInv`: as long as nothing was stolen or caught, the IDs a process has staged
  extend those it will replace. A direct compilation has them from the files
  themselves, which nobody else may change while it owns the ID ledger
  (`GuardedAlone`, `FilesGuarded`); a preview has them from the files at an
  earlier time, which have only grown since (`DiskIdsGrow`), and an apply goes on
  only if they are in place again (`Check`). `AppliedOverShown` ties the second
  verification to the first. None of this is inductive without
  `HolderPhase`, that the lock file is its owner's.

Lemmas on the operators: `AllocationExtends`, `CompiledMatches`, `SightUpdates`.
The liveness of waiting (every process gives up at its deadline) is that of
`FileTransaction` and is not repeated here.

## 7. The playground: page and compiler

### Model and code

| Variable | Code |
|---|---|
| `page` | `workspaceRef`: a revision and a text, which stands for all files |
| `phase`, `loading` | the phase of the persistent workspace; the stored record has been asked for and not yet arrived |
| `runtime` | `runtimeState`: loading, ready, working or failed |
| `shown`, `artifacts` | the text that the diagnostics are about, and whether an operation has put a part in their place (`partial`); the text of the current artifacts |
| `card` | the assistant's preview with its Accept button |
| `control` | `BrowserLanguageServiceController`: observed workspace, accepted revision, opening in flight, loops of `synchronize` that wait, timer, the refused revision with its offer to retry |
| `worker`, `calls` | the client's terminal state, and its requests with their answers, in order |
| `comp`, `pending` | the workspace of the Python API, and the pending preview of its session |
| `reused`, `late` | history only; see below |

`User` actions send calls, the `Compiler` answers them in order, `Page` actions
take the answers; between any two of them the page may be edited, restored,
adopted from another tab, the worker may stop, and the page may be put away and
come back. A text stands for its files, diagnostics and artifacts. Each answer
is guarded as in the code: by the page's revision (`Latest`), the controller's
(`Delivered`), the compiler's (`Opened`, `Current`), or not at all.

An operation replaces what is shown by less: Format answers the diagnostics of
the active file (`App.tsx`, 577-583), a compilation those of loading the files,
an accepted compilation none (`App.tsx`, 1187). Such a report is `Partial`;
that of an opening is `Full`.

Operations are one at a time (`operationPendingRef`), openings too (the
controller waits), but nothing else is: every provider of the editor asks on its
own, and a turn may follow another that is not answered, for `/reset` ends the
wait for it.

### Runs

| Run | Instance | What it shows |
|---|---|---|
| `client_all` | 2 texts, revisions up to 2, one call beside an opening, one failure, `FairSpec` | types, `ResultsMatchText`, `AnswersMatchText`, `AppliedOverPreviewed`, `Synchronizes` |

Two revisions suffice for an answer about an earlier one and for a confirmed
preview to use the number of an edit; an opening and one more call for every
pair of messages that can overtake an edit. 1.4 million states. Questions do not
change the compiler, so that several of them meet nothing that one does not; the
safety properties were nevertheless checked by hand with two calls of any kinds
beside the opening and no failure (2.3 million states).

`FairSpec` assumes that page and worker do not both sit on messages for ever,
and that the timer of the pause after an edit fires. The browser's event loops
do both. Nothing is assumed of the user, who may keep asking, and of failures.

The two histories name what the code lets happen, and what the properties hold
outside of:

* `reused`: one revision number has stood for two texts. The page may take a
  workspace of a revision no greater than the last it had shown to the compiler:
  when `initialized` comes before the stored record does, the demo is opened as
  revision 1 (`App.tsx`, 441-448), and a record of revision 1 arrives after it;
  the compiler refuses to open it, or the diagnostics are not shown again. Or
  the compiler carries out a preview that the user confirms by typing: a turn
  that says "apply it" applies the pending change in the compiler, and the page,
  which expects an explanation, stays as it was (`App.tsx`, 1027-1078).
* `late`: the compilation of an accepted card is published under the page's
  revision at the answer, not at the click (`App.tsx`, 1183-1190), so that an
  edit in between makes artifacts of the earlier text current.

`Synchronizes` says that no operation runs for ever, and that the page comes to
show what the compiler says of its text: all of it, or what the last operation
has put in its place. It also excepts `Overtaken`: after a confirmed preview and an edit
meanwhile, page and compiler give one number to two texts, and the compiler
refuses the page's until the next edit.

### What the code does not keep

`EditNotOverwritten`: the user presses Accept and goes on typing; the answer
replaces the page's text by the confirmed one, and the typing is gone and saved
over (`playground-design.md`, line 280: "Silent overwrites are prohibited.").
Every other path compares revisions first.

`/reset` of the assistant never reaches the compiler. `App.tsx` (1099-1103)
takes `conversationReset` off the client and calls it as a function; the
client's method (`client.ts`, 476) then has no `this`, and its promise rejects.
The test of it (`App.test.tsx`, 2263) passes a plain function in place of the
client's. It is a wrong call rather than a wrong order of events, so that no
property states it: the model has no such call, and turns that do not wait for
each other.

### Proofs

`CompilerClientProofs` proves for any texts and any bounds: `TypeCorrect`,
`ResultsAlwaysMatch` (`Spec => []ResultsMatchText`), `AnswersAlwaysMatch`
(`Spec => AnswersMatchText`) and `AppliedAlwaysPreviewed`
(`Spec => AppliedOverPreviewed`), all safety properties of `client_all`. The
assumptions are `ConstantsAssumption`, the bounds' types and that the demo is a
text, and `NoneAssumption`, that `None` is no text, action or answer.

The inductive invariant `IInv` has three parts, and each action a lemma for each
of the first two (`*Typed`, `*Ordered`):

* `ITyped`: calls are answered from the first to the last (`IsQueue`), two calls
  of a kind that excludes itself are not in flight together (`NoRivals`), a
  preview that is pending was made from what the compiler has (`Grounded`), and a
  compiler whose page is not yet observed has nothing (`Fresh`). `TypeCorrect`
  follows from it: at most one opening and one operation are in flight.
* `Ordered`, as long as no revision was `reused`: what the page has is at least
  as new as what any call in the queue is about (`UpTo`), but for the changes the
  compiler has made and the page has not taken over yet (`Ahead`). It is said of
  every call by its kind (`InOrder`), of the compiler (`Heard`) and of what the
  controller knows (`Followers`). An answer that the page's guards let through is
  then about the page's very text. For `AppliedOverPreviewed` it also says that a
  card accepted over another text than its own fails in the compiler
  (`Bad`, `Hopeless`).
* `ResultsMatchText` itself: the other two are needed for the steps that
  deliver an answer.

Only model-checked: `Synchronizes`, whose liveness is out of the prover's reach.

## 8. Conversations and the workspace editor

### Model and code

| Variable | Code |
|---|---|
| `source` | the `.mdl` files; a file is the set of changes it contains |
| `staged` | the staging directories on the disk |
| `pc[s]` | where the turn of session `s` is: being planned, planned again, repaired, put into words, applying |
| `ws[s]` | `FilesystemConversationBackend.workspace`, as loaded |
| `pending[s]`, `claimed[s]` | the pending action of the host, and the engine's own (`ConversationSession.pending_action`) |
| `backlog[s]` | `_cleanup_backlog` |
| `todo[s]`, `originals[s]`, `replaced[s]` | the loops and lists of `WorkspaceEditor.apply` |
| `shown[s]`, `wanted[s]` | history: what the user was shown, newest first, and asked to apply |
| `left`, `disturbed` | history; see below |

A session is a chat in a terminal, a process of its own, or one of those that
the language server owns (`Served`), which answers one request at a time and
survives exceptions. The provider's answers are nondeterministic: a plan, an
invalid plan, a clarification, an error. Actions that are nested calls in the
code are one step where no other actor can see between them; every file that is
read for its fingerprint, copied, replaced or put back, the reload, and the
promotion of a compilation are steps of their own. The model refuses at the
first file that differs or cannot be read, the code when it has read them all.

Failures that an operating system may report (a directory that cannot be
removed, a write that raises), deaths and the saves of the author are counted by
`mishaps`. Left out: temporary files that cannot be unlinked; documents with
unsaved changes, for which the server refuses; documentation replies, the
focused definition, the history and `reset`, which change no action; the second
preview of an apply, which is computed from the session's own workspace and
compares equal; an interrupt from the keyboard within the loops of an apply
(`except Exception`, 495, does not catch it: nothing is put back), which is
counted with the deaths; the browser's host, which `CompilerClient` has.

### Runs

| Run | Instance | What it shows |
|---|---|---|
| `conversation_all` | a chat and a served session, 2 files, 1 change of both, 2 staging directories, 2 mishaps | types, `StagingTracked`, `AppliedIsWanted`, `ChangesAreWhole`, `EditsKept` |

Two sessions of different processes are needed for two applies at once, two
files for a change half made (numbered, for they are written in the order of
their paths and put back in the reverse order), two directories for one to replace the other, two
mishaps for an author's save and a failing apply, and for a replacement both of
whose directories stay. 2.9 million states.

`disturbed` names what `ChangesAreWhole` and `EditsKept` do not cover: a death
in the middle of an apply, for which there is no journal; a file that cannot be
put back, which the reply names; a write by somebody else to a file of the change
between the moment it is read for its fingerprint and the end of the apply, for
there is no lock. `left` holds the
directories whose owner could not remove them and has said so, or died.

No liveness is stated: a turn waits for a provider and the user, and everything
between is a bounded loop. A session of the server that has expired and cannot
remove its directory is kept and blocks the next request of every other session
until it can (`conversation_service.py`, 437): observed, not stated.

### Proofs

`ConversationProofs` proves the five properties of the run for any
conversations, plans and files, and any number of directories and mishaps. The
assumptions are that of typing (`ConstantsAssumption`: files are numbers, a plan
changes at least one file, since a `ChangeSetPlan` has at least one operation and
every operation marks a path) and that "nothing pending" is no action
(`NoneAssumption`).

The steps fall into four groups: those that leave the directories alone
(`Talks`), those that make or remove them (`Keeps`), the editor's (`Edits`) and a
death. Each leaves what is private to the other conversations alone, so every
invariant is a statement about one conversation, and the shared sources and
directories are what is left to argue about.

* `TInv` is `TypeOK` and, of every conversation, `Sound`: the pending directory
  was made; the pending action is the one on the screen; a conversation in the
  editor holds a change; `todo`, `originals` and `replaced` agree on how far it
  is. `TypeOK` alone is not inductive: that a file is put back from a copy needs
  that all were copied before the first was replaced. `AppliedIsWanted` follows
  step by step.
* `StagingTracked` is inductive over `TInv`: what a step stops tracking it has
  removed or given up (`Accounts`).
* `CInv` says that, while nobody is disturbed, the files an apply has read for its
  check are still those the change was computed from. It is inductive over
  `TInv`, and makes the end of the check what the check at one instant would be.
* `SInv` adds the sources. A pending change is not in the sources it was computed
  from (`Fresh`); and while nobody is disturbed, the files of every running apply
  are the base with the change in exactly the replaced ones, its copies are the
  base (`Kept`), and every plan is whole. The two write steps then add their own
  plan to a file or take it out, and no other apply concerns that file
  (`WriteEffect`), which gives `ChangesAreWhole` and `EditsKept` together.

### What the code does not keep

`FreshPreview`: a session loads the sources when it opens and after
applies of its own. Once the author has saved one of them, or another session
has applied something, each further preview is computed from the old text and
refused when it is applied: the fresh preview that the documentation asks for
cannot be had in this session.

## 9. The registry snapshot

### Model and code

| Variable | Code |
|---|---|
| `text` | the source file, as far as the registry records it: the identities declared and the signature of each |
| `doc` | the lifecycle document: the state of each identity, 1 to 4 for candidate to retired |
| `lock` | `registry.lock`: its `objects` and its `lifecycle` |
| `store` | `registry/objects/*.json`: which objects have a file, and whether it is complete |
| `pc[p]`, `job[p]` | where a command is, and its local variables: `uses` (`--lifecycle` was given), `prior` (lifecycle of the lock it has read), `objs` (its entries), `todo` and `now` (its loop), `added` (`new_objects`) |
| `found[p]`, `swapped` | history: lock and store when the command began; the document was changed between the two times an update reads it |

`resolve` is `Start`, `Open`, `WriteObject` for every declaration,
`CheckIdentities`, `TakeLifecycle`, `Install`. `update` does the same in a
directory of its own, where there is no lock, after comparing the document with
the real lock (`CheckInput`); then it verifies the candidate
(`VerifyCandidate`), compares signatures with the real lock
(`CheckIdentities`), and copies the objects the store does not have
(`ChooseCopy`, `CreateCopy`, `FillCopy`: `shutil.copyfile` creates the file
before it has written it) and the lock (`Install`). An exception in this part
goes through `TakeBack`, `UnlinkCopy`, `TakenBack`; so does a Ctrl-C that is
raised when the `os.replace` of the lock returns, inside the same `try`
(`InterruptedLate`, counted with the kills by `MaxKills`). `prune` is
`VerifySnapshot`, `ListUnreachable`, `Unlink`, `Pruned`. Every call may raise
(`Raise`), and a command may be killed anywhere (`Kill`). An object is its
identity, its signature and the text of the file it was in, for these are what
its content hash covers.

### Runs

| Run | Instance | What it shows |
|---|---|---|
| `registry_one` | 1 process, 3 commands, 2 edits, 1 kill | types, `LockBackedUnlessKilled`, `ResolveRestores`, `FailureLeavesNoTrace`, `IdentityKept`, `LifecycleForward` |
| `registry_torn` | as `registry_one` | violation of `LockedFilesWhole` |

Three commands are one that makes a lock, one that fails or is killed, and one
that meets what the second has left. The three texts are one version, two, and
one version of other content; the four documents let a state stay, go on by one
step, by more than one, and be removed. 2.4 million states.
`LockBackedUnlessKilled` and `FailureLeavesNoTrace` except commands that are
killed or interrupted late; `ResolveRestores` does not: whatever is there, the
lock that `resolve` writes, be it equal to the one it replaces, names complete
objects. No liveness is
stated: a command is a bounded sequence of calls that waits for nobody.

Two consequences of the checks are not disagreements with the documentation but
may surprise: `update` compares the document with the identities of the
*existing* lock first, so that a document that gives a new version its state is
refused until the version is locked without one; and an identity that has a
lifecycle state can be withdrawn only by a command that is not given
`--lifecycle`, which `resolve` refuses.

### What the code does not keep

* `LifecycleNotDropped`: `update` without `--lifecycle` installs a lock without
  lifecycle. The documentation says both that the lock "rejects identity removal
  or backward state transitions" and, in the next sentence, that lifecycle
  entries "are absent unless `--lifecycle` is explicitly supplied"
  (`cli-reference.md`, 1824-1826); `resolve` takes the first to cover this case
  and refuses, `update` does not look.
* `registry_torn`: an update that is killed leaves a file with the name of an
  object and a part of its content. The next update finds the name and locks it.
  `resolve` would have replaced the file (`ResolveRestores`).
* `LockedFilesThere`: an update interrupted (Ctrl-C) while `os.replace` puts the
  new lock in place gets the exception when the call returns (`snapshot.py`,
  1229), and its handler (1230-1234) unlinks the objects that this lock names.
  `resolve` writes them again (`ResolveRestores`).
* `IdentityKept`, with two processes: two commands that compare their candidates with the same lock
  install them one after the other.
* `PruneSparesLocked`, with two processes: what was unreachable when `prune` read the lock is locked by
  the time it is unlinked.

### Proofs

`RegistrySnapshotProofs` proves, for any texts, documents and bounds:
`TypeInvariant` for any number of processes, and for a single one
`LockBackedAlways`, `ResolveRestoresAlways`, `FailureLeavesNoTraceAlways`,
`IdentityKeptAlways` and `LifecycleForwardAlways`. The hypothesis `OneProcess`
(`Procs = {p}`) is needed: the previous paragraph shows what two do. Everything else that may come between two steps, edits of either file,
failures, kills and late interrupts, is in the proof.

The types are `ITyped`, which strengthens `TypeOK` by what a job holds at each
place: a candidate has one object for each identity done, and its lifecycle
document knows no others. `IInv` adds, for the command that runs, `Safe(p)`:
which command can be where (`Placed`); that what it read of the lock is still so
and what it compared still holds (`PriorCurrent`, `DocCompared`, `Compared`);
that what it has written or copied is whole, and that what it would take back or
prune is not locked (`WrittenWhole`, `Copied`, `Unreachable`); and that the store
is the one it has found plus the files it has noted (`FoundKept`, with `Traced`).
That a copy is noted before it begins is what `FailureLeavesNoTrace` rests on.
None of this is inductive without the others: whether the lock is backed after
`Install` depends on the copies, and those on what a roll-back unlinks.

## 10. Selecting a version

### Model and code

The state is the set of published versions of one model, each breaking or not;
the action is that an author publishes one more, after or between those there
are. The two resolvers are operators on it: `CompilerSelects`
(`resolve_model_ref`, `resolve_ref_type`) and `LockSelects`
(`_format_dependency`, `_resolve_dependency_entry`), for references without a
version, with a lower bound, a range, an exact version and a pinned one.

### Runs

| Run | Instance | What it shows |
|---|---|---|
| `version_all` | versions and bounds 0 to 4 | `LockAgrees`, `MovesForwardSafely` |

Five versions leave room for two matching versions, a breaking one between them,
and one outside the range on either side. 243 states, every one compared for
every reference. `LockAgrees` excepts references without a version to a model
that has a version 0: the compiler reads them as "1 or more", the lock as
"latest", and the lock then counts breaking changes from version 0.

### What the code does not keep

* `PinnedLockAgrees`: a pinned hash is compared with the signature by the compiler
  and with the content hash of the object by the lock. No hash satisfies both.
* `BreakingNotSelected`: a breaking change counts only after the lower bound. With
  `@ >=2` version 2 is selected although it is breaking, which is perhaps what
  its author means, but not what the sentence in `language-reference.md` says.

### Proofs

`VersionSelectionProofs` proves `TypeInvariant`, `LockAlwaysAgrees`,
`MovesForwardAlways` and `StaysRefusedAlways` (a range refused because of a
breaking change stays refused) for every `MaxVersion`. A set of
versions is finite, so that it has a greatest and, for references without a
version, a least element (`MinExists`, `MaxExists`). `LockAlwaysAgrees` then compares breaking
changes counted from 1 with those counted from the least version; for the other
two, a version published in between can only raise the greatest match and can
only add a breaking change, never take one away.

## 11. Disagreements without a run

Two disagreements of code and documentation have a run of their own
(`compile_enums`, `registry_torn`). The others are stated as properties at the
end of their modules, no run checks them, and TLC finds each violated when it is
put into the configuration named here:

| Property | Configuration |
|---|---|
| `FileTransaction!MutualExclusion` | `transaction_all` with `Spec`, one file, and three processes that promote it |
| `CompilerClient!EditNotOverwritten` | `client_all` with `Spec` |
| `Conversation!FreshPreview` | `conversation_all` |
| `RegistrySnapshot!LifecycleNotDropped` and `LockedFilesThere` | `registry_one` |
| `RegistrySnapshot!IdentityKept` | `registry_one` with two processes, the texts `Rivals` and the document `OneDoc` |
| `RegistrySnapshot!PruneSparesLocked` | the same |
| `VersionSelection!PinnedLockAgrees` and `BreakingNotSelected` | `version_all` |
| `EnumNumbers!NumberNeverReassigned` | `enum_edits` |

## 12. How to read the mutants

`PROJECT.json` pairs every property of a passing run with a defect: a variant
of one definition (dropped guard, forgotten case, exchanged paths), used by
nothing else. They stand in the section *Defects* of `FileTransaction` and
shortly before the definition they vary in the other modules. With the variant
in place of the definition TLC finds the property violated, which shows that
the property does depend on that part of the code.

## 13. Not modelled

* The language front end, emitters, compatibility, planning, refactorings and
  documentation retrieval are functions of their input. What they compute is a
  matter of large data and text, for which the repository's golden tests are the
  better tool; no order of events changes it.
* Of the registry: the SQLite index, which is rebuilt from the snapshot, remote
  registries, which are commands of another program, and the parts of a lock
  that are computed from its objects (requirements, usage, packages, pins).
* The extension host runs one request at a time over a pipe.
* Handlers of the language server other than conversations run one after
  another over a workspace in memory.
* Beyond TLC and TLAPS: liveness under fairness is model-checked only; what the
  allocations compute for every input is not proved by induction, but from
  cardinalities and maxima, with no recursion.
