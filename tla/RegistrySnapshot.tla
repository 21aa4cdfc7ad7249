-------------------------- MODULE RegistrySnapshot --------------------------
(***************************************************************************)
(* registry/snapshot.py: a directory with a lock, the set of exact objects *)
(* of the registry, and a content-addressed object store, and the commands *)
(* that change it: resolve, update and prune.  No command excludes another *)
(* one.  Meanwhile the author edits the source and the lifecycle document  *)
(* (lifecycle.py) that a command may be given.                             *)
(*                                                                         *)
(* The content hash of an object covers its declaration and the hash of    *)
(* the source file, so that an object is the triple of its identity, its   *)
(* signature and its source text.  One file holds the source.              *)
(*                                                                         *)
(* A command reads the source once (`text' of its job); the objects record *)
(* the hash the file has when each of them is written.                     *)
(*                                                                         *)
(* Left out: what else a lock records (requirements, see VersionSelection, *)
(* usage, packages, extension pins, allocations), refused or accepted like *)
(* the rest of a candidate; diff and --dry-run, which change nothing; a    *)
(* retained candidate, which nothing reads; an unlink that fails, or is    *)
(* interrupted, while an update takes back its copies; and a file          *)
(* re-created by one process while another writes to the unlinked one.     *)
(***************************************************************************)
EXTENDS Naturals, FiniteSets, Functions

CONSTANTS
    Procs,     \* processes that run one command after another
    Texts,     \* contents of the source: [identity -> signature]
    Docs,      \* contents of the lifecycle document: [identity -> state]
    MaxRuns,   \* bound: commands started
    MaxEdits,  \* bound: edits of the source and of the document
    MaxKills,  \* bound: commands killed or interrupted too late
    None       \* no lock, no lifecycle

\* A state of a declaration is its place in candidate, published, deprecated,
\* retired (LifecycleState).
States == 1..4

ASSUME ConstantsAssumption ==
    /\ \A t \in Texts : IsFiniteSet(DOMAIN t)
    /\ \A d \in Docs : Range(d) \subseteq States
    /\ {MaxRuns, MaxEdits, MaxKills} \subseteq Nat

VARIABLES
    text,     \* what the source file says
    doc,      \* what the lifecycle document says
    edits,    \* how often either was edited
    lock,     \* registry.lock: [objects, lifecycle], or None
    store,    \* the object files: [object -> "whole" or "torn"]
    pc,       \* pc[p]: where p is in its command
    job,      \* job[p]: the local variables of the command
    runs,     \* commands started
    kills,    \* commands killed, and updates interrupted too late
    found,    \* history: found[p], lock and store when p's command started
    swapped   \* history: the document changed between an update's two reads

files == <<text, doc, edits>>
control == <<runs, kills, found>>
vars == <<files, lock, store, pc, job, control, swapped>>

Commands == {"resolve", "update", "prune"}

Blank == [cmd |-> "prune", uses |-> FALSE, text |-> None, prior |-> None,
          objs |-> {}, lifecycle |-> None, todo |-> {}, now |-> None, added |-> {}]

Init ==
    /\ text \in Texts
    /\ doc \in Docs
    /\ edits = 0
    /\ lock = None
    /\ store = [o \in {} |-> "whole"]
    /\ pc = [p \in Procs |-> "idle"]
    /\ job = [p \in Procs |-> Blank]
    /\ runs = 0
    /\ kills = 0
    /\ found = [p \in Procs |-> [lock |-> None, store |-> store]]
    /\ swapped = FALSE

\* _load_lock_entries; a missing lock has none.
Entries == IF lock = None THEN {} ELSE lock.objects
Lifecycle == IF lock = None THEN None ELSE lock.lifecycle

Identities(objs) == {o.id : o \in objs}

Goto(p, label) == pc' = [pc EXCEPT ![p] = label]

\* The store with a file written, and with one removed.
Put(o, how) == [x \in DOMAIN store \cup {o} |-> IF x = o THEN how ELSE store[x]]
Without(o) == Restrict(store, DOMAIN store \ {o})

-----------------------------------------------------------------------------
(* What a candidate must satisfy.                                          *)

(* Defects that an edit of this code could introduce, here and below.      *)
(* Each is a variant of the definition its comment names, and is used by   *)
(* nothing.                                                                *)
UpdateAccepts(p) ==                 \* SignaturesKept: left to resolve
    job[p].cmd = "resolve" =>
        \A old \in Entries, new \in job[p].objs : old.id = new.id => old.sig = new.sig

StatesAllowed(new, old, objs) ==    \* LifecycleAllowed: identities unchecked
    old # None =>
        /\ DOMAIN old \subseteq DOMAIN new
        /\ \A id \in DOMAIN old : new[id] \in {old[id], old[id] + 1}

ForwardAllowed(new, old, objs) ==   \* LifecycleAllowed: a state may be skipped
    /\ DOMAIN new \subseteq Identities(objs)
    /\ old # None =>
          /\ DOMAIN old \subseteq DOMAIN new
          /\ \A id \in DOMAIN old : new[id] >= old[id]

\* _reject_mutable_identity_replacements, against the lock there is now.
SignaturesKept(p) ==
    \A old \in Entries, new \in job[p].objs : old.id = new.id => old.sig = new.sig

\* _validate_lifecycle_snapshot: known identities, none removed, every state
\* where it was or one step on.
LifecycleAllowed(new, old, objs) ==
    /\ DOMAIN new \subseteq Identities(objs)
    /\ old # None =>
          /\ DOMAIN old \subseteq DOMAIN new
          /\ \A id \in DOMAIN old : new[id] \in {old[id], old[id] + 1}

-----------------------------------------------------------------------------
(* Building a candidate: in place by resolve, in a directory of its own by *)
(* update.                                                                 *)

Start(p) ==
    /\ pc[p] = "idle"
    /\ runs < MaxRuns
    /\ runs' = runs + 1
    /\ \E c \in Commands, u \in BOOLEAN :
          /\ c = "prune" => ~u
          /\ job' = [job EXCEPT ![p] = [Blank EXCEPT !.cmd = c, !.uses = u,
                                                     !.text = text]]
          /\ Goto(p, IF c = "prune" THEN "verify" ELSE "open")
    /\ found' = [found EXCEPT ![p] = [lock |-> lock, store |-> store]]
    /\ UNCHANGED <<files, lock, store, kills, swapped>>

\* The existing lock is read, after the workspace.
Open(p) ==
    /\ pc[p] = "open"
    /\ job' = [job EXCEPT ![p].prior = Lifecycle, ![p].todo = DOMAIN job[p].text]
    /\ Goto(p, IF job[p].cmd = "update" THEN "check" ELSE "write")
    /\ UNCHANGED <<files, lock, store, control, swapped>>

\* _validate_lifecycle_update_input: against the existing lock and its objects.
CheckInput(p) ==
    /\ pc[p] = "check"
    /\ job[p].uses /\ job[p].prior # None =>
          LifecycleAllowed(doc, job[p].prior, Entries)
    /\ Goto(p, "write")
    /\ UNCHANGED <<files, lock, store, job, control, swapped>>

KeptIfStored(p, o) ==               \* Written: what is there is left alone
    IF o \in DOMAIN store THEN store ELSE Put(o, "whole")

\* _atomic_write_json
Written(p, o) == Put(o, "whole")

WriteObject(p) ==
    /\ pc[p] = "write"
    /\ \E id \in job[p].todo :
          LET o == [id |-> id, sig |-> job[p].text[id], src |-> text] IN
          /\ store' = IF job[p].cmd = "resolve" THEN Written(p, o) ELSE store
          /\ job' = [job EXCEPT ![p].objs = @ \cup {o}, ![p].todo = @ \ {id}]
    /\ Goto(p, IF job'[p].todo # {} THEN "write"
               ELSE IF job[p].cmd = "resolve" THEN "identities" ELSE "lifecycle")
    /\ UNCHANGED <<files, lock, control, swapped>>

\* The document is loaded (again, by update).  A candidate of update is built
\* where there is no lock yet, so that only resolve insists on a document when
\* the lock has one and compares the two.
TakeLifecycle(p) ==
    LET resolves == job[p].cmd = "resolve"
        old == IF resolves THEN job[p].prior ELSE None
    IN
    /\ pc[p] = "lifecycle"
    /\ IF job[p].uses THEN LifecycleAllowed(doc, old, job[p].objs) ELSE old = None
    /\ job' = [job EXCEPT ![p].lifecycle = IF job[p].uses THEN doc ELSE None]
    /\ Goto(p, IF resolves THEN "install" ELSE "verify")
    /\ UNCHANGED <<files, lock, store, control, swapped>>

\* verify_snapshot of the candidate: sources that have drifted.
VerifyCandidate(p) ==
    /\ pc[p] = "verify"
    /\ job[p].cmd = "update"
    /\ \A o \in job[p].objs : o.src = text
    /\ Goto(p, "identities")
    /\ UNCHANGED <<files, lock, store, job, control, swapped>>

CheckIdentities(p) ==
    /\ pc[p] = "identities"
    /\ SignaturesKept(p)
    /\ job' = [job EXCEPT ![p].todo = IF job[p].cmd = "update" THEN job[p].objs ELSE {}]
    /\ Goto(p, IF job[p].cmd = "update" THEN "copy" ELSE "lifecycle")
    /\ UNCHANGED <<files, lock, store, control, swapped>>

-----------------------------------------------------------------------------
(* Installing.                                                             *)

\* The loop of update over the objects of its candidate.
ChooseCopy(p) ==
    /\ pc[p] = "copy"
    /\ \E o \in job[p].todo :
          IF o \in DOMAIN store
          THEN job' = [job EXCEPT ![p].todo = @ \ {o}] /\ UNCHANGED pc
          ELSE /\ job' = [job EXCEPT ![p].now = o, ![p].added = @ \cup {o}]
               /\ Goto(p, "create")
    /\ UNCHANGED <<files, lock, store, control, swapped>>

\* shutil.copyfile: the file is there, and only then its contents.
CreateCopy(p) ==
    /\ pc[p] = "create"
    /\ store' = Put(job[p].now, "torn")
    /\ Goto(p, "fill")
    /\ UNCHANGED <<files, lock, job, control, swapped>>

FillCopy(p) ==
    LET o == job[p].now IN
    /\ pc[p] = "fill"
    /\ store' = IF o \in DOMAIN store THEN Put(o, "whole") ELSE store
    /\ job' = [job EXCEPT ![p].todo = @ \ {o}, ![p].now = None]
    /\ Goto(p, "copy")
    /\ UNCHANGED <<files, lock, control, swapped>>

End(p) == job' = [job EXCEPT ![p] = Blank] /\ Goto(p, "idle")

\* os.replace
Install(p) ==
    /\ pc[p] = "install" \/ (pc[p] = "copy" /\ job[p].todo = {})
    /\ lock' = [objects |-> job[p].objs, lifecycle |-> job[p].lifecycle]
    /\ End(p)
    /\ UNCHANGED <<files, store, control, swapped>>

-----------------------------------------------------------------------------
(* prune.                                                                  *)

\* verify_snapshot: the lock is there, its objects are whole and its sources
\* have not drifted.
VerifySnapshot(p) ==
    /\ pc[p] = "verify"
    /\ job[p].cmd = "prune"
    /\ lock # None
    /\ \A o \in lock.objects : o \in DOMAIN store /\ store[o] = "whole" /\ o.src = text
    /\ Goto(p, "list")
    /\ UNCHANGED <<files, lock, store, job, control, swapped>>

\* The lock is read again, and the directory.
ListUnreachable(p) ==
    /\ pc[p] = "list"
    /\ job' = [job EXCEPT ![p].todo = DOMAIN store \ Entries]
    /\ Goto(p, "unlink")
    /\ UNCHANGED <<files, lock, store, control, swapped>>

Unlink(p) ==
    /\ pc[p] = "unlink"
    /\ \E o \in job[p].todo \cap DOMAIN store :
          /\ store' = Without(o)
          /\ job' = [job EXCEPT ![p].todo = @ \ {o}]
    /\ UNCHANGED <<files, lock, pc, control, swapped>>

Pruned(p) ==
    /\ pc[p] = "unlink"
    /\ job[p].todo = {}
    /\ End(p)
    /\ UNCHANGED <<files, lock, store, control, swapped>>

-----------------------------------------------------------------------------
(* Failures.                                                               *)

\* A check refuses, the policy blocks, or a call fails: before an update
\* copies anything, and at any time in the other commands.
Raise(p) ==
    /\ pc[p] \in {"open", "check", "write", "lifecycle", "verify", "identities",
                  "install", "list", "unlink"}
    /\ End(p)
    /\ UNCHANGED <<files, lock, store, control, swapped>>

WholeCandidate(p) == job[p].objs                         \* Copies: not only new ones
FinishedCopies(p) == job[p].added \ job[p].todo          \* Copies: noted when done

\* new_objects: noted before the copy begins.
Copies(p) == job[p].added

\* An exception between the first copy and the new lock.
TakeBack(p) ==
    /\ pc[p] \in {"copy", "create", "fill"}
    /\ job' = [job EXCEPT ![p].todo = Copies(p)]
    /\ Goto(p, "undo")
    /\ UNCHANGED <<files, lock, store, control, swapped>>

\* A Ctrl-C that arrives during the os.replace of an update is raised when it
\* returns, inside the same try: the lock is the new one, and still the update
\* takes back the copies that this lock names.
InterruptedLate(p) ==
    /\ pc[p] = "copy" /\ job[p].todo = {}
    /\ kills < MaxKills
    /\ kills' = kills + 1
    /\ lock' = [objects |-> job[p].objs, lifecycle |-> job[p].lifecycle]
    /\ job' = [job EXCEPT ![p].todo = Copies(p)]
    /\ Goto(p, "late")
    /\ UNCHANGED <<files, store, runs, found, swapped>>

UnlinkCopy(p) ==
    /\ pc[p] \in {"undo", "late"}
    /\ \E o \in job[p].todo :
          /\ store' = Without(o)
          /\ job' = [job EXCEPT ![p].todo = @ \ {o}]
    /\ UNCHANGED <<files, lock, pc, control, swapped>>

TakenBack(p) ==
    /\ pc[p] \in {"undo", "late"}
    /\ job[p].todo = {}
    /\ End(p)
    /\ UNCHANGED <<files, lock, store, control, swapped>>

\* The process is killed; another one takes its place.
Kill(p) ==
    /\ pc[p] # "idle"
    /\ kills < MaxKills
    /\ kills' = kills + 1
    /\ End(p)
    /\ UNCHANGED <<files, lock, store, runs, found, swapped>>

EditText ==
    /\ edits < MaxEdits
    /\ edits' = edits + 1
    /\ text' \in Texts \ {text}
    /\ UNCHANGED <<doc, lock, store, pc, job, control, swapped>>

EditDoc ==
    /\ edits < MaxEdits
    /\ edits' = edits + 1
    /\ doc' \in Docs \ {doc}
    /\ swapped' = (swapped \/ \E p \in Procs : /\ job[p].cmd = "update"
                                               /\ pc[p] \in {"write", "lifecycle"})
    /\ UNCHANGED <<text, lock, store, pc, job, control>>

Next ==
    \/ EditText
    \/ EditDoc
    \/ \E p \in Procs :
          \/ Start(p) \/ Open(p) \/ CheckInput(p) \/ WriteObject(p)
          \/ TakeLifecycle(p) \/ VerifyCandidate(p) \/ CheckIdentities(p)
          \/ ChooseCopy(p) \/ CreateCopy(p) \/ FillCopy(p) \/ Install(p)
          \/ VerifySnapshot(p) \/ ListUnreachable(p) \/ Unlink(p) \/ Pruned(p)
          \/ Raise(p) \/ TakeBack(p) \/ UnlinkCopy(p) \/ TakenBack(p)
          \/ InterruptedLate(p) \/ Kill(p)

Spec == Init /\ [][Next]_vars

-----------------------------------------------------------------------------
(* Properties.                                                             *)

Labels == {"idle", "open", "check", "write", "lifecycle", "verify", "identities",
           "install", "copy", "create", "fill", "undo", "late", "list", "unlink"}

Objects == UNION {{[id |-> id, sig |-> t[id], src |-> s] :
                       id \in DOMAIN t, s \in Texts} : t \in Texts}

Names == UNION {DOMAIN t : t \in Texts}

Locks == {l \in [objects : SUBSET Objects, lifecycle : Docs \cup {None}] :
             /\ \A a, b \in l.objects : a.id = b.id => a = b
             /\ l.lifecycle # None => DOMAIN l.lifecycle \subseteq Identities(l.objects)}

Jobs == [cmd : Commands, uses : BOOLEAN, text : Texts \cup {None},
         prior : Docs \cup {None}, objs : SUBSET Objects,
         lifecycle : Docs \cup {None}, todo : SUBSET (Names \cup Objects),
         now : Objects \cup {None}, added : SUBSET Objects]

IsStore(s) ==
    /\ s = [o \in DOMAIN s |-> s[o]]
    /\ DOMAIN s \subseteq Objects
    /\ \A o \in DOMAIN s : s[o] \in {"whole", "torn"}

\* Every variable has its type; a lock has one object per identity, and
\* lifecycle states of these identities only.
TypeOK ==
    /\ text \in Texts
    /\ doc \in Docs
    /\ edits \in 0..MaxEdits
    /\ lock = None \/ lock \in Locks
    /\ IsStore(store)
    /\ pc \in [Procs -> Labels]
    /\ job \in [Procs -> Jobs]
    /\ runs \in 0..MaxRuns
    /\ kills \in 0..MaxKills
    /\ found = [p \in Procs |-> [lock |-> found[p].lock, store |-> found[p].store]]
    /\ swapped \in BOOLEAN

\* Every object of the lock is in the store, and complete.
LockBacked == \A o \in Entries : o \in DOMAIN store /\ store[o] = "whole"

\* Whatever commands run one after the other, fail or prune, and whatever is
\* edited meanwhile, what the lock names is in the store and complete, unless
\* some command was killed, or an update interrupted as its lock was in place.
LockBackedUnlessKilled == kills = 0 => LockBacked

\* resolve repairs what a killed command has left behind: the lock it writes,
\* be it the one there was, names complete objects only (_atomic_write_json
\* replaces those there are).
ResolveRestores ==
    [][\A p \in Procs :
          /\ pc[p] = "install"
          /\ pc'[p] = "idle"
          /\ Entries' = job[p].objs
          => LockBacked']_vars

\* An update that fails, at whatever step, leaves the lock and the objects as
\* they were when it began, also those it would have added
\* (docs/cli-reference.md, lines 1906-1908).  Two do not: one that is killed, and
\* one interrupted when its lock is already the new one.
FailureLeavesNoTrace ==
    [][\A p \in Procs :
          /\ job[p].cmd = "update"
          /\ pc[p] \notin {"idle", "copy", "late"}
          /\ pc'[p] = "idle"
          /\ kills' = kills
          => found[p] = [lock |-> lock', store |-> store']]_vars

\* An identity that stays locked keeps its signature (docs/cli-reference.md,
\* lines 1887-1889), through any series of edits, failures and killed commands.
IdentityKept ==
    [][\A old \in Entries, new \in Entries' : old.id = new.id => old.sig = new.sig]_vars

\* While the lock has lifecycle states none of them is removed, and none
\* moves back or by more than one step, unless the document was changed
\* between the two times an update reads it.
LifecycleForward ==
    [][LET old == Lifecycle
           new == Lifecycle'
       IN  old # None /\ new # None /\ ~swapped' =>
               /\ DOMAIN old \subseteq DOMAIN new
               /\ \A id \in DOMAIN old : new[id] \in {old[id], old[id] + 1}]_vars

-----------------------------------------------------------------------------
(* What the documentation says and the code does not do; see README.md.    *)

\* No object file that the lock names is left half copied: what an interrupted
\* update has copied is removed (docs/cli-reference.md, lines 1906-1908).
LockedFilesWhole == \A o \in Entries \cap DOMAIN store : store[o] = "whole"

\* What the lock names is there: an interrupted update is undone as a whole
\* (docs/cli-reference.md, lines 1906-1908).
LockedFilesThere == Entries \subseteq DOMAIN store

\* The lock "rejects identity removal" (docs/cli-reference.md, lines 1823-1825):
\* a declaration that has a lifecycle state and stays locked keeps one.
LifecycleNotDropped ==
    [][Lifecycle # None =>
          \A id \in DOMAIN Lifecycle \cap Identities(Entries') :
             Lifecycle' # None /\ id \in DOMAIN Lifecycle']_vars

\* prune "removes object files that are not reachable from the current lock"
\* (docs/cli-reference.md, lines 1917-1918), and no other.
PruneSparesLocked ==
    [][\A p \in Procs :
          pc[p] = "unlink" /\ pc'[p] = "unlink" /\ job'[p] # job[p] =>
          Entries \cap (DOMAIN store \ DOMAIN store') = {}]_vars
=============================================================================
