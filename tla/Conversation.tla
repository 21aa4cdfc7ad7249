----------------------------- MODULE Conversation -----------------------------
(***************************************************************************)
(* Conversations that edit and compile one workspace: the engine that runs *)
(* a turn (llm/conversation_engine.py), the host that holds what a turn    *)
(* has previewed (llm/filesystem_conversation.py), the editor that writes  *)
(* the sources (llm/workspace_editor.py) and the two that own the          *)
(* conversations, a chat in a terminal and the language server.            *)
(*                                                                         *)
(* A turn asks the provider for a plan, at most twice, executes it, asks   *)
(* for a repair if the change cannot be previewed, and leaves one pending  *)
(* action behind.  Confirming a change checks the fingerprints of the      *)
(* sources, replaces them file by file with no lock and reloads them, or   *)
(* puts the originals back.  A pending compilation owns a staging          *)
(* directory, which must be removed whatever becomes of the conversation.  *)
(*                                                                         *)
(* A source is the set of changes it contains, its fingerprint that set.   *)
(* A failure that an operating system may report is a nondeterministic     *)
(* choice, counted by "mishaps".  Compilation models what apply does with   *)
(* the staged files; here it succeeds or not, and removes them or not.     *)
(*                                                                         *)
(* Left out: temporary files that cannot be unlinked; unsaved documents,   *)
(* for which the language server refuses the call; documentation replies,  *)
(* the focused definition and the history, which change no action; the     *)
(* deterministic second preview of an apply, which compares equal because  *)
(* a session's workspace does not change while a change is pending.        *)
(***************************************************************************)
EXTENDS Naturals, FiniteSets, Sequences, Functions

CONSTANTS
    Sessions,      \* conversations
    Served,        \* those among them that the language server owns
    Files,         \* the source files, numbered in the order of their paths
    Plans,         \* the changes a provider can propose
    Touches,       \* Touches[p]: the files plan p changes
    Author,        \* what the author writes into a file, once
    MaxPreviews,   \* bound: staging directories ever made
    MaxMishaps,    \* bound: failures, deaths and saves of the author together
    None           \* nothing pending

ASSUME ConstantsAssumption ==
    /\ Served \subseteq Sessions
    /\ Files \subseteq Nat
    /\ Touches \in [Plans -> (SUBSET Files) \ {{}}]
    /\ None \notin Plans /\ Author \notin Plans
    /\ MaxPreviews \in Nat /\ MaxMishaps \in Nat

VARIABLES
    source,     \* source[f]: the changes that file f holds
    staged,     \* the staging directories that exist
    left,       \* history: directories whose owner could not remove them and went
    previews,   \* how many staging directories were made
    mishaps,    \* failures, deaths and saves of the author so far
    disturbed,  \* history: a file was written between another's check of it and
                \* the end of that apply, or an apply was cut short, or could not
                \* be rolled back
    pc,         \* pc[s]: where the turn of s is
    ws,         \* ws[s]: the sources as s has loaded them
    pending,    \* pending[s]: the pending action of the host
    claimed,    \* claimed[s]: the pending action as the engine knows it
    backlog,    \* backlog[s]: staging directories s still has to remove
    todo,       \* todo[s]: files an apply has yet to check, copy or replace
    originals,  \* originals[s]: what an apply has read before it writes
    replaced,   \* replaced[s]: files an apply has replaced
    shown,      \* history: the last two actions shown, newest first
    wanted      \* history: the action the user of s has asked to apply

host == <<ws, pending, claimed, backlog>>
writing == <<todo, originals, replaced>>
user == <<shown, wanted>>
disk == <<source, disturbed>>
stage == <<staged, left, previews>>
vars == <<source, staged, left, previews, mishaps, disturbed, pc, ws,
          pending, claimed, backlog, todo, originals, replaced,
          shown, wanted>>

Contents == SUBSET (Plans \union {Author})
Snapshots == [Files -> Contents]
Blank == [f \in Files |-> {}]
Originals == UNION {[F -> Contents] : F \in SUBSET Files}
Unread == [f \in {} |-> {}]

\* A change is known by its plan and the sources it was previewed on, of which
\* change_set_id is the hash; a compilation by its staging directory.
Change(p, base) == [plan |-> p, base |-> base, dir |-> 0]
Build(d) == [plan |-> None, base |-> None, dir |-> d]

Actions == {Change(p, b) : p \in Plans, b \in Snapshots}
           \union {Build(d) : d \in 1 .. MaxPreviews}

ASSUME NoneAssumption == None \notin Actions

IsBuild(a) == a # None /\ a.plan = None
Owns(a) == IF IsBuild(a) THEN {a.dir} ELSE {}

-----------------------------------------------------------------------------
Asking == {"plan", "replan", "repair", "synthesis"}
Applying == {"copy", "replace", "reload", "rollback"}
Resting == {"closed", "idle"}

TypeOK ==
    /\ source \in Snapshots
    /\ staged \subseteq 1 .. previews
    /\ left \subseteq 1 .. previews
    /\ previews \in 0 .. MaxPreviews
    /\ mishaps \in 0 .. MaxMishaps
    /\ disturbed \in BOOLEAN
    /\ pc \in [Sessions -> Resting \union Asking \union Applying
                           \union {"check", "promote"}]
    /\ ws \in [Sessions -> Snapshots]
    /\ pending \in [Sessions -> Actions \union {None}]
    /\ claimed \in [Sessions -> Actions \union {None}]
    /\ wanted \in [Sessions -> Actions \union {None}]
    /\ shown \in [Sessions -> Seq(Actions)]
    /\ backlog \in [Sessions -> SUBSET (1 .. previews)]
    /\ todo \in [Sessions -> SUBSET Files]
    /\ originals \in [Sessions -> Originals]
    /\ replaced \in [Sessions -> SUBSET Files]
    /\ \A s \in Sessions :
        /\ Len(shown[s]) <= 2
        /\ replaced[s] \subseteq DOMAIN originals[s]

Init ==
    /\ source = Blank
    /\ staged = {} /\ left = {} /\ previews = 0
    /\ mishaps = 0
    /\ disturbed = FALSE
    /\ pc = [s \in Sessions |-> "closed"]
    /\ ws = [s \in Sessions |-> Blank]
    /\ pending = [s \in Sessions |-> None]
    /\ claimed = [s \in Sessions |-> None]
    /\ backlog = [s \in Sessions |-> {}]
    /\ todo = [s \in Sessions |-> {}]
    /\ originals = [s \in Sessions |-> Unread]
    /\ replaced = [s \in Sessions |-> {}]
    /\ shown = [s \in Sessions |-> <<>>]
    /\ wanted = [s \in Sessions |-> None]

-----------------------------------------------------------------------------
(* How a call ends.                                                        *)

\* The language server answers one request at a time.
Free(s) == s \in Served => \A t \in Served : pc[t] \in Resting

Goes(s, where) == pc' = [pc EXCEPT ![s] = where]

\* The turn has a reply: the engine takes over the pending action of the host.
Completes(s, a) ==
    /\ Goes(s, "idle")
    /\ pending' = [pending EXCEPT ![s] = a]
    /\ claimed' = [claimed EXCEPT ![s] = a]
    /\ wanted' = [wanted EXCEPT ![s] = None]

Mishap(n) ==
    /\ mishaps + n <= MaxMishaps
    /\ mishaps' = mishaps + n

Tracked(s) == Owns(pending[s]) \union backlog[s]

\* Of the directories D those in "failing" cannot be removed.
Removes(s, D, failing) ==
    /\ staged' = staged \ (D \ failing)
    /\ backlog' = [backlog EXCEPT ![s] = (@ \ D) \union failing]

Disposes(s, D, failing) ==
    /\ Mishap(Cardinality(failing))
    /\ Removes(s, D, failing)

\* The conversation is gone, and with it what it knew.
Forgets(S) ==
    /\ pc' = [s \in Sessions |-> IF s \in S THEN "closed" ELSE pc[s]]
    /\ pending' = [s \in Sessions |-> IF s \in S THEN None ELSE pending[s]]
    /\ claimed' = [s \in Sessions |-> IF s \in S THEN None ELSE claimed[s]]
    /\ backlog' = [s \in Sessions |-> IF s \in S THEN {} ELSE backlog[s]]
    /\ todo' = [s \in Sessions |-> IF s \in S THEN {} ELSE todo[s]]
    /\ originals' = [s \in Sessions |-> IF s \in S THEN Unread ELSE originals[s]]
    /\ replaced' = [s \in Sessions |-> IF s \in S THEN {} ELSE replaced[s]]
    /\ shown' = [s \in Sessions |-> IF s \in S THEN <<>> ELSE shown[s]]
    /\ wanted' = [s \in Sessions |-> IF s \in S THEN None ELSE wanted[s]]
    /\ ws' = [s \in Sessions |-> IF s \in S THEN Blank ELSE ws[s]]

\* Ending a terminal chat closes its session; what cannot be removed is named
\* in the error, and nobody tries again.
Ends(s, failing) ==
    /\ staged' = staged \ (Tracked(s) \ failing)
    /\ left' = left \union failing
    /\ Forgets({s})
    /\ UNCHANGED <<disk, previews>>

-----------------------------------------------------------------------------
(* Sessions.                                                               *)

Open(s) ==
    /\ pc[s] = "closed" /\ Free(s)
    /\ Goes(s, "idle")
    /\ ws' = [ws EXCEPT ![s] = source]
    /\ UNCHANGED <<disk, stage, mishaps, pending, claimed, backlog,
                   writing, user>>

\* Asked for by the user, or because the session has expired or is evicted:
\* the server keeps a session that it cannot close.
Close(s) ==
    /\ pc[s] = "idle" /\ Free(s)
    /\ \E failing \in SUBSET Tracked(s) :
        \/ /\ s \notin Served \/ failing = {}
           /\ Mishap(Cardinality(failing))
           /\ Ends(s, failing)
        \/ /\ s \in Served /\ failing # {}
           /\ Disposes(s, Tracked(s), failing)
           /\ UNCHANGED <<disk, left, previews, pc, ws, pending, claimed,
                          writing, user>>

\* The process of s is killed.
Die(s) ==
    /\ pc[s] # "closed"
    /\ Mishap(1)
    /\ LET gone == IF s \in Served THEN Served ELSE {s}
       IN /\ left' = left \union (UNION {Tracked(t) : t \in gone})
          /\ disturbed' = (disturbed \/ \E t \in gone : pc[t] \in Applying)
          /\ Forgets(gone)
    /\ UNCHANGED <<source, staged, previews>>

\* An exception that nothing handles.  A chat ends; the server answers with an
\* error and keeps the session, whose engine still knows the action.
Throws(s, n) ==
    \E failing \in SUBSET Tracked(s) :
        /\ Mishap(n + Cardinality(failing))
        /\ \/ /\ s \notin Served
              /\ Ends(s, failing)
           \/ /\ s \in Served
              /\ Removes(s, Tracked(s), failing)
              /\ pending' = [pending EXCEPT ![s] = IF failing = {} THEN None ELSE @]
              /\ Goes(s, "idle")
              /\ UNCHANGED <<disk, left, previews, ws, claimed, writing, user>>

-----------------------------------------------------------------------------
(* A turn: the provider is asked for a plan, which is then executed.       *)

Planning == {"plan", "replan", "repair"}

\* A turn has a plan to execute: the provider's answer is one, or the message
\* needs no provider, which is so for some queries and for /compile.
HasPlan(s) == pc[s] \in Planning \/ (pc[s] = "idle" /\ Free(s))

Begin(s) ==
    /\ pc[s] = "idle" /\ Free(s)
    /\ Goes(s, "plan")
    /\ UNCHANGED <<disk, stage, mishaps, host, writing, user>>

AnswerInvalid(s) ==
    /\ pc[s] = "plan"
    /\ Goes(s, "replan")
    /\ UNCHANGED <<disk, stage, mishaps, host, writing, user>>

\* The facts that a query finds are put into words by the provider.
Synthesize(s) ==
    /\ HasPlan(s)
    /\ Goes(s, "synthesis")
    /\ UNCHANGED <<disk, stage, mishaps, host, writing, user>>

\* Every other reply that previews nothing: the provider fails or its repair is
\* invalid, the answer from the facts, a clarification, a refused compilation.
Reply(s) ==
    /\ pc[s] \in Asking \/ HasPlan(s)
    /\ Completes(s, pending[s])
    /\ UNCHANGED <<disk, stage, mishaps, ws, backlog, writing, shown>>

Interrupt(s) ==
    /\ s \notin Served
    /\ pc[s] \in Asking
    /\ Throws(s, 0)

\* A change that could not be previewed is repaired once.
Repairs(s) ==
    \/ /\ pc[s] # "repair"
       /\ Goes(s, "repair")
       /\ UNCHANGED <<pending, claimed, wanted>>
    \/ /\ pc[s] = "repair"
       /\ Completes(s, pending[s])

\* A preview shown again adds no button.
Shows(s, a) ==
    /\ Completes(s, a)
    /\ shown' = [shown EXCEPT
        ![s] = IF s \notin Served \/ @ = <<>> THEN <<a>>
               ELSE IF Head(@) = a THEN @ ELSE <<a, Head(@)>>]

ChangePlanned(s) ==
    /\ pc[s] \in Planning
    /\ claimed[s] = pending[s]

\* The change is computed from the sources as the session has loaded them.
PreviewChange(s) ==
    /\ ChangePlanned(s)
    /\ \E p \in Plans :
        /\ \A f \in Touches[p] : p \notin ws[s][f]
        /\ Disposes(s, Owns(pending[s]), {})
        /\ Shows(s, Change(p, ws[s]))
    /\ UNCHANGED <<disk, left, previews, ws, writing>>

\* The editor refuses the plan, or the action it replaces cannot be disposed of.
PreviewChangeFails(s) ==
    /\ ChangePlanned(s)
    /\ \E failing \in SUBSET Owns(pending[s]) :
        \/ failing = {} /\ UNCHANGED <<staged, mishaps, backlog>>
        \/ failing # {} /\ Disposes(s, Owns(pending[s]), failing)
    /\ Repairs(s)
    /\ UNCHANGED <<disk, left, previews, ws, writing, shown>>

PreviewCompilation(s) ==
    /\ HasPlan(s)
    /\ claimed[s] = pending[s]
    /\ previews < MaxPreviews
    /\ previews' = previews + 1
    /\ staged' = (staged \ Owns(pending[s])) \union {previews'}
    /\ backlog' = [backlog EXCEPT ![s] = @ \ Owns(pending[s])]
    /\ Shows(s, Build(previews'))
    /\ UNCHANGED <<disk, left, mishaps, ws, writing>>

\* Mutant: only the replaced action is remembered.
PreviewCompilationForgets(s) ==
    /\ HasPlan(s)
    /\ claimed[s] = pending[s]
    /\ previews < MaxPreviews
    /\ previews' = previews + 1
    /\ LET new == {previews'}
           old == Owns(pending[s])
       IN \E failing \in SUBSET (old \union new) :
           /\ old # {} /\ old \subseteq failing
           /\ Mishap(Cardinality(failing))
           /\ staged' = staged \union (failing \ old)
           /\ backlog' = [backlog EXCEPT ![s] = @ \union old]
    /\ Completes(s, None)
    /\ UNCHANGED <<disk, left, ws, writing, shown>>

\* The action it replaces cannot be disposed of, and the new one is not kept.
PreviewCompilationFails(s) ==
    /\ HasPlan(s)
    /\ claimed[s] = pending[s]
    /\ previews < MaxPreviews
    /\ previews' = previews + 1
    /\ LET new == {previews'}
           old == Owns(pending[s])
       IN \E failing \in SUBSET (old \union new) :
           /\ old # {} /\ old \subseteq failing
           /\ Mishap(Cardinality(failing))
           /\ staged' = staged \union (failing \ old)
           /\ backlog' = [backlog EXCEPT ![s] = @ \union failing]
    /\ Completes(s, None)
    /\ UNCHANGED <<disk, left, ws, writing, shown>>

\* A compilation that fails while it is staged, and whose directory stays: the
\* error names it.
PreviewCompilationLitters(s) ==
    /\ HasPlan(s)
    /\ claimed[s] = pending[s]
    /\ previews < MaxPreviews
    /\ previews' = previews + 1
    /\ Mishap(1)
    /\ staged' = staged \union {previews'}
    /\ left' = left \union {previews'}
    /\ Completes(s, pending[s])
    /\ UNCHANGED <<disk, ws, backlog, writing, shown>>

\* The engine and the host disagree on the action to replace, or the preview
\* raises what the host does not expect, a damaged registry.db for one.
PreviewThrows(s) ==
    /\ HasPlan(s)
    /\ Throws(s, IF claimed[s] = pending[s] THEN 1 ELSE 0)

-----------------------------------------------------------------------------
(* Confirming and discarding.                                              *)

Applies(s, a) ==
    /\ pc[s] = "idle" /\ Free(s)
    /\ claimed[s] # None /\ claimed[s] = pending[s]
    /\ \/ /\ IsBuild(pending[s])
          /\ Goes(s, "promote")
          /\ UNCHANGED todo
       \/ /\ ~IsBuild(pending[s])
          /\ Goes(s, "check")
          /\ todo' = [todo EXCEPT ![s] = Files]
    /\ wanted' = [wanted EXCEPT ![s] = a]
    /\ UNCHANGED <<disk, stage, mishaps, host, originals, replaced, shown>>

\* "apply" means the preview that was shown last.
TypeApply(s) == Applies(s, IF shown[s] = <<>> THEN None ELSE Head(shown[s]))

\* Mutant: the server does not compare the action of the button.
ClickApplyAny(s, a) ==
    /\ s \in Served
    /\ Applies(s, a)

\* A button of a preview carries its action, which may since be another's.
ClickApply(s, a) ==
    /\ s \in Served
    /\ claimed[s] = a
    /\ Applies(s, a)

\* The host does not hold the action that the engine names.
ApplyUnknown(s) ==
    /\ pc[s] = "idle" /\ Free(s)
    /\ claimed[s] # None /\ claimed[s] # pending[s]
    /\ Completes(s, pending[s])
    /\ UNCHANGED <<disk, stage, mishaps, ws, backlog, writing, shown>>

\* All that is pending or to be cleaned up is disposed of together.  When only
\* the backlog is left, the session asks the host and not the engine.
Discard(s) ==
    /\ pc[s] = "idle" /\ Free(s)
    /\ \E failing \in SUBSET Tracked(s) :
        LET kept == IF failing = {} THEN None ELSE pending[s]
        IN /\ Disposes(s, Tracked(s), failing)
           /\ IF pending[s] = None /\ backlog[s] # {}
              THEN UNCHANGED <<pc, pending, claimed, wanted>>
              ELSE Completes(s, kept)
    /\ UNCHANGED <<disk, left, previews, ws, writing, shown>>

\* CompilationService.apply promotes the staged files or fails, and removes the
\* directory in either case.
Promote(s) ==
    /\ pc[s] = "promote"
    /\ Disposes(s, Owns(pending[s]), {})
    /\ Completes(s, None)
    /\ UNCHANGED <<disk, left, previews, ws, writing, shown>>

\* It fails, and the directory stays.
PromoteFails(s) ==
    /\ pc[s] = "promote"
    /\ Disposes(s, Owns(pending[s]), Owns(pending[s]))
    /\ Completes(s, pending[s])
    /\ UNCHANGED <<disk, left, previews, ws, writing, shown>>

\* It commits, and the directory stays: the reply names it.
PromoteLitters(s) ==
    /\ pc[s] = "promote"
    /\ Mishap(1)
    /\ backlog' = [backlog EXCEPT ![s] = @ \ Owns(pending[s])]
    /\ left' = left \union Owns(pending[s])
    /\ Completes(s, None)
    /\ UNCHANGED <<disk, staged, previews, ws, writing, shown>>

-----------------------------------------------------------------------------
(* WorkspaceEditor.apply, and who else writes the sources.                 *)

Plan(s) == pending[s].plan
Written(s) == Touches[Plan(s)]
Candidate(s, f) == pending[s].base[f] \union {Plan(s)}

\* A write to f comes between its check and the end of somebody else's apply.
Meddles(f, others) ==
    \E t \in others :
        /\ pc[t] \in Applying \/ (pc[t] = "check" /\ f \notin todo[t])
        /\ f \in Touches[Plan(t)]

Writes(f, content, others) ==
    /\ source' = [source EXCEPT ![f] = content]
    /\ disturbed' = (disturbed \/ Meddles(f, others))

AuthorSaves(f) ==
    /\ Mishap(1)
    /\ \A g \in Files : Author \notin source[g]
    /\ source' = [source EXCEPT ![f] = @ \union {Author}]
    /\ disturbed' = (disturbed \/ Meddles(f, Sessions))
    /\ UNCHANGED <<stage, pc, host, writing, user>>

\* Mutant: the list of replaced files outlives the apply.
StopsWritingHalf(s) ==
    /\ todo' = [todo EXCEPT ![s] = {}]
    /\ originals' = [originals EXCEPT ![s] = Unread]
    /\ UNCHANGED replaced

StopsWriting(s) ==
    /\ todo' = [todo EXCEPT ![s] = {}]
    /\ originals' = [originals EXCEPT ![s] = Unread]
    /\ replaced' = [replaced EXCEPT ![s] = {}]

\* The files are taken in the order of their paths.
First(S) == {f \in S : \A g \in S : f <= g}
Last(S) == {f \in S : \A g \in S : g <= f}

\* File f is as it should be; after the last one the copies are made.
Checked(s, f) ==
    IF todo[s] = {f}
    THEN todo' = [todo EXCEPT ![s] = Written(s)] /\ Goes(s, "copy")
    ELSE todo' = [todo EXCEPT ![s] = @ \ {f}] /\ UNCHANGED pc

\* Mutant: the fingerprints are not compared.
CheckFileBlindly(s) ==
    /\ pc[s] = "check"
    /\ \E f \in First(todo[s]) : Checked(s, f)
    /\ UNCHANGED <<disk, stage, mishaps, host, originals, replaced, user>>

\* The sources, all of them, are read one after the other.
CheckFile(s) ==
    /\ pc[s] = "check"
    /\ \E f \in First(todo[s]) : source[f] = pending[s].base[f] /\ Checked(s, f)
    /\ UNCHANGED <<disk, stage, mishaps, host, originals, replaced, user>>

\* One is not what the change was previewed on, or cannot be read.
RefuseStale(s) ==
    /\ pc[s] = "check"
    /\ \/ /\ \E f \in First(todo[s]) : source[f] # pending[s].base[f]
          /\ UNCHANGED mishaps
       \/ Mishap(1)
    /\ Completes(s, pending[s])
    /\ todo' = [todo EXCEPT ![s] = {}]
    /\ UNCHANGED <<disk, stage, ws, backlog, originals, replaced, shown>>

\* The original is read and the new text written to a temporary file.
CopyFile(s) ==
    /\ pc[s] = "copy"
    /\ \E f \in First(todo[s]) :
        /\ originals' = [originals EXCEPT ![s] =
            [g \in DOMAIN @ \union {f} |-> IF g = f THEN source[f] ELSE @[g]]]
        /\ IF todo[s] = {f}
           THEN todo' = [todo EXCEPT ![s] = Written(s)] /\ Goes(s, "replace")
           ELSE todo' = [todo EXCEPT ![s] = @ \ {f}] /\ UNCHANGED pc
    /\ UNCHANGED <<disk, stage, mishaps, host, replaced, user>>

\* Mutant: a file counts as replaced once the next one is.
ReplaceFileLate(s) ==
    /\ pc[s] = "replace"
    /\ \E f \in First(todo[s]) :
        /\ Writes(f, Candidate(s, f), Sessions \ {s})
        /\ replaced' = [replaced EXCEPT ![s] = Written(s) \ todo[s]]
        /\ todo' = [todo EXCEPT ![s] = @ \ {f}]
        /\ IF todo[s] = {f} THEN Goes(s, "reload") ELSE UNCHANGED pc
    /\ UNCHANGED <<stage, mishaps, host, originals, user>>

ReplaceFile(s) ==
    /\ pc[s] = "replace"
    /\ \E f \in First(todo[s]) :
        /\ Writes(f, Candidate(s, f), Sessions \ {s})
        /\ replaced' = [replaced EXCEPT ![s] = @ \union {f}]
        /\ todo' = [todo EXCEPT ![s] = @ \ {f}]
        /\ IF todo[s] = {f} THEN Goes(s, "reload") ELSE UNCHANGED pc
    /\ UNCHANGED <<stage, mishaps, host, originals, user>>

\* The sources are loaded again: the session goes on from what they say now.
Reload(s) ==
    /\ pc[s] = "reload"
    /\ ws' = [ws EXCEPT ![s] = source]
    /\ Completes(s, None)
    /\ StopsWriting(s)
    /\ UNCHANGED <<disk, stage, mishaps, backlog, shown>>

\* A step of the apply fails.
ApplyFails(s) ==
    /\ pc[s] \in {"copy", "replace", "reload"}
    /\ Mishap(1)
    /\ Goes(s, "rollback")
    /\ UNCHANGED <<disk, stage, host, writing, user>>

RestoreFile(s) ==
    /\ pc[s] = "rollback"
    /\ \E f \in Last(replaced[s]) :
        /\ Writes(f, originals[s][f], Sessions \ {s})
        /\ replaced' = [replaced EXCEPT ![s] = @ \ {f}]
    /\ UNCHANGED <<stage, mishaps, pc, host, todo, originals, user>>

\* The file stays as it is, and the reply says so.
RestoreFails(s) ==
    /\ pc[s] = "rollback"
    /\ Mishap(1)
    /\ disturbed' = TRUE
    /\ \E f \in Last(replaced[s]) : replaced' = [replaced EXCEPT ![s] = @ \ {f}]
    /\ UNCHANGED <<source, stage, pc, host, todo, originals, user>>

RolledBack(s) ==
    /\ pc[s] = "rollback" /\ replaced[s] = {}
    /\ Completes(s, pending[s])
    /\ StopsWriting(s)
    /\ UNCHANGED <<disk, stage, mishaps, ws, backlog, shown>>

-----------------------------------------------------------------------------
Previews(s) ==
    \/ PreviewChange(s) \/ PreviewChangeFails(s)
    \/ PreviewCompilation(s) \/ PreviewCompilationFails(s)
    \/ PreviewCompilationLitters(s) \/ PreviewThrows(s)

\* The provider answers, or its request fails, and the engine goes on.
Answers(s) == AnswerInvalid(s) \/ Synthesize(s) \/ Previews(s) \/ Reply(s)

Confirms(s) ==
    \/ Promote(s) \/ PromoteFails(s) \/ PromoteLitters(s)
    \/ CheckFile(s) \/ RefuseStale(s) \/ CopyFile(s) \/ ReplaceFile(s) \/ Reload(s)
    \/ ApplyFails(s) \/ RestoreFile(s) \/ RestoreFails(s) \/ RolledBack(s)

Next ==
    \/ \E s \in Sessions :
        \/ Open(s) \/ Begin(s) \/ TypeApply(s) \/ ApplyUnknown(s)
        \/ Discard(s) \/ Close(s)
        \/ \E a \in Range(shown[s]) : ClickApply(s, a)
        \/ Answers(s) \/ Confirms(s) \/ Interrupt(s) \/ Die(s)
    \/ \E f \in Files : AuthorSaves(f)

Spec == Init /\ [][Next]_vars

-----------------------------------------------------------------------------
(* Properties.                                                             *)

\* Every staging directory is still the business of an open conversation, or
\* its owner tried to remove it, could not, said so and is gone: the pending
\* action and _cleanup_backlog of FilesystemConversationBackend.
StagingTracked ==
    staged \subseteq left \union UNION {Tracked(s) : s \in Sessions}

\* What is applied is what the user asked to apply: the preview shown last, or
\* the one whose button was pressed ("the exact displayed change-set ID"),
\* although the engine and the host each keep an action of their own and an
\* exception can part them.
AppliedIsWanted ==
    \A s \in Sessions :
        pc[s] \in Applying \union {"check", "promote"} => pending[s] = wanted[s]

\* A change set is in all its files or in none once its apply has ended, unless
\* a process died, a rollback failed, or somebody wrote in between.
ChangesAreWhole ==
    ~disturbed =>
        \A p \in Plans :
            \/ \A f \in Touches[p] : p \in source[f]
            \/ \A f \in Touches[p] : p \notin source[f]
            \/ \E s \in Sessions : pc[s] \in Applying /\ Plan(s) = p

\* No apply and no rollback takes anybody else's change out of a source, unless
\* it was saved between the check of its fingerprint and the end of the apply.
EditsKept ==
    [][~disturbed' =>
        \A f \in Files :
            source[f] \ source'[f] \subseteq
                {Plan(s) : s \in {t \in Sessions : pc[t] = "rollback"}}]_vars

\* A preview is fresh: it is computed from what the sources say.
\* docs/cli-reference.md:1724 has a session whose sources diverged "require a
\* fresh preview", which it cannot give.
FreshPreview ==
    [][\A s \in Sessions :
        pending'[s] # pending[s] /\ pending'[s] # None /\ ~IsBuild(pending'[s])
            => pending'[s].base = source]_vars

=============================================================================
