------------------------ MODULE PersistentWorkspace ------------------------
(***************************************************************************)
(* The workspace of the browser playground and its one stored record       *)
(* (web/src/usePersistentWorkspace.ts, workspace-repository.ts).           *)
(*                                                                         *)
(* Every tab keeps a workspace in memory, saves it with a delay, restores  *)
(* it when it opens, and tells the other tabs what it saved.  Saves, loads *)
(* and removals are promises: a call is asked, later performed by          *)
(* IndexedDB in a transaction of its own, and later still settled in the   *)
(* tab that asked.  IndexedDB opens its connections, runs transactions that *)
(* overlap, and queues their events in the order in which they were asked, *)
(* so the calls of one tab are served and settled in order.  Nothing       *)
(* orders the calls of different tabs.                                     *)
(*                                                                         *)
(* What a tab stores can be read again.  The one place that adds a key the *)
(* parser refuses (App.tsx, 1237-1248) is for a proposal without an action,*)
(* and the conversation gives every proposal one.                          *)
(***************************************************************************)
EXTENDS Naturals, Sequences

CONSTANTS
    Tabs,          \* browser tabs, one after the other or at the same time
    Missing,       \* there is no record
    Invalid,       \* content that cannot be parsed
    Unset,         \* no timer is set; an answer has not come
    Failed,        \* the promise was rejected
    MaxEdits,      \* bound: edits and resets by all tabs together
    MaxRevision,   \* bound: revision of the record at first
    MaxCalls       \* bound: calls a tab may have under way

\* A workspace is its revision and its content.  Every edit makes a content of
\* its own; content 0 is the default workspace's.
Workspaces == [revision : Nat, content : Nat]

\* A record that cannot be parsed may still have a revision (0: it has none).
Unreadable == [revision : Nat, content : {Invalid}]

Records == Workspaces \cup Unreadable

ASSUME ConstantsAssumption ==
    /\ MaxEdits \in Nat
    /\ MaxRevision \in Nat
    /\ MaxCalls \in Nat
    /\ Missing # Unset /\ Missing # Failed /\ Unset # Failed
    /\ Missing \notin Records /\ Unset \notin Records /\ Failed \notin Records
    /\ {Unset, Failed} \cap {"saved", "stale", "removed"} = {}
    /\ Invalid \notin Nat

DefaultWorkspace == [revision |-> 1, content |-> 0]

VARIABLES
    store,      \* the record in IndexedDB
    edits,      \* how many edits and resets there were
    page,       \* "new", "open" or "closed"
    workspace,  \* workspaceRef
    dirty,      \* dirtyRef
    phase,      \* the phase shown to the user
    timer,      \* the snapshot that the debounce timer will save, or Unset
    calls,      \* the calls under way, in the order in which they were asked
    inbox,      \* revisions announced to the tab and not yet delivered
    kept,       \* history only: the workspaces that were ever stored
    collided,   \* history only: a stored workspace was removed, or replaced by
                \* another one of its revision
    clobbered   \* history only: a load replaced unsaved or later work

tabVars == <<workspace, dirty, phase, timer>>
history == <<kept, collided, clobbered>>
vars == <<store, edits, page, tabVars, calls, inbox, history>>

Phases == {"restoring", "saved", "saving", "memory-only", "recovery-required"}

\* A save is the latest while its sequence number is the tab's last.
Saves == [op : {"save"}, snapshot : Workspaces, latest : BOOLEAN,
          answer : {Unset, Failed, "saved", "stale"}]

\* What a load's answer is for: applyLoadResult, or an announcement.
Loads == [op : {"restore", "adopt"}, answer : Records \cup {Missing, Unset, Failed}]

Removals == [op : {"remove"}, answer : {Unset, Failed, "removed"}]

Calls == Saves \cup Loads \cup Removals

Open == {t \in Tabs : page[t] = "open"}

(***************************************************************************)
(* Parts of the actions.                                                   *)
(***************************************************************************)
CallOf(op) == [op |-> op, answer |-> Unset]

HasRoom(t) == Len(calls[t]) < MaxCalls

Ask(t, call) ==
    HasRoom(t) /\ calls' = [calls EXCEPT ![t] = Append(@, call)]

\* IndexedDB performs the first call of t that has no answer.
IsNext(t, i) ==
    /\ i \in DOMAIN calls[t]
    /\ \A j \in 1..i : (calls[t][j].answer = Unset) <=> (j = i)

Answer(t, i, answer) == calls' = [calls EXCEPT ![t][i].answer = answer]

\* The first call, of kind op, is answered and the tab is there to hear of it.
Arrives(t, op) ==
    /\ t \in Open
    /\ calls[t] # <<>>
    /\ Head(calls[t]).op = op
    /\ Head(calls[t]).answer # Unset

Settle(t) == calls' = [calls EXCEPT ![t] = Tail(@)]

\* The calls of a tab after save(snapshot): earlier saves have lost their turn.
WithSave(queue, snapshot) ==
    Append([i \in DOMAIN queue |-> IF queue[i].op = "save"
                                   THEN [queue[i] EXCEPT !.latest = FALSE]
                                   ELSE queue[i]],
           [op |-> "save", snapshot |-> snapshot, latest |-> TRUE, answer |-> Unset])

Save(t, snapshot) ==
    HasRoom(t) /\ calls' = [calls EXCEPT ![t] = WithSave(@, snapshot)]

\* scheduleSave(snapshot, TRUE), of a tab whose calls are queue.
SaveNow(t, queue, snapshot) ==
    /\ phase' = [phase EXCEPT ![t] = "saving"]
    /\ timer' = [timer EXCEPT ![t] = Unset]
    /\ calls' = [calls EXCEPT ![t] = WithSave(queue, snapshot)]

\* Defect: a running timer is left to run.
SaveLaterUnlessTimed(t, snapshot) ==
    /\ phase' = [phase EXCEPT ![t] = "saving"]
    /\ timer' = [timer EXCEPT ![t] = IF @ = Unset THEN snapshot ELSE @]
    /\ UNCHANGED calls

\* scheduleSave(snapshot, FALSE): a running timer is replaced.
SaveLater(t, snapshot) ==
    /\ phase' = [phase EXCEPT ![t] = "saving"]
    /\ timer' = [timer EXCEPT ![t] = snapshot]
    /\ UNCHANGED calls

\* The tab's workspace is replaced by work that is not stored.
Take(t, w) ==
    /\ workspace' = [workspace EXCEPT ![t] = w]
    /\ dirty' = [dirty EXCEPT ![t] = TRUE]

\* The user can edit while the workspace is shown (App.tsx).
Editable(t) == phase[t] \notin {"restoring", "recovery-required"}

(***************************************************************************)
(* Tabs.                                                                   *)
(***************************************************************************)

\* The first render shows nothing and asks for the record.
OpenTab(t) ==
    /\ page[t] = "new"
    /\ page' = [page EXCEPT ![t] = "open"]
    /\ Ask(t, CallOf("restore"))
    /\ UNCHANGED <<store, edits, tabVars, inbox, history>>

\* replace(), of a workspace that mutateWorkspace made from the present one:
\* typing saves with a delay, other edits at once.
Edit(t) ==
    /\ t \in Open /\ Editable(t)
    /\ edits < MaxEdits
    /\ edits' = edits + 1
    /\ LET next == [revision |-> workspace[t].revision + 1,
                    content |-> edits + 1]
       IN  /\ Take(t, next)
           /\ \/ SaveLater(t, next)
              \/ HasRoom(t) /\ SaveNow(t, calls[t], next)
    /\ UNCHANGED <<store, page, inbox, history>>

\* Defect: the snapshot is forgotten before it is saved.
TimerFiresEmpty(t) ==
    /\ t \in Open /\ timer[t] # Unset
    /\ timer' = [timer EXCEPT ![t] = Unset]
    /\ Save(t, timer'[t])
    /\ UNCHANGED <<store, edits, page, workspace, dirty, phase, inbox, history>>

TimerFires(t) ==
    /\ t \in Open /\ timer[t] # Unset
    /\ timer' = [timer EXCEPT ![t] = Unset]
    /\ Save(t, timer[t])
    /\ UNCHANGED <<store, edits, page, workspace, dirty, phase, inbox, history>>

\* pagehide: the page may be shown again or closed.
HidePage(t) ==
    /\ t \in Open /\ dirty[t]
    /\ Save(t, workspace[t])
    /\ UNCHANGED <<store, edits, page, tabVars, inbox, history>>

\* The page is gone; what it asked of IndexedDB is still performed, but no
\* answer arrives.
CloseTab(t) ==
    /\ t \in Open
    /\ page' = [page EXCEPT ![t] = "closed"]
    /\ timer' = [timer EXCEPT ![t] = Unset]
    /\ inbox' = [inbox EXCEPT ![t] = {}]
    /\ UNCHANGED <<store, edits, workspace, dirty, phase, calls, history>>

(***************************************************************************)
(* Saving.                                                                 *)
(***************************************************************************)

\* Defect: the last save wins.
RejectsNothing(snapshot) == FALSE

\* The record is newer than the snapshot.
Rejects(snapshot) ==
    store \in Records /\ store.revision > snapshot.revision

\* One transaction reads the record and writes the snapshot.
PerformSave(t) ==
    \E i \in DOMAIN calls[t] :
       LET snapshot == calls[t][i].snapshot
       IN  /\ IsNext(t, i) /\ calls[t][i].op = "save"
           /\ \/ /\ ~ Rejects(snapshot)
                 /\ Answer(t, i, "saved")
                 /\ store' = snapshot
                 /\ kept' = kept \cup {snapshot}
                 /\ collided' = (collided \/
                                  /\ store \in Workspaces \ {snapshot}
                                  /\ store.revision = snapshot.revision)
                 /\ UNCHANGED clobbered
              \/ /\ Rejects(snapshot)
                 /\ Answer(t, i, "stale")
                 /\ UNCHANGED <<store, history>>
              \/ /\ Answer(t, i, Failed)
                 /\ UNCHANGED <<store, history>>
           /\ UNCHANGED <<edits, page, tabVars, inbox>>

\* repository.save has written the snapshot.
Stored(s) == s.answer = "saved"

\* The save speaks for the tab: it is the last one, of the present revision.
Speaks(t, s) == s.latest /\ workspace[t].revision = s.snapshot.revision

SettleSaved(t) ==
    LET s == Head(calls[t])
    IN  /\ Arrives(t, "save") /\ Stored(s)
        /\ Settle(t)
        /\ \/ /\ Speaks(t, s)
              /\ dirty' = [dirty EXCEPT ![t] = FALSE]
              /\ phase' = [phase EXCEPT ![t] = "saved"]
              /\ inbox' = [u \in Tabs |-> inbox[u] \cup
                              IF u \in Open \ {t} THEN {s.snapshot.revision}
                                                  ELSE {}]
           \/ ~ Speaks(t, s) /\ UNCHANGED <<dirty, phase, inbox>>
        /\ UNCHANGED <<store, edits, page, workspace, timer, history>>

\* Defect: the user is not told.
SettleUnsavedSilently(t) ==
    /\ Arrives(t, "save") /\ ~ Stored(Head(calls[t]))
    /\ Settle(t)
    /\ UNCHANGED <<store, edits, page, tabVars, inbox, history>>

SettleUnsaved(t) ==
    LET s == Head(calls[t])
    IN  /\ Arrives(t, "save") /\ ~ Stored(s)
        /\ Settle(t)
        /\ phase' = [phase EXCEPT ![t] = IF s.latest THEN "memory-only" ELSE @]
        /\ UNCHANGED <<store, edits, page, workspace, dirty, timer, inbox, history>>

(***************************************************************************)
(* Loading.                                                                *)
(***************************************************************************)
PerformLoad(t) ==
    \E i \in DOMAIN calls[t] :
       /\ IsNext(t, i) /\ calls[t][i].op \in {"restore", "adopt"}
       /\ Answer(t, i, store) \/ Answer(t, i, Failed)
       /\ UNCHANGED <<store, edits, page, tabVars, inbox, history>>

\* w replaces unsaved or later work of the tab.
Clobbers(t, w) ==
    /\ workspace[t] # w
    /\ dirty[t] \/ workspace[t].revision > w.revision

\* applyLoadResult, or the rejection handler: nothing is compared with the
\* work the tab has by now.
SettleRestore(t) ==
    LET answer == Head(calls[t]).answer
    IN  /\ Arrives(t, "restore")
        /\ \/ /\ answer \in Workspaces
              /\ workspace' = [workspace EXCEPT ![t] = answer]
              /\ dirty' = [dirty EXCEPT ![t] = FALSE]
              /\ phase' = [phase EXCEPT ![t] = "saved"]
              /\ Settle(t)
              /\ clobbered' = (clobbered \/ Clobbers(t, answer))
              /\ UNCHANGED timer
           \/ /\ answer = Missing
              /\ Take(t, DefaultWorkspace)
              /\ SaveNow(t, Tail(calls[t]), DefaultWorkspace)
              /\ clobbered' = (clobbered \/ Clobbers(t, DefaultWorkspace))
           \/ /\ answer \in Unreadable
              /\ dirty' = [dirty EXCEPT ![t] = FALSE]
              /\ phase' = [phase EXCEPT ![t] = "recovery-required"]
              /\ Settle(t)
              /\ clobbered' = (clobbered \/ dirty[t])
              /\ UNCHANGED <<workspace, timer>>
           \/ /\ answer = Failed
              /\ phase' = [phase EXCEPT ![t] = "memory-only"]
              /\ Settle(t)
              /\ UNCHANGED <<workspace, dirty, timer, clobbered>>
        /\ UNCHANGED <<store, edits, page, inbox, kept, collided>>

\* Another tab announced a newer revision: a clean tab loads it.
Hear(t) ==
    \E r \in inbox[t] :
       /\ inbox' = [inbox EXCEPT ![t] = @ \ {r}]
       /\ \/ /\ r <= workspace[t].revision
             /\ UNCHANGED <<phase, calls>>
          \/ /\ r > workspace[t].revision /\ dirty[t]
             /\ phase' = [phase EXCEPT ![t] = "memory-only"]
             /\ UNCHANGED calls
          \/ /\ r > workspace[t].revision /\ ~ dirty[t]
             /\ Ask(t, CallOf("adopt"))
             /\ UNCHANGED phase
       /\ UNCHANGED <<store, edits, page, workspace, dirty, timer, history>>

\* Defect: whether the tab is still clean is not asked again.
AdoptsIfNewer(t, answer) ==
    answer \in Workspaces /\ answer.revision > workspace[t].revision

\* A tab that is still clean and still behind adopts it.
Adopts(t, answer) ==
    /\ ~ dirty[t]
    /\ answer \in Workspaces
    /\ answer.revision > workspace[t].revision

SettleAdopt(t) ==
    LET answer == Head(calls[t]).answer
    IN  /\ Arrives(t, "adopt")
        /\ Settle(t)
        /\ \/ /\ Adopts(t, answer)
              /\ workspace' = [workspace EXCEPT ![t] = answer]
              /\ phase' = [phase EXCEPT ![t] = "saved"]
           \/ ~ Adopts(t, answer) /\ UNCHANGED <<workspace, phase>>
        /\ UNCHANGED <<store, edits, page, dirty, timer, inbox, history>>

(***************************************************************************)
(* Retry and reset.                                                        *)
(***************************************************************************)

\* Offered when the workspace is in memory only or the record is unreadable.
Retry(t) ==
    /\ t \in Open /\ phase[t] \in {"memory-only", "recovery-required"}
    /\ \/ /\ dirty[t] /\ HasRoom(t)
          /\ SaveNow(t, calls[t], workspace[t])
       \/ /\ ~ dirty[t]
          /\ phase' = [phase EXCEPT ![t] = "restoring"]
          /\ Ask(t, CallOf("restore"))
          /\ UNCHANGED timer
    /\ UNCHANGED <<store, edits, page, workspace, dirty, inbox, history>>

\* Offered when the record is unreadable, and otherwise as "reset to demo".
Reset(t) ==
    /\ t \in Open /\ phase[t] # "restoring"
    /\ edits < MaxEdits
    /\ edits' = edits + 1
    /\ Ask(t, CallOf("remove"))
    /\ UNCHANGED <<store, page, tabVars, inbox, history>>

\* The record is removed, whatever it is by now.
PerformRemove(t) ==
    \E i \in DOMAIN calls[t] :
       /\ IsNext(t, i) /\ calls[t][i].op = "remove"
       /\ \/ /\ Answer(t, i, "removed")
             /\ store' = Missing
             /\ collided' = (collided \/ store \in Workspaces)
          \/ /\ Answer(t, i, Failed)
             /\ UNCHANGED <<store, collided>>
       /\ UNCHANGED <<edits, page, tabVars, inbox, kept, clobbered>>

\* After a failed removal nothing happens.
SettleReset(t) ==
    /\ Arrives(t, "remove")
    /\ \/ /\ Head(calls[t]).answer = "removed"
          /\ LET next == [DefaultWorkspace EXCEPT
                             !.revision = workspace[t].revision + 1]
             IN  /\ Take(t, next)
                 /\ SaveNow(t, Tail(calls[t]), next)
       \/ /\ Head(calls[t]).answer = Failed
          /\ Settle(t)
          /\ UNCHANGED tabVars
    /\ UNCHANGED <<store, edits, page, inbox, history>>

(***************************************************************************)
(* The specification.                                                      *)
(***************************************************************************)
Init ==
    /\ store \in [revision : 1..MaxRevision, content : {0}]
                  \cup [revision : 0..MaxRevision, content : {Invalid}]
                  \cup {Missing}
    /\ edits = 0
    /\ page = [t \in Tabs |-> "new"]
    /\ workspace = [t \in Tabs |-> DefaultWorkspace]
    /\ dirty = [t \in Tabs |-> FALSE]
    /\ phase = [t \in Tabs |-> "restoring"]
    /\ timer = [t \in Tabs |-> Unset]
    /\ calls = [t \in Tabs |-> <<>>]
    /\ inbox = [t \in Tabs |-> {}]
    /\ kept = {store} \cap Workspaces
    /\ collided = FALSE
    /\ clobbered = FALSE

\* What IndexedDB and the event loop of a tab do without being asked again.
Work(t) ==
    \/ TimerFires(t)
    \/ PerformSave(t) \/ SettleSaved(t) \/ SettleUnsaved(t)
    \/ PerformLoad(t) \/ SettleRestore(t) \/ SettleAdopt(t) \/ Hear(t)
    \/ PerformRemove(t) \/ SettleReset(t)

Next ==
    \E t \in Tabs :
       \/ OpenTab(t) \/ Edit(t) \/ HidePage(t) \/ CloseTab(t)
       \/ Retry(t) \/ Reset(t)
       \/ Work(t)

Spec == Init /\ [][Next]_vars

\* IndexedDB answers every call and the event loop delivers every answer.  A
\* page is not hidden and shown again for ever.
Fairness ==
    /\ \A t \in Tabs : WF_vars(Work(t))
    /\ <>[][~ \E t \in Tabs : HidePage(t)]_vars

FairSpec == Spec /\ Fairness

(***************************************************************************)
(* Properties.                                                             *)
(***************************************************************************)

\* Every variable has its type.
TypeOK ==
    /\ store \in Records \cup {Missing}
    /\ edits \in 0..MaxEdits
    /\ page \in [Tabs -> {"new", "open", "closed"}]
    /\ workspace \in [Tabs -> Workspaces]
    /\ dirty \in [Tabs -> BOOLEAN]
    /\ phase \in [Tabs -> Phases]
    /\ timer \in [Tabs -> Workspaces \cup {Unset}]
    /\ calls \in [Tabs -> Seq(Calls)]
    /\ inbox \in [Tabs -> SUBSET Nat]
    /\ kept \subseteq Workspaces
    /\ collided \in BOOLEAN /\ clobbered \in BOOLEAN

\* A tab that says "saved" has nothing unsaved, whatever was rejected,
\* announced or answered late.
SavedIsClean == \A t \in Open : phase[t] = "saved" => ~ dirty[t]

\* The latest save of the queue is under way with w.
Carries(queue, w) ==
    \E i \in DOMAIN queue :
       queue[i].op = "save" /\ queue[i].latest /\ queue[i].snapshot = w

\* Unsaved work is on its way to the record, or the user is told that it is not.
UnsavedIsPending ==
    \A t \in Open : dirty[t] => \/ timer[t] = workspace[t]
                                \/ Carries(calls[t], workspace[t])
                                \/ phase[t] = "memory-only"

\* The record was removed by a reset that the tab has not heard of yet.
Resetting(t) == \E i \in DOMAIN calls[t] : calls[t][i].answer = "removed"

\* What a tab shows as saved is the record, or a later revision replaced it, or
\* a reset is removing it.
SavedIsStored ==
    \A t \in Open : phase[t] = "saved" =>
        \/ store = workspace[t]
        \/ store \in Workspaces /\ store.revision > workspace[t].revision
        \/ store = Missing /\ \E u \in Tabs : Resetting(u)

\* Only one tab was ever opened.
Alone == \A t, u \in Tabs : page[t] # "new" /\ page[u] # "new" => t = u

\* What a tab shows as saved was at some time the record.
SavedWasStored == \A t \in Open : phase[t] = "saved" => workspace[t] \in kept

\* What a tab shows as saved is stored, if the tab is alone, whatever it retries
\* and resets; and for any number of tabs, as long as no tab removes or replaces
\* what another one stored at the same revision and no late load replaces work.
\* It was stored at some time, at least, unless a late load replaced work.
SavedIsStoredUnlessLost ==
    /\ Alone \/ (~ collided /\ ~ clobbered) => SavedIsStored
    /\ ~ clobbered => SavedWasStored

\* A tab does not stay at "saving" or "restoring": the save or the load succeeds
\* or the user is told.
WaitingEnds ==
    \A t \in Tabs, waiting \in {"saving", "restoring"} :
        (t \in Open /\ phase[t] = waiting) ~> (t \notin Open \/ phase[t] # waiting)
=============================================================================
