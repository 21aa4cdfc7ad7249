--------------------- MODULE PersistentWorkspaceProofs ---------------------
(***************************************************************************)
(* Proofs about PersistentWorkspace for any tabs and any bounds.           *)
(***************************************************************************)
EXTENDS PersistentWorkspace, SequenceTheorems, TLAPS

-----------------------------------------------------------------------------
(* Calls and queues of calls.                                              *)

\* A call's kind tells which fields it has.
LEMMA CallKinds ==
    ASSUME NEW c \in Calls
    PROVE  /\ c.op = "save" => c \in Saves
           /\ c.op \in {"restore", "adopt"} => c \in Loads
           /\ c.op = "remove" => c \in Removals
BY DEF Calls, Saves, Loads, Removals

\* A call that is asked has no answer yet.
LEMMA AskedIsCall ==
    ASSUME NEW op \in {"restore", "adopt", "remove"}
    PROVE  CallOf(op) \in Calls
BY DEF CallOf, Calls, Loads, Removals

\* A call of a kind may get that kind's answers.
LEMMA AnsweredIsCall ==
    ASSUME NEW c \in Calls, NEW a,
           \/ c.op = "save" /\ a \in {Failed, "saved", "stale"}
           \/ c.op \in {"restore", "adopt"} /\ a \in Records \cup {Missing, Failed}
           \/ c.op = "remove" /\ a \in {Failed, "removed"}
    PROVE  [c EXCEPT !.answer = a] \in Calls
<1>1. CASE c.op = "save"
    <2>1. c \in Saves
        BY <1>1, CallKinds
    <2>2. a \in {Failed, "saved", "stale"}
        BY <1>1
    <2> QED
        BY <2>1, <2>2 DEF Saves, Calls
<1>2. CASE c.op \in {"restore", "adopt"}
    <2>1. c \in Loads
        BY <1>2, CallKinds
    <2>2. a \in Records \cup {Missing, Failed}
        BY <1>2
    <2> QED
        BY <2>1, <2>2 DEF Loads, Calls
<1>3. CASE c.op = "remove"
    <2>1. c \in Removals
        BY <1>3, CallKinds
    <2>2. a \in {Failed, "removed"}
        BY <1>3
    <2> QED
        BY <2>1, <2>2 DEF Removals, Calls
<1> QED
    BY <1>1, <1>2, <1>3

\* Asking a call keeps what the queue carries.
LEMMA AppendCarries ==
    ASSUME NEW q \in Seq(Calls), NEW c \in Calls, NEW w
    PROVE  /\ Append(q, c) \in Seq(Calls)
           /\ Carries(q, w) => Carries(Append(q, c), w)
<1>1. /\ Append(q, c) \in Seq(Calls)
      /\ Len(Append(q, c)) = Len(q) + 1
      /\ \A i \in 1..Len(q) : Append(q, c)[i] = q[i]
    BY AppendProperties
<1>2. Len(q) \in Nat /\ DOMAIN q = 1..Len(q)
    BY LenProperties
<1>3. DOMAIN Append(q, c) = 1..(Len(q) + 1)
    BY <1>1, LenProperties
<1> QED
    BY <1>1, <1>2, <1>3 DEF Carries

\* A new save is the latest, and so the one the queue carries.
LEMMA WithSaveCarries ==
    ASSUME NEW q \in Seq(Calls), NEW w \in Workspaces
    PROVE  WithSave(q, w) \in Seq(Calls) /\ Carries(WithSave(q, w), w)
<1> DEFINE superseded(c) == IF c.op = "save" THEN [c EXCEPT !.latest = FALSE] ELSE c
           older == [i \in DOMAIN q |-> superseded(q[i])]
           save == [op |-> "save", snapshot |-> w, latest |-> TRUE,
                    answer |-> Unset]
<1>1. Len(q) \in Nat /\ DOMAIN q = 1..Len(q) /\ \A i \in DOMAIN q : q[i] \in Calls
    BY ElementOfSeq, LenProperties
<1>2. ASSUME NEW c \in Calls PROVE superseded(c) \in Calls
    <2>1. CASE c.op = "save"
        <3>1. c \in Saves
            BY <2>1, CallKinds
        <3>2. [c EXCEPT !.latest = FALSE] \in Saves
            BY <3>1 DEF Saves
        <3> QED
            BY <3>2, <2>1 DEF Calls
    <2> QED
        BY <2>1
<1>3. older \in Seq(Calls) /\ Len(older) = Len(q)
    <2>1. older \in [1..Len(q) -> Calls]
        BY <1>1, <1>2
    <2> QED
        BY <2>1, <1>1, IsASeq, LenProperties
<1>4. save \in Calls
    BY DEF Calls, Saves
<1>5. WithSave(q, w) = Append(older, save)
    BY DEF WithSave
<1> HIDE DEF older, save
<1>6. /\ Append(older, save) \in Seq(Calls)
      /\ Len(Append(older, save)) = Len(older) + 1
      /\ Append(older, save)[Len(older) + 1] = save
    BY <1>3, <1>4, AppendProperties
<1>7. Len(older) + 1 \in DOMAIN Append(older, save)
    BY <1>1, <1>3, <1>6, LenProperties
<1>8. save.op = "save" /\ save.latest /\ save.snapshot = w
    BY DEF save
<1> QED
    BY <1>5, <1>6, <1>7, <1>8 DEF Carries

\* What is settled is the first call; the others keep what they carry.
LEMMA TailCarries ==
    ASSUME NEW q \in Seq(Calls), q # <<>>, NEW w
    PROVE  /\ Head(q) \in Calls
           /\ Tail(q) \in Seq(Calls)
           /\ Carries(q, w) =>
                 \/ Carries(Tail(q), w)
                 \/ Head(q).op = "save" /\ Head(q).latest /\ Head(q).snapshot = w
<1>1. /\ Head(q) \in Calls
      /\ Tail(q) \in Seq(Calls)
      /\ Len(Tail(q)) = Len(q) - 1
      /\ \A i \in 1..Len(Tail(q)) : Tail(q)[i] = q[i + 1]
    BY HeadTailProperties
<1>2. /\ Len(q) \in Nat /\ DOMAIN q = 1..Len(q)
      /\ DOMAIN Tail(q) = 1..Len(Tail(q))
    BY <1>1, LenProperties
<1>3. ASSUME NEW i \in DOMAIN q,
             q[i].op = "save", q[i].latest, q[i].snapshot = w
      PROVE  \/ Carries(Tail(q), w)
             \/ Head(q).op = "save" /\ Head(q).latest /\ Head(q).snapshot = w
    <2>1. CASE i = 1
        BY <1>3, <2>1
    <2>2. CASE i # 1
        <3>1. i - 1 \in DOMAIN Tail(q) /\ Tail(q)[i - 1] = q[i]
            BY <1>1, <1>2, <2>2
        <3> QED
            BY <1>3, <3>1 DEF Carries
    <2> QED
        BY <2>1, <2>2
<1> QED
    BY <1>1, <1>3 DEF Carries

\* An answer changes neither kinds nor snapshots.
LEMMA AnswerCarries ==
    ASSUME NEW q \in Seq(Calls), NEW i \in DOMAIN q, NEW a, NEW w,
           [q[i] EXCEPT !.answer = a] \in Calls
    PROVE  /\ [q EXCEPT ![i].answer = a] \in Seq(Calls)
           /\ Carries(q, w) => Carries([q EXCEPT ![i].answer = a], w)
<1> DEFINE c == [q[i] EXCEPT !.answer = a]
           r == [q EXCEPT ![i] = c]
<1>1. Len(q) \in Nat /\ DOMAIN q = 1..Len(q) /\ \A j \in DOMAIN q : q[j] \in Calls
    BY ElementOfSeq, LenProperties
<1>2. r \in Seq(Calls) /\ DOMAIN r = DOMAIN q
    BY <1>1, ExceptSeq
<1>3. /\ q[i].op = "save" => /\ c.op = "save"
                             /\ c.latest = q[i].latest
                             /\ c.snapshot = q[i].snapshot
    BY <1>1, CallKinds DEF Saves
<1>4. \A j \in DOMAIN q : r[j] = IF j = i THEN c ELSE q[j]
    BY <1>1
<1>5. Carries(q, w) => Carries(r, w)
    BY <1>2, <1>3, <1>4 DEF Carries
<1> QED
    BY <1>2, <1>5

-----------------------------------------------------------------------------
(* The inductive invariant.  A tab that has not opened has no work; unsaved *)
(* work is what the timer, if it runs, will save.                          *)
TabOK(t) ==
    /\ phase[t] = "saved" => ~ dirty[t]
    /\ page[t] = "new" => ~ dirty[t]
    /\ dirty[t] => timer[t] \in {Unset, workspace[t]}
    /\ page[t] = "open" /\ dirty[t] => \/ timer[t] = workspace[t]
                                       \/ Carries(calls[t], workspace[t])
                                       \/ phase[t] = "memory-only"

Inv == TypeOK /\ \A t \in Tabs : TabOK(t)

\* A step changes nothing of this tab.
Same(t) ==
    /\ page'[t] = page[t]
    /\ workspace'[t] = workspace[t]
    /\ dirty'[t] = dirty[t]
    /\ phase'[t] = phase[t]
    /\ timer'[t] = timer[t]
    /\ calls'[t] = calls[t]

\* A step that changes nothing of a tab leaves it as it should be.
LEMMA SameTab ==
    ASSUME NEW t \in Tabs, TabOK(t), Same(t)
    PROVE  TabOK(t)'
BY DEF TabOK, Same

\* The default workspace is a workspace.
LEMMA DefaultIsWorkspace == DefaultWorkspace \in Workspaces
BY DEF DefaultWorkspace, Workspaces

\* The marker values, which the actions compare with.
LEMMA Markers ==
    /\ Unset \notin Workspaces /\ Missing \notin Workspaces
    /\ Failed \notin Workspaces
    /\ Workspaces \subseteq Records
BY ConstantsAssumption DEF Records

-----------------------------------------------------------------------------
(* The invariant holds at first and each action preserves it.              *)

\* No tab is open and no tab has work.
LEMMA InitInv == Init => Inv
<1> SUFFICES ASSUME Init PROVE Inv
    OBVIOUS
<1>1. store \in Records \cup {Missing}
    BY ConstantsAssumption DEF Init, Records, Workspaces, Unreadable
<1>2. <<>> \in Seq(Calls)
    BY EmptySeq
<1>3. TypeOK
    <2>1. edits \in 0..MaxEdits /\ kept \subseteq Workspaces
        BY ConstantsAssumption DEF Init
    <2>2. /\ page \in [Tabs -> {"new", "open", "closed"}]
          /\ workspace \in [Tabs -> Workspaces]
          /\ dirty \in [Tabs -> BOOLEAN]
          /\ phase \in [Tabs -> Phases]
          /\ timer \in [Tabs -> Workspaces \cup {Unset}]
          /\ calls \in [Tabs -> Seq(Calls)]
          /\ inbox \in [Tabs -> SUBSET Nat]
        BY <1>2, DefaultIsWorkspace DEF Init, Phases
    <2>3. collided \in BOOLEAN /\ clobbered \in BOOLEAN
        BY DEF Init
    <2> QED
        BY <1>1, <2>1, <2>2, <2>3 DEF TypeOK
<1>4. \A t \in Tabs : TabOK(t)
    BY DEF Init, TabOK
<1> QED
    BY <1>3, <1>4 DEF Inv

\* Opening asks for the record and changes nothing else.
LEMMA OpenTabInv ==
    ASSUME TypeOK, NEW t \in Tabs, TabOK(t), OpenTab(t)
    PROVE  TypeOK' /\ TabOK(t)' /\ \A u \in Tabs \ {t} : Same(u)
<1>1. Append(calls[t], CallOf("restore")) \in Seq(Calls)
    BY AskedIsCall, AppendCarries DEF TypeOK
<1>2. TypeOK'
    BY <1>1 DEF OpenTab, Ask, TypeOK, tabVars, history
<1>3. ~ dirty'[t] /\ page'[t] = "open"
    BY DEF OpenTab, TabOK, TypeOK, tabVars
<1> QED
    BY <1>2, <1>3 DEF OpenTab, Ask, TypeOK, TabOK, Same, tabVars

\* Edited work is in the timer or in a save.
LEMMA EditInv ==
    ASSUME TypeOK, NEW t \in Tabs, TabOK(t), Edit(t)
    PROVE  TypeOK' /\ TabOK(t)' /\ \A u \in Tabs \ {t} : Same(u)
<1> DEFINE next == [revision |-> workspace[t].revision + 1, content |-> edits + 1]
<1>1. next \in Workspaces /\ edits + 1 \in 0..MaxEdits
    BY ConstantsAssumption DEF Edit, TypeOK, Workspaces
<1>2. WithSave(calls[t], next) \in Seq(Calls) /\ Carries(WithSave(calls[t], next), next)
    BY <1>1, WithSaveCarries DEF TypeOK
<1>3. /\ Take(t, next)
      /\ SaveLater(t, next) \/ SaveNow(t, calls[t], next)
      /\ edits' = edits + 1
      /\ UNCHANGED <<store, page, inbox, history>>
    BY DEF Edit
<1> HIDE DEF next
<1>4. TypeOK'
    <2>1. workspace' \in [Tabs -> Workspaces] /\ dirty' \in [Tabs -> BOOLEAN]
        BY <1>1, <1>3 DEF TypeOK, Take
    <2>2. /\ phase' \in [Tabs -> Phases]
          /\ timer' \in [Tabs -> Workspaces \cup {Unset}]
          /\ calls' \in [Tabs -> Seq(Calls)]
        <3>1. CASE SaveLater(t, next)
            BY <1>1, <3>1 DEF TypeOK, SaveLater, Phases
        <3>2. CASE SaveNow(t, calls[t], next)
            BY <1>2, <3>2 DEF TypeOK, SaveNow, Phases
        <3> QED
            BY <1>3, <3>1, <3>2
    <2> QED
        BY <1>1, <1>3, <2>1, <2>2 DEF TypeOK, history
<1>5. /\ workspace'[t] = next
      /\ phase'[t] = "saving"
      /\ \/ timer'[t] = next
         \/ timer'[t] = Unset /\ Carries(calls'[t], next)
    <2>1. workspace'[t] = next
        BY <1>3 DEF TypeOK, Take
    <2>2. CASE SaveLater(t, next)
        BY <2>1, <2>2 DEF TypeOK, SaveLater
    <2>3. CASE SaveNow(t, calls[t], next)
        <3>1. calls'[t] = WithSave(calls[t], next)
            BY <2>3 DEF TypeOK, SaveNow
        <3> QED
            BY <1>2, <2>1, <2>3, <3>1 DEF TypeOK, SaveNow
    <2> QED
        BY <1>3, <2>2, <2>3
<1>6. page'[t] # "new"
    BY <1>3 DEF Edit, Open
<1>7. TabOK(t)'
    BY <1>5, <1>6 DEF TabOK
<1> QED
    BY <1>3, <1>4, <1>7 DEF Same, TypeOK, Take, SaveLater, SaveNow

\* What the timer held is in the latest save.
LEMMA TimerFiresInv ==
    ASSUME TypeOK, NEW t \in Tabs, TabOK(t), TimerFires(t)
    PROVE  TypeOK' /\ TabOK(t)' /\ \A u \in Tabs \ {t} : Same(u)
<1>1. timer[t] \in Workspaces
    BY DEF TimerFires, TypeOK
<1>2. /\ WithSave(calls[t], timer[t]) \in Seq(Calls)
      /\ Carries(WithSave(calls[t], timer[t]), timer[t])
    BY <1>1, WithSaveCarries DEF TypeOK
<1>3. TypeOK'
    BY <1>2 DEF TimerFires, Save, TypeOK, history
<1>4. /\ timer'[t] = Unset
      /\ calls'[t] = WithSave(calls[t], timer[t])
      /\ UNCHANGED <<page, workspace, dirty, phase>>
    BY DEF TimerFires, Save, TypeOK
<1>5. dirty[t] => timer[t] = workspace[t]
    BY <1>1, Markers DEF TabOK
<1>6. TabOK(t)'
    BY <1>2, <1>4, <1>5 DEF TabOK
<1> QED
    BY <1>3, <1>6 DEF TimerFires, Save, Same, TypeOK

\* A page that is hidden saves its work once more.
LEMMA HidePageInv ==
    ASSUME TypeOK, NEW t \in Tabs, TabOK(t), HidePage(t)
    PROVE  TypeOK' /\ TabOK(t)' /\ \A u \in Tabs \ {t} : Same(u)
<1>1. /\ WithSave(calls[t], workspace[t]) \in Seq(Calls)
      /\ Carries(WithSave(calls[t], workspace[t]), workspace[t])
    BY WithSaveCarries DEF TypeOK
<1>2. TypeOK'
    BY <1>1 DEF HidePage, Save, TypeOK, tabVars, history
<1>3. /\ calls'[t] = WithSave(calls[t], workspace[t])
      /\ UNCHANGED <<page, workspace, dirty, phase, timer>>
    BY DEF HidePage, Save, TypeOK, tabVars
<1>4. TabOK(t)'
    BY <1>1, <1>3 DEF TabOK
<1> QED
    BY <1>2, <1>4 DEF HidePage, Save, Same, TypeOK, tabVars

\* Nothing is said of the work of a closed tab.
LEMMA CloseTabInv ==
    ASSUME TypeOK, NEW t \in Tabs, TabOK(t), CloseTab(t)
    PROVE  TypeOK' /\ TabOK(t)' /\ \A u \in Tabs \ {t} : Same(u)
<1>1. TypeOK'
    BY DEF CloseTab, TypeOK, history
<1>2. /\ page'[t] = "closed" /\ timer'[t] = Unset
      /\ UNCHANGED <<workspace, dirty, phase, calls>>
    BY DEF CloseTab, TypeOK
<1>3. TabOK(t)'
    BY <1>2 DEF TabOK
<1> QED
    BY <1>1, <1>3 DEF CloseTab, Same, TypeOK

\* scheduleSave(w, TRUE) after the tab has taken w.
LEMMA TakeAndSave ==
    ASSUME TypeOK, NEW t \in Tabs, NEW q \in Seq(Calls), NEW w \in Workspaces,
           Take(t, w), SaveNow(t, q, w), page'[t] # "new"
    PROVE  /\ workspace' \in [Tabs -> Workspaces]
           /\ dirty' \in [Tabs -> BOOLEAN]
           /\ phase' \in [Tabs -> Phases]
           /\ timer' \in [Tabs -> Workspaces \cup {Unset}]
           /\ calls' \in [Tabs -> Seq(Calls)]
           /\ TabOK(t)'
<1>1. WithSave(q, w) \in Seq(Calls) /\ Carries(WithSave(q, w), w)
    BY WithSaveCarries
<1>2. workspace' \in [Tabs -> Workspaces] /\ dirty' \in [Tabs -> BOOLEAN]
    BY DEF TypeOK, Take
<1>3. /\ phase' \in [Tabs -> Phases]
      /\ timer' \in [Tabs -> Workspaces \cup {Unset}]
      /\ calls' \in [Tabs -> Seq(Calls)]
    BY <1>1 DEF TypeOK, SaveNow, Phases
<1>4. workspace'[t] = w
    BY DEF TypeOK, Take
<1>5. /\ phase'[t] = "saving" /\ timer'[t] = Unset
      /\ calls'[t] = WithSave(q, w)
    BY DEF TypeOK, SaveNow
<1>6. TabOK(t)'
    BY <1>1, <1>4, <1>5 DEF TabOK
<1> QED
    BY <1>2, <1>3, <1>6

\* IndexedDB's answer to a call.
LEMMA AnswerInv ==
    ASSUME TypeOK, NEW t \in Tabs, NEW i \in DOMAIN calls[t], NEW a,
           [calls[t][i] EXCEPT !.answer = a] \in Calls,
           Answer(t, i, a)
    PROVE  /\ calls' \in [Tabs -> Seq(Calls)]
           /\ \A w : Carries(calls[t], w) => Carries(calls'[t], w)
           /\ \A u \in Tabs \ {t} : calls'[u] = calls[u]
<1>1. calls[t] \in Seq(Calls)
    BY DEF TypeOK
<1>2. calls'[t] = [calls[t] EXCEPT ![i].answer = a]
    BY DEF Answer, TypeOK
<1>3. /\ calls'[t] \in Seq(Calls)
      /\ \A w : Carries(calls[t], w) => Carries(calls'[t], w)
    <2> DEFINE q == calls[t]
               r == [q EXCEPT ![i].answer = a]
    <2>1. q \in Seq(Calls) /\ i \in DOMAIN q /\ [q[i] EXCEPT !.answer = a] \in Calls
        BY <1>1
    <2>2. calls'[t] = r
        BY <1>2
    <2> HIDE DEF q
    <2>3. \A w : r \in Seq(Calls) /\ (Carries(q, w) => Carries(r, w))
        BY <2>1, AnswerCarries
    <2> HIDE DEF r
    <2>4. calls'[t] \in Seq(Calls) /\ \A w : Carries(q, w) => Carries(calls'[t], w)
        BY <2>2, <2>3
    <2> QED
        BY <2>4 DEF q
<1>4. calls' = [calls EXCEPT ![t] = calls'[t]]
    BY <1>2 DEF Answer, TypeOK
<1> QED
    BY <1>3, <1>4 DEF TypeOK

\* A step that only adds an answer leaves the tab as it should be.
LEMMA AnsweredTab ==
    ASSUME NEW t \in Tabs, TabOK(t),
           UNCHANGED <<page, workspace, dirty, phase, timer>>,
           Carries(calls[t], workspace[t]) => Carries(calls'[t], workspace[t])
    PROVE  TabOK(t)'
BY DEF TabOK

\* A call of t was performed: what that may change.
Performed(t) ==
    /\ \E i \in DOMAIN calls[t] :
          \E a : [calls[t][i] EXCEPT !.answer = a] \in Calls /\ Answer(t, i, a)
    /\ store' \in Records \cup {Missing} /\ kept' \subseteq Workspaces
    /\ collided' \in BOOLEAN /\ clobbered' \in BOOLEAN
    /\ UNCHANGED <<edits, page, workspace, dirty, phase, timer, inbox>>

\* Saves, loads and removals are performed without the tab noticing.
LEMMA PerformInv ==
    ASSUME TypeOK, NEW t \in Tabs, TabOK(t),
           PerformSave(t) \/ PerformLoad(t) \/ PerformRemove(t)
    PROVE  TypeOK' /\ TabOK(t)' /\ \A u \in Tabs \ {t} : Same(u)
<1>1. \A i \in DOMAIN calls[t] : calls[t][i] \in Calls
    BY ElementOfSeq, LenProperties DEF TypeOK
<1>2. ASSUME PerformSave(t)
      PROVE  Performed(t)
    <2>1. PICK i \in DOMAIN calls[t] :
             LET snapshot == calls[t][i].snapshot
             IN  /\ calls[t][i].op = "save"
                 /\ \/ /\ Answer(t, i, "saved")
                       /\ store' = snapshot
                       /\ kept' = kept \cup {snapshot}
                       /\ collided' = (collided \/
                                        /\ store \in Workspaces \ {snapshot}
                                        /\ store.revision = snapshot.revision)
                       /\ UNCHANGED clobbered
                    \/ /\ Answer(t, i, "stale") \/ Answer(t, i, Failed)
                       /\ UNCHANGED <<store, history>>
                 /\ UNCHANGED <<edits, page, tabVars, inbox>>
        BY <1>2 DEF PerformSave
    <2>2. calls[t][i] \in Saves /\ calls[t][i].snapshot \in Workspaces
        BY <1>1, <2>1, CallKinds DEF Saves
    <2>3. \A a \in {"saved", "stale", Failed} :
             [calls[t][i] EXCEPT !.answer = a] \in Calls
        BY <1>1, <2>1, AnsweredIsCall
    <2>4. \E a : [calls[t][i] EXCEPT !.answer = a] \in Calls /\ Answer(t, i, a)
        BY <2>1, <2>3
    <2>5. store' \in Records \cup {Missing} /\ kept' \subseteq Workspaces
        BY <2>1, <2>2, Markers DEF TypeOK, history
    <2>6. collided' \in BOOLEAN /\ clobbered' \in BOOLEAN
        BY <2>1 DEF TypeOK, history
    <2> QED
        BY <2>1, <2>4, <2>5, <2>6 DEF Performed, tabVars
<1>3. ASSUME PerformLoad(t)
      PROVE  Performed(t)
    <2>1. PICK i \in DOMAIN calls[t] :
             /\ calls[t][i].op \in {"restore", "adopt"}
             /\ Answer(t, i, store) \/ Answer(t, i, Failed)
             /\ UNCHANGED <<store, edits, page, tabVars, inbox, history>>
        BY <1>3 DEF PerformLoad
    <2>2. \A a \in Records \cup {Missing, Failed} :
             [calls[t][i] EXCEPT !.answer = a] \in Calls
        BY <1>1, <2>1, AnsweredIsCall
    <2>3. \E a : [calls[t][i] EXCEPT !.answer = a] \in Calls /\ Answer(t, i, a)
        BY <2>1, <2>2 DEF TypeOK
    <2> QED
        BY <2>1, <2>3 DEF Performed, TypeOK, tabVars, history
<1>4. ASSUME PerformRemove(t)
      PROVE  Performed(t)
    <2>1. PICK i \in DOMAIN calls[t] :
             /\ calls[t][i].op = "remove"
             /\ \/ /\ Answer(t, i, "removed")
                   /\ store' = Missing
                   /\ collided' = (collided \/ store \in Workspaces)
                \/ /\ Answer(t, i, Failed)
                   /\ UNCHANGED <<store, collided>>
             /\ UNCHANGED <<edits, page, tabVars, inbox, kept, clobbered>>
        BY <1>4 DEF PerformRemove
    <2>2. \A a \in {"removed", Failed} : [calls[t][i] EXCEPT !.answer = a] \in Calls
        BY <1>1, <2>1, AnsweredIsCall
    <2>3. \E a : [calls[t][i] EXCEPT !.answer = a] \in Calls /\ Answer(t, i, a)
        BY <2>1, <2>2
    <2> QED
        BY <2>1, <2>3 DEF Performed, TypeOK, tabVars
<1>5. Performed(t)
    BY <1>2, <1>3, <1>4
<1>6. /\ calls' \in [Tabs -> Seq(Calls)]
      /\ \A w : Carries(calls[t], w) => Carries(calls'[t], w)
      /\ \A u \in Tabs \ {t} : calls'[u] = calls[u]
    BY <1>5, AnswerInv DEF Performed
<1>7. TypeOK'
    BY <1>5, <1>6 DEF TypeOK, Performed
<1>8. TabOK(t)'
    BY <1>5, <1>6, AnsweredTab DEF Performed
<1> QED
    BY <1>5, <1>6, <1>7, <1>8 DEF Same, Performed

\* Settling takes the first call away.
LEMMA SettleInv ==
    ASSUME TypeOK, NEW t \in Tabs, calls[t] # <<>>, Settle(t)
    PROVE  /\ Head(calls[t]) \in Calls
           /\ calls' \in [Tabs -> Seq(Calls)]
           /\ \A u \in Tabs \ {t} : calls'[u] = calls[u]
           /\ \A w : Carries(calls[t], w) =>
                 \/ Carries(calls'[t], w)
                 \/ /\ Head(calls[t]).op = "save" /\ Head(calls[t]).latest
                    /\ Head(calls[t]).snapshot = w
<1>1. calls[t] \in Seq(Calls)
    BY DEF TypeOK
<1>2. calls'[t] = Tail(calls[t])
    BY DEF Settle, TypeOK
<1>3. Head(calls[t]) \in Calls /\ Tail(calls[t]) \in Seq(Calls)
    BY <1>1, TailCarries
<1>4. \A w : Carries(calls[t], w) =>
         \/ Carries(Tail(calls[t]), w)
         \/ /\ Head(calls[t]).op = "save" /\ Head(calls[t]).latest
            /\ Head(calls[t]).snapshot = w
    BY <1>1, TailCarries
<1> QED
    BY <1>2, <1>3, <1>4 DEF Settle, TypeOK

\* A save that speaks for the tab leaves no unsaved work; any other one is not
\* the latest save of the tab's work.
LEMMA SettleSavedInv ==
    ASSUME TypeOK, NEW t \in Tabs, TabOK(t), SettleSaved(t)
    PROVE  TypeOK' /\ TabOK(t)' /\ \A u \in Tabs \ {t} : Same(u)
<1> DEFINE s == Head(calls[t])
<1>1. /\ Arrives(t, "save")
      /\ Settle(t)
      /\ UNCHANGED <<store, edits, page, workspace, timer, history>>
    BY DEF SettleSaved
<1>2. /\ s \in Calls
      /\ calls' \in [Tabs -> Seq(Calls)]
      /\ \A u \in Tabs \ {t} : calls'[u] = calls[u]
      /\ Carries(calls[t], workspace[t]) =>
            \/ Carries(calls'[t], workspace[t])
            \/ s.latest /\ s.snapshot = workspace[t]
    BY <1>1, SettleInv DEF Arrives
<1>3. s \in Saves
    BY <1>1, <1>2, CallKinds DEF Arrives
<1>4. CASE Speaks(t, s)
    <2>1. /\ dirty' = [dirty EXCEPT ![t] = FALSE]
          /\ phase' = [phase EXCEPT ![t] = "saved"]
          /\ inbox' = [u \in Tabs |-> inbox[u] \cup
                          IF u \in Open \ {t} THEN {s.snapshot.revision} ELSE {}]
        BY <1>4 DEF SettleSaved
    <2>2. s.snapshot.revision \in Nat
        BY <1>3 DEF Saves, Workspaces
    <2> HIDE DEF s
    <2>3. inbox' \in [Tabs -> SUBSET Nat]
        BY <2>1, <2>2 DEF TypeOK
    <2>4. dirty' \in [Tabs -> BOOLEAN] /\ phase' \in [Tabs -> Phases]
        BY <2>1 DEF TypeOK, Phases
    <2>5. TypeOK'
        BY <1>1, <1>2, <2>3, <2>4 DEF TypeOK, history
    <2>6. ~ dirty'[t]
        BY <2>1 DEF TypeOK
    <2>7. TabOK(t)'
        BY <2>6 DEF TabOK
    <2> QED
        BY <1>1, <1>2, <2>1, <2>5, <2>7 DEF Same, TypeOK
<1>5. CASE ~ Speaks(t, s)
    <2>1. UNCHANGED <<dirty, phase, inbox>>
        BY <1>5 DEF SettleSaved
    <2>2. TypeOK'
        BY <1>1, <1>2, <2>1 DEF TypeOK, history
    <2>3. Carries(calls[t], workspace[t]) => Carries(calls'[t], workspace[t])
        BY <1>2, <1>5 DEF Speaks
    <2>4. TabOK(t)'
        BY <1>1, <2>1, <2>3, AnsweredTab
    <2> QED
        BY <1>1, <1>2, <2>1, <2>2, <2>4 DEF Same
<1> QED
    BY <1>4, <1>5

\* When the latest save fails the user is told.
LEMMA SettleUnsavedInv ==
    ASSUME TypeOK, NEW t \in Tabs, TabOK(t), SettleUnsaved(t)
    PROVE  TypeOK' /\ TabOK(t)' /\ \A u \in Tabs \ {t} : Same(u)
<1> DEFINE s == Head(calls[t])
<1>1. /\ Arrives(t, "save")
      /\ Settle(t)
      /\ phase' = [phase EXCEPT ![t] = IF s.latest THEN "memory-only" ELSE @]
      /\ UNCHANGED <<store, edits, page, workspace, dirty, timer, inbox, history>>
    BY DEF SettleUnsaved
<1>2. /\ calls' \in [Tabs -> Seq(Calls)]
      /\ \A u \in Tabs \ {t} : calls'[u] = calls[u]
      /\ Carries(calls[t], workspace[t]) => Carries(calls'[t], workspace[t]) \/ s.latest
    BY <1>1, SettleInv DEF Arrives
<1> HIDE DEF s
<1>3. TypeOK'
    BY <1>1, <1>2 DEF TypeOK, Phases, history
<1>4. phase'[t] = IF s.latest THEN "memory-only" ELSE phase[t]
    BY <1>1 DEF TypeOK
<1>5. TabOK(t)'
    BY <1>1, <1>2, <1>4 DEF TabOK
<1> QED
    BY <1>1, <1>2, <1>3, <1>5 DEF Same, TypeOK

\* A restored workspace is clean, the default one is saved at once, and if
\* nothing could be loaded the user is told.
LEMMA SettleRestoreInv ==
    ASSUME TypeOK, NEW t \in Tabs, TabOK(t), SettleRestore(t)
    PROVE  TypeOK' /\ TabOK(t)' /\ \A u \in Tabs \ {t} : Same(u)
<1> DEFINE answer == Head(calls[t]).answer
<1>1. /\ Arrives(t, "restore")
      /\ UNCHANGED <<store, edits, page, inbox, kept, collided>>
    BY DEF SettleRestore
<1>2. page'[t] = "open" /\ calls[t] # <<>>
    BY <1>1 DEF Arrives, Open
<1>3. CASE answer \in Workspaces /\ Settle(t) /\ UNCHANGED timer
           /\ workspace' = [workspace EXCEPT ![t] = answer]
           /\ dirty' = [dirty EXCEPT ![t] = FALSE]
           /\ phase' = [phase EXCEPT ![t] = "saved"]
           /\ clobbered' \in BOOLEAN
    <2>1. calls' \in [Tabs -> Seq(Calls)] /\ \A u \in Tabs \ {t} : calls'[u] = calls[u]
        BY <1>2, <1>3, SettleInv
    <2> HIDE DEF answer
    <2>2. TypeOK'
        BY <1>1, <1>3, <2>1 DEF TypeOK, Phases
    <2>3. ~ dirty'[t]
        BY <1>3 DEF TypeOK
    <2> QED
        BY <1>1, <1>3, <2>1, <2>2, <2>3 DEF TabOK, Same, TypeOK
<1>4. CASE /\ Take(t, DefaultWorkspace)
           /\ SaveNow(t, Tail(calls[t]), DefaultWorkspace)
           /\ clobbered' \in BOOLEAN
    <2>1. Tail(calls[t]) \in Seq(Calls)
        BY <1>2, TailCarries DEF TypeOK
    <2>2. /\ workspace' \in [Tabs -> Workspaces]
          /\ dirty' \in [Tabs -> BOOLEAN]
          /\ phase' \in [Tabs -> Phases]
          /\ timer' \in [Tabs -> Workspaces \cup {Unset}]
          /\ calls' \in [Tabs -> Seq(Calls)]
          /\ TabOK(t)'
        BY <1>2, <1>4, <2>1, DefaultIsWorkspace, TakeAndSave
    <2>3. TypeOK'
        BY <1>1, <1>4, <2>2 DEF TypeOK
    <2> QED
        BY <1>1, <1>4, <2>2, <2>3 DEF Same, TypeOK, Take, SaveNow
<1>5. CASE /\ Settle(t) /\ UNCHANGED <<workspace, timer>>
           /\ dirty' = [dirty EXCEPT ![t] = FALSE]
           /\ phase' = [phase EXCEPT ![t] = "recovery-required"]
           /\ clobbered' \in BOOLEAN
    <2>1. calls' \in [Tabs -> Seq(Calls)] /\ \A u \in Tabs \ {t} : calls'[u] = calls[u]
        BY <1>2, <1>5, SettleInv
    <2>2. TypeOK'
        BY <1>1, <1>5, <2>1 DEF TypeOK, Phases
    <2>3. ~ dirty'[t]
        BY <1>5 DEF TypeOK
    <2> QED
        BY <1>1, <1>5, <2>1, <2>2, <2>3 DEF TabOK, Same, TypeOK
<1>6. CASE /\ Settle(t) /\ UNCHANGED <<workspace, dirty, timer, clobbered>>
           /\ phase' = [phase EXCEPT ![t] = "memory-only"]
    <2>1. calls' \in [Tabs -> Seq(Calls)] /\ \A u \in Tabs \ {t} : calls'[u] = calls[u]
        BY <1>2, <1>6, SettleInv
    <2>2. TypeOK'
        BY <1>1, <1>6, <2>1 DEF TypeOK, Phases
    <2>3. phase'[t] = "memory-only" /\ page'[t] # "new"
        BY <1>2, <1>6 DEF TypeOK
    <2>4. TabOK(t)'
        BY <1>6, <2>3 DEF TabOK
    <2> QED
        BY <1>1, <1>6, <2>1, <2>2, <2>4 DEF Same, TypeOK
<1>7. dirty[t] \in BOOLEAN /\ clobbered \in BOOLEAN
    BY DEF TypeOK
<1> HIDE DEF answer
<1> QED
    BY <1>3, <1>4, <1>5, <1>6, <1>7 DEF SettleRestore, answer

\* Hearing of a newer revision tells the user or asks for the record.
LEMMA HearInv ==
    ASSUME TypeOK, NEW t \in Tabs, TabOK(t), Hear(t)
    PROVE  TypeOK' /\ TabOK(t)' /\ \A u \in Tabs \ {t} : Same(u)
<1>1. PICK r \in inbox[t] :
         /\ inbox' = [inbox EXCEPT ![t] = @ \ {r}]
         /\ \/ UNCHANGED <<phase, calls>>
            \/ phase' = [phase EXCEPT ![t] = "memory-only"] /\ UNCHANGED calls
            \/ Ask(t, CallOf("adopt")) /\ UNCHANGED phase
         /\ UNCHANGED <<store, edits, page, workspace, dirty, timer, history>>
    BY DEF Hear
<1>2. inbox' \in [Tabs -> SUBSET Nat]
    BY <1>1 DEF TypeOK
<1>3. CASE UNCHANGED <<phase, calls>>
    BY <1>1, <1>2, <1>3 DEF TypeOK, TabOK, Same, history
<1>4. CASE phase' = [phase EXCEPT ![t] = "memory-only"] /\ UNCHANGED calls
    <2>1. TypeOK'
        BY <1>1, <1>2, <1>4 DEF TypeOK, Phases, history
    <2>2. phase'[t] = "memory-only"
        BY <1>4 DEF TypeOK
    <2>3. TabOK(t)'
        BY <1>1, <1>4, <2>2 DEF TabOK
    <2> QED
        BY <1>1, <1>4, <2>1, <2>3 DEF Same, TypeOK
<1>5. CASE Ask(t, CallOf("adopt")) /\ UNCHANGED phase
    <2>1. /\ Append(calls[t], CallOf("adopt")) \in Seq(Calls)
          /\ Carries(calls[t], workspace[t]) =>
                Carries(Append(calls[t], CallOf("adopt")), workspace[t])
        BY AskedIsCall, AppendCarries DEF TypeOK
    <2>2. calls'[t] = Append(calls[t], CallOf("adopt"))
        BY <1>5 DEF Ask, TypeOK
    <2>3. TypeOK'
        BY <1>1, <1>2, <1>5, <2>1 DEF TypeOK, Ask, history
    <2>4. TabOK(t)'
        BY <1>1, <1>5, <2>1, <2>2, AnsweredTab
    <2> QED
        BY <1>1, <1>5, <2>3, <2>4 DEF Same, Ask, TypeOK
<1> QED
    BY <1>1, <1>3, <1>4, <1>5

\* Only a clean tab adopts.
LEMMA SettleAdoptInv ==
    ASSUME TypeOK, NEW t \in Tabs, TabOK(t), SettleAdopt(t)
    PROVE  TypeOK' /\ TabOK(t)' /\ \A u \in Tabs \ {t} : Same(u)
<1> DEFINE answer == Head(calls[t]).answer
<1>1. /\ Arrives(t, "adopt")
      /\ Settle(t)
      /\ UNCHANGED <<store, edits, page, dirty, timer, inbox, history>>
    BY DEF SettleAdopt
<1>2. /\ calls' \in [Tabs -> Seq(Calls)]
      /\ \A u \in Tabs \ {t} : calls'[u] = calls[u]
      /\ Carries(calls[t], workspace[t]) =>
            \/ Carries(calls'[t], workspace[t])
            \/ Head(calls[t]).op = "save"
    BY <1>1, SettleInv DEF Arrives
<1>3. CASE Adopts(t, answer)
    <2>1. /\ workspace' = [workspace EXCEPT ![t] = answer]
          /\ phase' = [phase EXCEPT ![t] = "saved"]
        BY <1>3 DEF SettleAdopt
    <2>2. answer \in Workspaces /\ ~ dirty[t]
        BY <1>3 DEF Adopts
    <2> HIDE DEF answer
    <2>3. TypeOK'
        BY <1>1, <1>2, <2>1, <2>2 DEF TypeOK, Phases, history
    <2>4. TabOK(t)'
        BY <1>1, <2>2 DEF TabOK
    <2> QED
        BY <1>1, <1>2, <2>1, <2>3, <2>4 DEF Same, TypeOK
<1>4. CASE ~ Adopts(t, answer)
    <2>1. UNCHANGED <<workspace, phase>>
        BY <1>4 DEF SettleAdopt
    <2>2. TypeOK'
        BY <1>1, <1>2, <2>1 DEF TypeOK, history
    <2>3. Head(calls[t]).op # "save"
        BY <1>1 DEF Arrives
    <2>4. TabOK(t)'
        BY <1>1, <1>2, <2>1, <2>3, AnsweredTab
    <2> QED
        BY <1>1, <1>2, <2>1, <2>2, <2>4 DEF Same
<1> QED
    BY <1>3, <1>4

\* A retry saves unsaved work, or asks for the record if there is none.
LEMMA RetryInv ==
    ASSUME TypeOK, NEW t \in Tabs, TabOK(t), Retry(t)
    PROVE  TypeOK' /\ TabOK(t)' /\ \A u \in Tabs \ {t} : Same(u)
<1>1. /\ page[t] = "open"
      /\ UNCHANGED <<store, edits, page, workspace, dirty, inbox, history>>
    BY DEF Retry, Open
<1>2. CASE SaveNow(t, calls[t], workspace[t])
    <2>1. /\ WithSave(calls[t], workspace[t]) \in Seq(Calls)
          /\ Carries(WithSave(calls[t], workspace[t]), workspace[t])
        BY WithSaveCarries DEF TypeOK
    <2>2. TypeOK'
        BY <1>1, <1>2, <2>1 DEF TypeOK, SaveNow, Phases, history
    <2>3. /\ calls'[t] = WithSave(calls[t], workspace[t])
          /\ phase'[t] = "saving" /\ timer'[t] = Unset
        BY <1>2 DEF TypeOK, SaveNow
    <2>4. TabOK(t)'
        BY <1>1, <2>1, <2>3 DEF TabOK
    <2> QED
        BY <1>1, <1>2, <2>2, <2>4 DEF Same, SaveNow, TypeOK
<1>3. CASE /\ ~ dirty[t] /\ Ask(t, CallOf("restore")) /\ UNCHANGED timer
           /\ phase' = [phase EXCEPT ![t] = "restoring"]
    <2>1. Append(calls[t], CallOf("restore")) \in Seq(Calls)
        BY AskedIsCall, AppendCarries DEF TypeOK
    <2>2. TypeOK'
        BY <1>1, <1>3, <2>1 DEF TypeOK, Ask, Phases, history
    <2>3. TabOK(t)'
        BY <1>1, <1>3 DEF TabOK
    <2> QED
        BY <1>1, <1>3, <2>2, <2>3 DEF Same, Ask, TypeOK
<1> QED
    BY <1>2, <1>3 DEF Retry

\* Asking for a reset changes no work.
LEMMA ResetInv ==
    ASSUME TypeOK, NEW t \in Tabs, TabOK(t), Reset(t)
    PROVE  TypeOK' /\ TabOK(t)' /\ \A u \in Tabs \ {t} : Same(u)
<1>1. /\ Append(calls[t], CallOf("remove")) \in Seq(Calls)
      /\ Carries(calls[t], workspace[t]) =>
            Carries(Append(calls[t], CallOf("remove")), workspace[t])
    BY AskedIsCall, AppendCarries DEF TypeOK
<1>2. edits' \in 0..MaxEdits
    BY ConstantsAssumption DEF Reset, TypeOK
<1>3. /\ calls' = [calls EXCEPT ![t] = Append(@, CallOf("remove"))]
      /\ UNCHANGED <<store, page, workspace, dirty, phase, timer, inbox, history>>
    BY DEF Reset, Ask, tabVars
<1>4. TypeOK'
    BY <1>1, <1>2, <1>3 DEF TypeOK, history
<1>5. calls'[t] = Append(calls[t], CallOf("remove"))
    BY <1>3 DEF TypeOK
<1>6. TabOK(t)'
    BY <1>1, <1>3, <1>5, AnsweredTab
<1> QED
    BY <1>3, <1>4, <1>6 DEF Same, TypeOK

\* After the removal the default workspace is saved at once.
LEMMA SettleResetInv ==
    ASSUME TypeOK, NEW t \in Tabs, TabOK(t), SettleReset(t)
    PROVE  TypeOK' /\ TabOK(t)' /\ \A u \in Tabs \ {t} : Same(u)
<1> DEFINE next == [DefaultWorkspace EXCEPT !.revision = workspace[t].revision + 1]
<1>1. /\ Arrives(t, "remove")
      /\ UNCHANGED <<store, edits, page, inbox, history>>
    BY DEF SettleReset
<1>2. calls[t] # <<>> /\ page'[t] # "new" /\ Head(calls[t]).op = "remove"
    BY <1>1 DEF Arrives, Open
<1>3. next \in Workspaces
    <2>1. workspace[t].revision + 1 \in Nat
        BY DEF TypeOK, Workspaces
    <2>2. next = [revision |-> workspace[t].revision + 1, content |-> 0]
        BY DEF DefaultWorkspace
    <2> QED
        BY <2>1, <2>2 DEF Workspaces
<1>4. \/ Take(t, next) /\ SaveNow(t, Tail(calls[t]), next)
      \/ Settle(t) /\ UNCHANGED tabVars
    BY DEF SettleReset
<1> HIDE DEF next
<1>5. CASE Take(t, next) /\ SaveNow(t, Tail(calls[t]), next)
    <2>1. Tail(calls[t]) \in Seq(Calls)
        BY <1>2, TailCarries DEF TypeOK
    <2>2. /\ workspace' \in [Tabs -> Workspaces]
          /\ dirty' \in [Tabs -> BOOLEAN]
          /\ phase' \in [Tabs -> Phases]
          /\ timer' \in [Tabs -> Workspaces \cup {Unset}]
          /\ calls' \in [Tabs -> Seq(Calls)]
          /\ TabOK(t)'
        BY <1>2, <1>3, <1>5, <2>1, TakeAndSave
    <2>3. TypeOK'
        BY <1>1, <2>2 DEF TypeOK, history
    <2> QED
        BY <1>1, <1>5, <2>2, <2>3 DEF Same, TypeOK, Take, SaveNow
<1>6. CASE Settle(t) /\ UNCHANGED tabVars
    <2>1. /\ calls' \in [Tabs -> Seq(Calls)]
          /\ \A u \in Tabs \ {t} : calls'[u] = calls[u]
          /\ Carries(calls[t], workspace[t]) => Carries(calls'[t], workspace[t])
        BY <1>2, <1>6, SettleInv
    <2>2. TypeOK'
        BY <1>1, <1>6, <2>1 DEF TypeOK, tabVars, history
    <2>3. TabOK(t)'
        BY <1>1, <1>6, <2>1, AnsweredTab DEF tabVars
    <2> QED
        BY <1>1, <1>6, <2>1, <2>2, <2>3 DEF Same, tabVars
<1> QED
    BY <1>4, <1>5, <1>6

-----------------------------------------------------------------------------
(* The theorems.                                                           *)

\* A step of a tab preserves what is said of it and changes no other tab.
LEMMA StepInv ==
    ASSUME Inv, NEW t \in Tabs,
           \/ OpenTab(t) \/ Edit(t) \/ HidePage(t) \/ CloseTab(t)
           \/ Retry(t) \/ Reset(t)
           \/ Work(t)
    PROVE  TypeOK' /\ TabOK(t)' /\ \A u \in Tabs \ {t} : Same(u)
<1>1. TypeOK /\ TabOK(t)
    BY DEF Inv
<1>2. CASE OpenTab(t)
    BY <1>1, <1>2, OpenTabInv
<1>3. CASE Edit(t)
    BY <1>1, <1>3, EditInv
<1>4. CASE HidePage(t)
    BY <1>1, <1>4, HidePageInv
<1>5. CASE CloseTab(t)
    BY <1>1, <1>5, CloseTabInv
<1>6. CASE Retry(t)
    BY <1>1, <1>6, RetryInv
<1>7. CASE Reset(t)
    BY <1>1, <1>7, ResetInv
<1>8. CASE TimerFires(t)
    BY <1>1, <1>8, TimerFiresInv
<1>9. CASE PerformSave(t) \/ PerformLoad(t) \/ PerformRemove(t)
    BY <1>1, <1>9, PerformInv
<1>10. CASE SettleSaved(t)
    BY <1>1, <1>10, SettleSavedInv
<1>11. CASE SettleUnsaved(t)
    BY <1>1, <1>11, SettleUnsavedInv
<1>12. CASE SettleRestore(t)
    BY <1>1, <1>12, SettleRestoreInv
<1>13. CASE SettleAdopt(t)
    BY <1>1, <1>13, SettleAdoptInv
<1>14. CASE Hear(t)
    BY <1>1, <1>14, HearInv
<1>15. CASE SettleReset(t)
    BY <1>1, <1>15, SettleResetInv
<1> QED
    BY <1>2, <1>3, <1>4, <1>5, <1>6, <1>7, <1>8, <1>9, <1>10, <1>11, <1>12,
       <1>13, <1>14, <1>15 DEF Work

\* Every step of every tab preserves the invariant.
LEMMA NextInv == Inv /\ [Next]_vars => Inv'
<1> SUFFICES ASSUME Inv, [Next]_vars PROVE Inv'
    OBVIOUS
<1>1. TypeOK /\ \A t \in Tabs : TabOK(t)
    BY DEF Inv
<1>2. CASE UNCHANGED vars
    <2>1. TypeOK'
        BY <1>1, <1>2 DEF TypeOK, vars, tabVars, history
    <2>2. \A t \in Tabs : TabOK(t)'
        BY <1>1, <1>2, SameTab DEF Same, vars, tabVars
    <2> QED
        BY <2>1, <2>2 DEF Inv
<1>3. CASE Next
    <2>1. PICK t \in Tabs :
             \/ OpenTab(t) \/ Edit(t) \/ HidePage(t) \/ CloseTab(t)
             \/ Retry(t) \/ Reset(t)
             \/ Work(t)
        BY <1>3 DEF Next
    <2>2. TypeOK' /\ TabOK(t)' /\ \A u \in Tabs \ {t} : Same(u)
        BY <2>1, StepInv
    <2>3. ASSUME NEW u \in Tabs \ {t} PROVE TabOK(u)'
        BY <1>1, <2>2, SameTab
    <2> QED
        BY <2>2, <2>3 DEF Inv
<1> QED
    BY <1>2, <1>3

\* The invariant holds in every behaviour.
LEMMA InvHolds == Spec => []Inv
<1> QED
    BY InitInv, NextInv, PTL DEF Spec

\* The record, the tabs and the calls under way always have their types.
THEOREM TypeCorrect == Spec => []TypeOK
<1>1. Inv => TypeOK
    BY DEF Inv
<1> QED
    BY InvHolds, <1>1, PTL

\* A tab that shows "saved" has no unsaved work.
THEOREM SavedAlwaysClean == Spec => []SavedIsClean
<1>1. Inv => SavedIsClean
    BY DEF Inv, TabOK, SavedIsClean, Open
<1> QED
    BY InvHolds, <1>1, PTL

\* Unsaved work of an open tab is in its timer or in its latest save, or the
\* user is told.
THEOREM UnsavedAlwaysPending == Spec => []UnsavedIsPending
<1>1. Inv => UnsavedIsPending
    BY DEF Inv, TabOK, UnsavedIsPending, Open
<1> QED
    BY InvHolds, <1>1, PTL

-----------------------------------------------------------------------------
(* How the queue of a tab grows, is answered and shrinks.                  *)

SaveCall(w) == [op |-> "save", snapshot |-> w, latest |-> TRUE, answer |-> Unset]

\* r is q after c was asked; a save may have lost its turn.
Grown(q, r, c) ==
    /\ r \in Seq(Calls)
    /\ Len(r) = Len(q) + 1
    /\ r[Len(q) + 1] = c
    /\ \A i \in 1..Len(q) :
          /\ r[i].op = q[i].op /\ r[i].answer = q[i].answer
          /\ q[i].op = "save" => /\ r[i].snapshot = q[i].snapshot
                                 /\ r[i].latest => q[i].latest

\* r is q after its call i got the answer a.
Marked(q, r, i, a) ==
    /\ r \in Seq(Calls)
    /\ Len(r) = Len(q)
    /\ i \in 1..Len(q)
    /\ r[i].answer = a
    /\ \A j \in 1..Len(q) :
          /\ r[j].op = q[j].op
          /\ j # i => r[j].answer = q[j].answer
          /\ q[j].op = "save" => /\ r[j].snapshot = q[j].snapshot
                                 /\ r[j].latest => q[j].latest

\* r is q after its first call was settled.
Shrunk(q, r) ==
    /\ r \in Seq(Calls)
    /\ Len(r) = Len(q) - 1
    /\ \A i \in 1..Len(r) : r[i] = q[i + 1]

\* The calls of a queue and their places.
LEMMA QueueFacts ==
    ASSUME NEW q \in Seq(Calls)
    PROVE  /\ Len(q) \in Nat /\ DOMAIN q = 1..Len(q)
           /\ \A i \in 1..Len(q) : q[i] \in Calls
BY ElementOfSeq, LenProperties

\* A call is asked.
LEMMA AppendGrows ==
    ASSUME NEW q \in Seq(Calls), NEW op \in {"restore", "adopt", "remove"}
    PROVE  /\ Grown(q, Append(q, CallOf(op)), CallOf(op))
           /\ CallOf(op).op = op /\ CallOf(op).answer = Unset
<1> DEFINE c == CallOf(op)
<1>1. c \in Calls
    BY AskedIsCall
<1>2. c.op = op /\ c.answer = Unset
    BY DEF CallOf
<1> HIDE DEF c
<1>3. /\ Append(q, c) \in Seq(Calls)
      /\ Len(Append(q, c)) = Len(q) + 1
      /\ \A i \in 1..Len(q) : Append(q, c)[i] = q[i]
      /\ Append(q, c)[Len(q) + 1] = c
    BY <1>1, AppendProperties
<1>4. Grown(q, Append(q, c), c)
    BY <1>3 DEF Grown
<1> QED
    BY <1>2, <1>4 DEF c

\* A save is asked: the earlier saves have lost their turn.
LEMMA SaveGrows ==
    ASSUME NEW q \in Seq(Calls), NEW w \in Workspaces
    PROVE  /\ Grown(q, WithSave(q, w), SaveCall(w))
           /\ \A i \in 1..Len(q) : WithSave(q, w)[i].op = "save"
                                      => ~ WithSave(q, w)[i].latest
<1> DEFINE superseded(c) == IF c.op = "save" THEN [c EXCEPT !.latest = FALSE] ELSE c
           older == [i \in DOMAIN q |-> superseded(q[i])]
           r == Append(older, SaveCall(w))
<1>1. Len(q) \in Nat /\ DOMAIN q = 1..Len(q) /\ \A i \in 1..Len(q) : q[i] \in Calls
    BY QueueFacts
<1>2. ASSUME NEW c \in Calls
      PROVE  /\ superseded(c) \in Calls
             /\ superseded(c).op = c.op /\ superseded(c).answer = c.answer
             /\ c.op = "save" => /\ superseded(c).snapshot = c.snapshot
                                 /\ ~ superseded(c).latest
    <2>1. CASE c.op = "save"
        <3>1. c \in Saves
            BY <2>1, CallKinds
        <3>2. /\ [c EXCEPT !.latest = FALSE] \in Saves
              /\ [c EXCEPT !.latest = FALSE].op = c.op
              /\ [c EXCEPT !.latest = FALSE].answer = c.answer
              /\ [c EXCEPT !.latest = FALSE].snapshot = c.snapshot
              /\ [c EXCEPT !.latest = FALSE].latest = FALSE
            BY <3>1 DEF Saves
        <3> QED
            BY <3>2, <2>1 DEF Calls
    <2>2. CASE c.op # "save"
        BY <2>2
    <2> QED
        BY <2>1, <2>2
<1> HIDE DEF superseded
<1>3. older \in Seq(Calls) /\ Len(older) = Len(q)
    <2>1. older \in [1..Len(q) -> Calls]
        BY <1>1, <1>2
    <2> QED
        BY <2>1, <1>1, IsASeq, LenProperties
<1>4. \A i \in 1..Len(q) : older[i] = superseded(q[i])
    BY <1>1
<1>5. SaveCall(w) \in Calls
    BY DEF SaveCall, Calls, Saves
<1>6. WithSave(q, w) = r
    BY DEF WithSave, SaveCall, superseded
<1> HIDE DEF older
<1>7. /\ r \in Seq(Calls)
      /\ Len(r) = Len(q) + 1
      /\ r[Len(q) + 1] = SaveCall(w)
      /\ \A i \in 1..Len(q) : r[i] = older[i]
    BY <1>3, <1>5, AppendProperties
<1> HIDE DEF r
<1>8. ASSUME NEW i \in 1..Len(q)
      PROVE  /\ r[i].op = q[i].op /\ r[i].answer = q[i].answer
             /\ q[i].op = "save" => r[i].snapshot = q[i].snapshot /\ ~ r[i].latest
    BY <1>1, <1>2, <1>4, <1>7
<1>9. Grown(q, r, SaveCall(w))
    BY <1>7, <1>8 DEF Grown
<1>10. \A i \in 1..Len(q) : r[i].op = "save" => ~ r[i].latest
    BY <1>8
<1> QED
    BY <1>6, <1>9, <1>10

\* A call gets its answer.
LEMMA AnswerMarks ==
    ASSUME NEW q \in Seq(Calls), NEW i \in DOMAIN q, NEW a,
           [q[i] EXCEPT !.answer = a] \in Calls
    PROVE  Marked(q, [q EXCEPT ![i].answer = a], i, a)
<1> DEFINE c == [q[i] EXCEPT !.answer = a]
           r == [q EXCEPT ![i] = c]
<1>1. Len(q) \in Nat /\ DOMAIN q = 1..Len(q) /\ \A j \in 1..Len(q) : q[j] \in Calls
    BY QueueFacts
<1>2. r \in Seq(Calls) /\ Len(r) = Len(q)
    BY <1>1, ExceptSeq
<1>3. /\ c.op = q[i].op /\ c.answer = a
      /\ q[i].op = "save" => c.snapshot = q[i].snapshot /\ c.latest = q[i].latest
    <2>1. CASE q[i].op = "save"
        <3>1. q[i] \in Saves
            BY <1>1, <2>1, CallKinds
        <3> QED
            BY <3>1 DEF Saves
    <2>2. CASE q[i].op # "save"
        <3>1. q[i] \in Loads \/ q[i] \in Removals
            BY <1>1, <2>2 DEF Calls, Saves
        <3> QED
            BY <2>2, <3>1 DEF Loads, Removals
    <2> QED
        BY <2>1, <2>2
<1>4. \A j \in 1..Len(q) : r[j] = IF j = i THEN c ELSE q[j]
    BY <1>1
<1>5. r = [q EXCEPT ![i].answer = a]
    OBVIOUS
<1> HIDE DEF c, r
<1>6. Marked(q, r, i, a)
    BY <1>1, <1>2, <1>3, <1>4 DEF Marked
<1> QED
    BY <1>5, <1>6

\* The first call is settled.
LEMMA TailShrinks ==
    ASSUME NEW q \in Seq(Calls), q # <<>>
    PROVE  /\ Shrunk(q, Tail(q))
           /\ Head(q) = q[1] /\ Len(q) >= 1 /\ Len(q) \in Nat
BY HeadTailProperties, LenProperties, EmptySeq DEF Shrunk

-----------------------------------------------------------------------------
(* What was stored.  Whatever a call saved or loaded was stored; and so was *)
(* what a tab shows as saved, unless a late load replaced work.            *)

\* What the call saved or loaded is one of the workspaces of k.
CallKept(c, k) ==
    /\ c.op = "save" /\ c.answer = "saved" => c.snapshot \in k
    /\ c.op \in {"restore", "adopt"} /\ c.answer \in Workspaces => c.answer \in k

QueueKept(q, k) == \A i \in 1..Len(q) : CallKept(q[i], k)

\* x is no later than the work w or, at w's revision, w is stored instead.
NoLater(x, w, k) ==
    \/ x.revision < w.revision
    \/ x.revision = w.revision /\ (x = w \/ w \in k)

\* The latest save of q, the timer and the phase go with the work w.
WorkKept(q, w, ph, tm, k) ==
    /\ ph = "saved" => w \in k
    /\ tm # Unset => NoLater(tm, w, k)
    /\ \A i \in 1..Len(q) :
          q[i].op = "save" /\ q[i].latest => NoLater(q[i].snapshot, w, k)

TabKept(t) ==
    /\ QueueKept(calls[t], kept)
    /\ ~ clobbered /\ page[t] = "open" =>
          WorkKept(calls[t], workspace[t], phase[t], timer[t], kept)

\* The record was stored; and unless stored work was removed or replaced at its
\* revision, the record is what was stored last.
RecordKept ==
    /\ store \in Workspaces => store \in kept
    /\ ~ collided => \A w \in kept :
          store = w \/ (store \in Workspaces /\ store.revision > w.revision)

\* A call without an answer saved and loaded nothing.
LEMMA GrownKept ==
    ASSUME NEW q \in Seq(Calls), NEW r, NEW c, NEW k,
           Grown(q, r, c), c.answer = Unset, QueueKept(q, k)
    PROVE  QueueKept(r, k)
<1>1. Len(q) \in Nat /\ Len(r) = Len(q) + 1
    BY QueueFacts DEF Grown
<1>2. ASSUME NEW i \in 1..Len(r) PROVE CallKept(r[i], k)
    <2>1. CASE i \in 1..Len(q)
        BY <2>1 DEF Grown, QueueKept, CallKept
    <2>2. CASE i = Len(q) + 1
        BY <2>2, Markers, ConstantsAssumption DEF Grown, CallKept
    <2> QED
        BY <1>1, <1>2, <2>1, <2>2
<1> QED
    BY <1>2 DEF QueueKept

\* The calls that stay say of what was stored what they said.
LEMMA ShrunkKept ==
    ASSUME NEW q \in Seq(Calls), NEW r, NEW k, Shrunk(q, r), QueueKept(q, k)
    PROVE  QueueKept(r, k)
<1>1. Len(q) \in Nat /\ Len(r) \in Nat /\ Len(r) = Len(q) - 1
    BY QueueFacts DEF Shrunk
<1>2. \A i \in 1..Len(r) : r[i] = q[i + 1] /\ i + 1 \in 1..Len(q)
    BY <1>1 DEF Shrunk
<1> QED
    BY <1>2 DEF QueueKept

\* What an answer says was saved or loaded was stored.
LEMMA MarkedKept ==
    ASSUME NEW q \in Seq(Calls), NEW r, NEW i, NEW a, NEW k, NEW l,
           Marked(q, r, i, a), QueueKept(q, k), k \subseteq l,
           q[i].op = "save" /\ a = "saved" => q[i].snapshot \in l,
           q[i].op \in {"restore", "adopt"} /\ a \in Workspaces => a \in l
    PROVE  QueueKept(r, l)
<1>1. ASSUME NEW j \in 1..Len(r) PROVE CallKept(r[j], l)
    <2>1. j \in 1..Len(q) /\ Len(r) = Len(q)
        BY <1>1 DEF Marked
    <2>2. r[j].op = q[j].op /\ (q[j].op = "save" => r[j].snapshot = q[j].snapshot)
        BY <2>1 DEF Marked
    <2>3. CASE j = i
        BY <2>2, <2>3 DEF Marked, CallKept
    <2>4. CASE j # i
        BY <2>1, <2>2, <2>4 DEF Marked, CallKept, QueueKept
    <2> QED
        BY <2>3, <2>4
<1> QED
    BY <1>1 DEF QueueKept

\* Work that passes w: later, or stored at its revision.
LEMMA LaterWork ==
    ASSUME NEW x \in Workspaces, NEW w \in Workspaces, NEW v \in Workspaces,
           NEW k, NEW l, NoLater(x, w, k), k \subseteq l,
           \/ v = w
           \/ w.revision < v.revision
           \/ w.revision = v.revision /\ v \in l
    PROVE  NoLater(x, v, l)
<1>1. x.revision \in Nat /\ w.revision \in Nat /\ v.revision \in Nat
    BY DEF Workspaces
<1> QED
    BY <1>1 DEF NoLater

\* The work of a tab after its calls were answered, asked or settled, and after
\* it took work that passes the one it had.
LEMMA SameWorkKept ==
    ASSUME NEW q \in Seq(Calls), NEW r, NEW w \in Workspaces, NEW v \in Workspaces,
           NEW ph, NEW tm \in Workspaces \cup {Unset}, NEW pi, NEW k, NEW l,
           WorkKept(q, w, ph, tm, k), k \subseteq l,
           pi = "saved" => v \in l,
           \/ v = w
           \/ w.revision < v.revision
           \/ w.revision = v.revision /\ v \in l,
           \A i \in 1..Len(r) : r[i].op = "save" /\ r[i].latest =>
              \E j \in 1..Len(q) : /\ q[j].op = "save" /\ q[j].latest
                                   /\ q[j].snapshot = r[i].snapshot
    PROVE  WorkKept(r, v, pi, tm, l)
<1>1. ASSUME tm # Unset PROVE NoLater(tm, v, l)
    BY <1>1, LaterWork DEF WorkKept
<1>2. ASSUME NEW i \in 1..Len(r), r[i].op = "save", r[i].latest
      PROVE  NoLater(r[i].snapshot, v, l)
    <2>1. PICK j \in 1..Len(q) : /\ q[j].op = "save" /\ q[j].latest
                                 /\ q[j].snapshot = r[i].snapshot
        BY <1>2
    <2>2. q[j] \in Saves
        BY <2>1, QueueFacts, CallKinds
    <2>3. q[j].snapshot \in Workspaces
        BY <2>2 DEF Saves
    <2>4. NoLater(q[j].snapshot, w, k)
        BY <2>1 DEF WorkKept
    <2> DEFINE x == q[j].snapshot
    <2>5. x \in Workspaces /\ NoLater(x, w, k)
        BY <2>3, <2>4
    <2> HIDE DEF x
    <2>6. NoLater(x, v, l)
        BY <2>5, LaterWork
    <2> QED
        BY <2>1, <2>6 DEF x
<1> QED
    BY <1>1, <1>2 DEF WorkKept

\* A new save is the only one that is the latest.
LEMMA SavedWorkKept ==
    ASSUME NEW q \in Seq(Calls), NEW x \in Workspaces, NEW w, NEW ph, NEW tm, NEW k,
           NoLater(x, w, k), ph = "saved" => w \in k, tm # Unset => NoLater(tm, w, k)
    PROVE  WorkKept(WithSave(q, x), w, ph, tm, k)
<1> DEFINE r == WithSave(q, x)
<1>1. /\ Grown(q, r, SaveCall(x))
      /\ \A i \in 1..Len(q) : r[i].op = "save" => ~ r[i].latest
    BY SaveGrows
<1>2. SaveCall(x).snapshot = x
    BY DEF SaveCall
<1> HIDE DEF r
<1>3. Len(q) \in Nat /\ Len(r) = Len(q) + 1 /\ r[Len(q) + 1].snapshot = x
    BY <1>1, <1>2, QueueFacts DEF Grown
<1>4. \A i \in 1..Len(r) : r[i].op = "save" /\ r[i].latest => r[i].snapshot = x
    BY <1>1, <1>3
<1>5. WorkKept(r, w, ph, tm, k)
    BY <1>4 DEF WorkKept
<1> QED
    BY <1>5 DEF r

\* Which latest saves the queue had before.
LEMMA LatestBefore ==
    ASSUME NEW q \in Seq(Calls), NEW r,
           \/ r = q
           \/ Shrunk(q, r)
           \/ \E i, a : Marked(q, r, i, a)
           \/ \E c : Grown(q, r, c) /\ c.op # "save"
    PROVE  \A i \in 1..Len(r) : r[i].op = "save" /\ r[i].latest =>
              \E j \in 1..Len(q) : /\ q[j].op = "save" /\ q[j].latest
                                   /\ q[j].snapshot = r[i].snapshot
<1>1. Len(q) \in Nat
    BY QueueFacts
<1>2. CASE Shrunk(q, r)
    <2>1. \A i \in 1..Len(r) : r[i] = q[i + 1] /\ i + 1 \in 1..Len(q)
        BY <1>1, <1>2, QueueFacts DEF Shrunk
    <2> QED
        BY <2>1
<1>3. CASE \E i, a : Marked(q, r, i, a)
    <2>1. PICK i, a : Marked(q, r, i, a)
        BY <1>3
    <2> QED
        BY <2>1 DEF Marked
<1>4. CASE \E c : Grown(q, r, c) /\ c.op # "save"
    <2>1. PICK c : Grown(q, r, c) /\ c.op # "save"
        BY <1>4
    <2>2. \A i \in 1..Len(r) : i \in 1..Len(q) \/ i = Len(q) + 1
        BY <1>1, <2>1 DEF Grown
    <2> QED
        BY <2>1, <2>2 DEF Grown
<1> QED
    BY <1>2, <1>3, <1>4

-----------------------------------------------------------------------------
(* What each action makes of the tab, as values.                           *)

\* Neither the record nor the history has changed.
StillStored ==
    store' = store /\ kept' = kept /\ collided' = collided /\ clobbered' = clobbered

\* Opening a tab asks for the record.
LEMMA OpenTabMoves ==
    ASSUME TypeOK, NEW t \in Tabs, OpenTab(t)
    PROVE  /\ StillStored /\ inbox' = inbox
           /\ page[t] = "new" /\ page'[t] = "open"
           /\ workspace'[t] = workspace[t] /\ dirty'[t] = dirty[t]
           /\ phase'[t] = phase[t] /\ timer'[t] = timer[t]
           /\ calls'[t] = Append(calls[t], CallOf("restore"))
BY DEF OpenTab, Ask, TypeOK, StillStored, tabVars, history

\* An edit makes a later revision and saves it, at once or by the timer.
LEMMA EditMoves ==
    ASSUME TypeOK, NEW t \in Tabs, Edit(t)
    PROVE  /\ StillStored /\ inbox' = inbox
           /\ page[t] = "open" /\ page'[t] = "open"
           /\ phase[t] # "restoring"
           /\ workspace'[t] \in Workspaces
           /\ workspace'[t].revision = workspace[t].revision + 1
           /\ dirty'[t] = TRUE /\ phase'[t] = "saving"
           /\ \/ timer'[t] = workspace'[t] /\ calls'[t] = calls[t]
              \/ timer'[t] = Unset /\ calls'[t] = WithSave(calls[t], workspace'[t])
<1> DEFINE next == [revision |-> workspace[t].revision + 1, content |-> edits + 1]
<1>1. next \in Workspaces /\ next.revision = workspace[t].revision + 1
    BY DEF TypeOK, Workspaces
<1>2. /\ Take(t, next)
      /\ SaveLater(t, next) \/ SaveNow(t, calls[t], next)
      /\ UNCHANGED <<store, page, inbox, history>>
      /\ t \in Open /\ Editable(t)
    BY DEF Edit
<1> HIDE DEF next
<1>3. workspace'[t] = next /\ dirty'[t] = TRUE
    BY <1>2 DEF TypeOK, Take
<1>4. CASE SaveLater(t, next)
    BY <1>1, <1>2, <1>3, <1>4 DEF TypeOK, SaveLater, Open, Editable, StillStored, history
<1>5. CASE SaveNow(t, calls[t], next)
    BY <1>1, <1>2, <1>3, <1>5 DEF TypeOK, SaveNow, Open, Editable, StillStored, history
<1> QED
    BY <1>2, <1>4, <1>5

\* The timer saves its snapshot.
LEMMA TimerFiresMoves ==
    ASSUME TypeOK, NEW t \in Tabs, TimerFires(t)
    PROVE  /\ StillStored /\ inbox' = inbox
           /\ page[t] = "open" /\ page'[t] = "open"
           /\ timer[t] \in Workspaces /\ timer'[t] = Unset
           /\ workspace'[t] = workspace[t] /\ dirty'[t] = dirty[t]
           /\ phase'[t] = phase[t]
           /\ calls'[t] = WithSave(calls[t], timer[t])
BY DEF TimerFires, Save, TypeOK, Open, StillStored, history

\* Hiding the page saves unsaved work.
LEMMA HidePageMoves ==
    ASSUME TypeOK, NEW t \in Tabs, HidePage(t)
    PROVE  /\ StillStored /\ inbox' = inbox
           /\ page[t] = "open" /\ page'[t] = "open"
           /\ dirty[t]
           /\ workspace'[t] = workspace[t] /\ dirty'[t] = dirty[t]
           /\ phase'[t] = phase[t] /\ timer'[t] = timer[t]
           /\ calls'[t] = WithSave(calls[t], workspace[t])
BY DEF HidePage, Save, TypeOK, Open, StillStored, tabVars, history

\* Closing leaves the calls to IndexedDB.
LEMMA CloseTabMoves ==
    ASSUME TypeOK, NEW t \in Tabs, CloseTab(t)
    PROVE  /\ StillStored
           /\ \A u \in Tabs \ {t} : inbox'[u] = inbox[u]
           /\ page'[t] = "closed" /\ calls'[t] = calls[t]
BY DEF CloseTab, TypeOK, StillStored, history

\* The call that is settled is the first one, and is answered.
LEMMA SettleMoves ==
    ASSUME TypeOK, NEW t \in Tabs, NEW op, Arrives(t, op)
    PROVE  /\ page[t] = "open" /\ calls[t] # <<>>
           /\ calls[t][1].op = op /\ calls[t][1].answer # Unset
           /\ Head(calls[t]) = calls[t][1] /\ calls[t][1] \in Calls
           /\ Shrunk(calls[t], Tail(calls[t]))
           /\ Len(calls[t]) \in Nat /\ Len(calls[t]) >= 1
<1>1. page[t] = "open" /\ calls[t] # <<>> /\ calls[t] \in Seq(Calls)
    BY DEF Arrives, Open, TypeOK
<1>2. /\ Shrunk(calls[t], Tail(calls[t])) /\ Head(calls[t]) = calls[t][1]
      /\ Len(calls[t]) >= 1 /\ Len(calls[t]) \in Nat
    BY <1>1, TailShrinks
<1>3. calls[t][1] \in Calls
    BY <1>1, <1>2, QueueFacts
<1> QED
    BY <1>1, <1>2, <1>3 DEF Arrives

\* A stored save that speaks for the tab makes it clean.
LEMMA SettleSavedMoves ==
    ASSUME TypeOK, NEW t \in Tabs, SettleSaved(t)
    PROVE  /\ StillStored /\ Arrives(t, "save")
           /\ page'[t] = "open"
           /\ \A u \in Tabs : page[u] # "open" \/ u = t => inbox'[u] = inbox[u]
           /\ calls[t][1] \in Saves /\ calls[t][1].answer = "saved"
           /\ workspace'[t] = workspace[t] /\ timer'[t] = timer[t]
           /\ calls'[t] = Tail(calls[t])
           /\ \/ /\ calls[t][1].latest
                 /\ workspace[t].revision = calls[t][1].snapshot.revision
                 /\ dirty'[t] = FALSE /\ phase'[t] = "saved"
              \/ dirty'[t] = dirty[t] /\ phase'[t] = phase[t]
<1> DEFINE s == Head(calls[t])
<1>1. /\ Arrives(t, "save") /\ Stored(s)
      /\ Settle(t)
      /\ UNCHANGED <<store, edits, page, workspace, timer, history>>
      /\ \/ /\ Speaks(t, s)
            /\ dirty' = [dirty EXCEPT ![t] = FALSE]
            /\ phase' = [phase EXCEPT ![t] = "saved"]
            /\ inbox' = [u \in Tabs |-> inbox[u] \cup
                            IF u \in Open \ {t} THEN {s.snapshot.revision} ELSE {}]
         \/ UNCHANGED <<dirty, phase, inbox>>
    BY DEF SettleSaved
<1>2. s = calls[t][1] /\ s \in Calls /\ page[t] = "open" /\ s.op = "save"
    BY <1>1, SettleMoves
<1>3. s \in Saves /\ s.answer = "saved"
    BY <1>1, <1>2, CallKinds DEF Stored
<1> HIDE DEF s
<1>4. calls'[t] = Tail(calls[t])
    BY <1>1 DEF Settle, TypeOK
<1>5. \A u \in Tabs : page[u] # "open" \/ u = t => inbox'[u] = inbox[u]
    <2>1. CASE inbox' = [u \in Tabs |-> inbox[u] \cup
                         IF u \in Open \ {t} THEN {s.snapshot.revision} ELSE {}]
        BY <2>1 DEF Open
    <2>2. CASE inbox' = inbox
        BY <2>2
    <2> QED
        BY <1>1, <2>1, <2>2
<1>6. \/ /\ s.latest /\ workspace[t].revision = s.snapshot.revision
         /\ dirty'[t] = FALSE /\ phase'[t] = "saved"
      \/ dirty'[t] = dirty[t] /\ phase'[t] = phase[t]
    BY <1>1 DEF TypeOK, Speaks
<1> QED
    BY <1>1, <1>2, <1>3, <1>4, <1>5, <1>6 DEF StillStored, history

\* A save that was not stored tells the user, if it is the latest.
LEMMA SettleUnsavedMoves ==
    ASSUME TypeOK, NEW t \in Tabs, SettleUnsaved(t)
    PROVE  /\ StillStored /\ inbox' = inbox /\ Arrives(t, "save")
           /\ page'[t] = "open"
           /\ calls[t][1] \in Saves
           /\ workspace'[t] = workspace[t] /\ timer'[t] = timer[t]
           /\ dirty'[t] = dirty[t]
           /\ calls'[t] = Tail(calls[t])
           /\ \/ calls[t][1].latest /\ phase'[t] = "memory-only"
              \/ phase'[t] = phase[t]
<1>1. calls[t][1] \in Calls /\ calls[t][1].op = "save" /\ page[t] = "open"
      /\ Head(calls[t]) = calls[t][1]
    BY SettleMoves DEF SettleUnsaved
<1>2. calls[t][1] \in Saves
    BY <1>1, CallKinds
<1>3. /\ Arrives(t, "save") /\ inbox' = inbox /\ StillStored
      /\ workspace' = workspace /\ timer' = timer /\ dirty' = dirty /\ page' = page
    BY DEF SettleUnsaved, StillStored, history
<1>4. calls'[t] = Tail(calls[t])
    BY DEF SettleUnsaved, Settle, TypeOK
<1>5. phase'[t] = IF Head(calls[t]).latest THEN "memory-only" ELSE phase[t]
    BY DEF SettleUnsaved, TypeOK
<1> QED
    BY <1>1, <1>2, <1>3, <1>4, <1>5

\* A load replaces the work, or saves the default workspace, or fails.
LEMMA SettleRestoreMoves ==
    ASSUME TypeOK, NEW t \in Tabs, SettleRestore(t)
    PROVE  LET answer == calls[t][1].answer
           IN  /\ store' = store /\ kept' = kept /\ collided' = collided
               /\ inbox' = inbox /\ Arrives(t, "restore")
               /\ page'[t] = "open"
               /\ \/ /\ answer \in Workspaces
                     /\ workspace'[t] = answer /\ timer'[t] = timer[t]
                     /\ dirty'[t] = FALSE /\ phase'[t] = "saved"
                     /\ calls'[t] = Tail(calls[t])
                     /\ clobbered' = (clobbered \/ Clobbers(t, answer))
                  \/ /\ answer = Missing
                     /\ workspace'[t] = DefaultWorkspace /\ timer'[t] = Unset
                     /\ dirty'[t] = TRUE /\ phase'[t] = "saving"
                     /\ calls'[t] = WithSave(Tail(calls[t]), DefaultWorkspace)
                     /\ clobbered' = (clobbered \/ Clobbers(t, DefaultWorkspace))
                  \/ /\ answer \in Unreadable
                     /\ workspace'[t] = workspace[t] /\ timer'[t] = timer[t]
                     /\ dirty'[t] = FALSE /\ phase'[t] = "recovery-required"
                     /\ calls'[t] = Tail(calls[t])
                     /\ clobbered' = (clobbered \/ dirty[t])
                  \/ /\ answer = Failed
                     /\ workspace'[t] = workspace[t] /\ timer'[t] = timer[t]
                     /\ dirty'[t] = dirty[t] /\ phase'[t] = "memory-only"
                     /\ calls'[t] = Tail(calls[t])
                     /\ clobbered' = clobbered
<1> DEFINE answer == calls[t][1].answer
<1>1. Arrives(t, "restore") /\ page[t] = "open" /\ Head(calls[t]) = calls[t][1]
    BY SettleMoves DEF SettleRestore
<1>2. /\ \/ /\ answer \in Workspaces
            /\ workspace' = [workspace EXCEPT ![t] = answer]
            /\ dirty' = [dirty EXCEPT ![t] = FALSE]
            /\ phase' = [phase EXCEPT ![t] = "saved"]
            /\ Settle(t)
            /\ clobbered' = (clobbered \/ Clobbers(t, answer))
            /\ timer' = timer
         \/ /\ answer = Missing
            /\ Take(t, DefaultWorkspace)
            /\ SaveNow(t, Tail(calls[t]), DefaultWorkspace)
            /\ clobbered' = (clobbered \/ Clobbers(t, DefaultWorkspace))
         \/ /\ answer \in Unreadable
            /\ dirty' = [dirty EXCEPT ![t] = FALSE]
            /\ phase' = [phase EXCEPT ![t] = "recovery-required"]
            /\ Settle(t)
            /\ clobbered' = (clobbered \/ dirty[t])
            /\ workspace' = workspace /\ timer' = timer
         \/ /\ answer = Failed
            /\ phase' = [phase EXCEPT ![t] = "memory-only"]
            /\ Settle(t)
            /\ workspace' = workspace /\ dirty' = dirty /\ timer' = timer
            /\ clobbered' = clobbered
      /\ store' = store /\ page' = page /\ inbox' = inbox
      /\ kept' = kept /\ collided' = collided
    BY <1>1 DEF SettleRestore
<1> HIDE DEF answer
<1>3. Settle(t) => calls'[t] = Tail(calls[t])
    BY DEF Settle, TypeOK
<1>4. Take(t, DefaultWorkspace) =>
         workspace'[t] = DefaultWorkspace /\ dirty'[t] = TRUE
    BY DEF Take, TypeOK
<1>5. SaveNow(t, Tail(calls[t]), DefaultWorkspace) =>
         /\ timer'[t] = Unset /\ phase'[t] = "saving"
         /\ calls'[t] = WithSave(Tail(calls[t]), DefaultWorkspace)
    BY DEF SaveNow, TypeOK
<1>6. /\ workspace' = [workspace EXCEPT ![t] = answer] => workspace'[t] = answer
      /\ dirty' = [dirty EXCEPT ![t] = FALSE] => dirty'[t] = FALSE
      /\ phase' = [phase EXCEPT ![t] = "saved"] => phase'[t] = "saved"
      /\ phase' = [phase EXCEPT ![t] = "recovery-required"]
            => phase'[t] = "recovery-required"
      /\ phase' = [phase EXCEPT ![t] = "memory-only"] => phase'[t] = "memory-only"
    BY DEF TypeOK
<1> QED
    BY <1>1, <1>2, <1>3, <1>4, <1>5, <1>6, Zenon DEF answer

\* An announcement tells the user or asks for the record.
LEMMA HearMoves ==
    ASSUME TypeOK, NEW t \in Tabs, Hear(t)
    PROVE  /\ StillStored
           /\ \A u \in Tabs \ {t} : inbox'[u] = inbox[u]
           /\ inbox[t] # {}
           /\ page'[t] = page[t]
           /\ workspace'[t] = workspace[t] /\ timer'[t] = timer[t]
           /\ dirty'[t] = dirty[t]
           /\ phase'[t] \in {phase[t], "memory-only"}
           /\ \/ calls'[t] = calls[t]
              \/ calls'[t] = Append(calls[t], CallOf("adopt"))
<1>1. PICK r \in inbox[t] :
         /\ inbox' = [inbox EXCEPT ![t] = @ \ {r}]
         /\ \/ UNCHANGED <<phase, calls>>
            \/ phase' = [phase EXCEPT ![t] = "memory-only"] /\ UNCHANGED calls
            \/ Ask(t, CallOf("adopt")) /\ UNCHANGED phase
         /\ UNCHANGED <<store, edits, page, workspace, dirty, timer, history>>
    BY DEF Hear
<1>2. /\ phase'[t] \in {phase[t], "memory-only"}
      /\ \/ calls'[t] = calls[t]
         \/ calls'[t] = Append(calls[t], CallOf("adopt"))
    BY <1>1 DEF Ask, TypeOK
<1>3. \A u \in Tabs \ {t} : inbox'[u] = inbox[u]
    BY <1>1 DEF TypeOK
<1> QED
    BY <1>1, <1>2, <1>3 DEF StillStored, history

\* A clean tab adopts a later record.
LEMMA SettleAdoptMoves ==
    ASSUME TypeOK, NEW t \in Tabs, SettleAdopt(t)
    PROVE  LET answer == calls[t][1].answer
           IN  /\ StillStored /\ inbox' = inbox /\ Arrives(t, "adopt")
               /\ page'[t] = "open"
               /\ dirty'[t] = dirty[t] /\ timer'[t] = timer[t]
               /\ calls'[t] = Tail(calls[t])
               /\ \/ /\ answer \in Workspaces
                     /\ answer.revision > workspace[t].revision
                     /\ workspace'[t] = answer /\ phase'[t] = "saved"
                  \/ workspace'[t] = workspace[t] /\ phase'[t] = phase[t]
<1>1. Head(calls[t]) = calls[t][1] /\ page[t] = "open"
    BY SettleMoves DEF SettleAdopt
<1>2. calls'[t] = Tail(calls[t])
    BY DEF SettleAdopt, Settle, TypeOK
<1> QED
    BY <1>1, <1>2 DEF SettleAdopt, Adopts, TypeOK, StillStored, history

\* A retry saves unsaved work, or asks for the record.
LEMMA RetryMoves ==
    ASSUME TypeOK, NEW t \in Tabs, Retry(t)
    PROVE  /\ StillStored /\ inbox' = inbox
           /\ page[t] = "open" /\ page'[t] = "open"
           /\ phase[t] \in {"memory-only", "recovery-required"}
           /\ workspace'[t] = workspace[t] /\ dirty'[t] = dirty[t]
           /\ \/ /\ dirty[t]
                 /\ phase'[t] = "saving" /\ timer'[t] = Unset
                 /\ calls'[t] = WithSave(calls[t], workspace[t])
              \/ /\ ~ dirty[t]
                 /\ phase'[t] = "restoring" /\ timer'[t] = timer[t]
                 /\ calls'[t] = Append(calls[t], CallOf("restore"))
BY DEF Retry, SaveNow, Ask, Open, TypeOK, StillStored, history

\* A reset asks for the removal.
LEMMA ResetMoves ==
    ASSUME TypeOK, NEW t \in Tabs, Reset(t)
    PROVE  /\ StillStored /\ inbox' = inbox
           /\ page[t] = "open" /\ page'[t] = "open"
           /\ phase[t] # "restoring"
           /\ workspace'[t] = workspace[t] /\ dirty'[t] = dirty[t]
           /\ phase'[t] = phase[t] /\ timer'[t] = timer[t]
           /\ calls'[t] = Append(calls[t], CallOf("remove"))
BY DEF Reset, Ask, Open, TypeOK, StillStored, tabVars, history

\* After the removal the tab starts with the default workspace.
LEMMA SettleResetMoves ==
    ASSUME TypeOK, NEW t \in Tabs, SettleReset(t)
    PROVE  /\ StillStored /\ inbox' = inbox /\ Arrives(t, "remove")
           /\ page'[t] = "open"
           /\ \/ /\ calls[t][1].answer = "removed"
                 /\ workspace'[t] \in Workspaces
                 /\ dirty'[t] = TRUE /\ phase'[t] = "saving" /\ timer'[t] = Unset
                 /\ calls'[t] = WithSave(Tail(calls[t]), workspace'[t])
              \/ /\ calls[t][1].answer = Failed
                 /\ workspace'[t] = workspace[t] /\ dirty'[t] = dirty[t]
                 /\ phase'[t] = phase[t] /\ timer'[t] = timer[t]
                 /\ calls'[t] = Tail(calls[t])
<1> DEFINE next == [DefaultWorkspace EXCEPT !.revision = workspace[t].revision + 1]
<1>1. next \in Workspaces
    <2>1. workspace[t].revision + 1 \in Nat
        BY DEF TypeOK, Workspaces
    <2>2. next = [revision |-> workspace[t].revision + 1, content |-> 0]
        BY DEF DefaultWorkspace
    <2> QED
        BY <2>1, <2>2 DEF Workspaces
<1>2. Head(calls[t]) = calls[t][1] /\ page[t] = "open"
    BY SettleMoves DEF SettleReset
<1>3. /\ Arrives(t, "remove")
      /\ \/ /\ calls[t][1].answer = "removed"
            /\ Take(t, next) /\ SaveNow(t, Tail(calls[t]), next)
         \/ /\ calls[t][1].answer = Failed
            /\ Settle(t)
            /\ UNCHANGED tabVars
      /\ UNCHANGED <<store, page, inbox, history>>
    BY <1>2 DEF SettleReset
<1> HIDE DEF next
<1>4. CASE /\ calls[t][1].answer = "removed"
           /\ Take(t, next) /\ SaveNow(t, Tail(calls[t]), next)
    <2>1. workspace'[t] = next /\ dirty'[t] = TRUE
        BY <1>4 DEF Take, TypeOK
    <2>2. /\ timer'[t] = Unset /\ phase'[t] = "saving"
          /\ calls'[t] = WithSave(Tail(calls[t]), next)
        BY <1>4 DEF SaveNow, TypeOK
    <2> QED
        BY <1>1, <1>2, <1>3, <1>4, <2>1, <2>2 DEF StillStored, history
<1>5. CASE calls[t][1].answer = Failed /\ Settle(t) /\ UNCHANGED tabVars
    <2>1. calls'[t] = Tail(calls[t])
        BY <1>5 DEF Settle, TypeOK
    <2> QED
        BY <1>2, <1>3, <1>5, <2>1 DEF StillStored, history, tabVars
<1> QED
    BY <1>3, <1>4, <1>5

\* Only the calls change, by the answer a to the call i of t.
Answered(t, i, a) ==
    /\ page' = page /\ workspace' = workspace /\ dirty' = dirty
    /\ phase' = phase /\ timer' = timer /\ inbox' = inbox
    /\ i \in 1..Len(calls[t]) /\ IsNext(t, i)
    /\ Marked(calls[t], calls'[t], i, a)

\* An answer of the call's kind.
LEMMA AnswerMoves ==
    ASSUME TypeOK, NEW t \in Tabs, NEW i \in DOMAIN calls[t], NEW a,
           IsNext(t, i), Answer(t, i, a),
           UNCHANGED <<page, tabVars, inbox>>,
           \/ calls[t][i].op = "save" /\ a \in {Failed, "saved", "stale"}
           \/ /\ calls[t][i].op \in {"restore", "adopt"}
              /\ a \in Records \cup {Missing, Failed}
           \/ calls[t][i].op = "remove" /\ a \in {Failed, "removed"}
    PROVE  Answered(t, i, a)
<1> DEFINE q == calls[t]
<1>1. q \in Seq(Calls) /\ i \in 1..Len(q) /\ q[i] \in Calls
    BY QueueFacts DEF TypeOK
<1>2. [q[i] EXCEPT !.answer = a] \in Calls
    BY <1>1, AnsweredIsCall
<1>3. calls'[t] = [q EXCEPT ![i].answer = a]
    BY DEF Answer, TypeOK
<1>4. i \in DOMAIN q
    OBVIOUS
<1> HIDE DEF q
<1>5. Marked(q, [q EXCEPT ![i].answer = a], i, a)
    BY <1>1, <1>2, <1>4, AnswerMarks
<1> QED
    BY <1>1, <1>3, <1>5 DEF Answered, tabVars, q

\* A save is stored, or is rejected, or fails.
LEMMA PerformSaveMoves ==
    ASSUME TypeOK, NEW t \in Tabs, PerformSave(t)
    PROVE  \E i \in 1..Len(calls[t]) : \E a :
              /\ Answered(t, i, a)
              /\ calls[t][i] \in Saves
              /\ \/ /\ a = "saved"
                    /\ ~ Rejects(calls[t][i].snapshot)
                    /\ store' = calls[t][i].snapshot
                    /\ kept' = kept \cup {calls[t][i].snapshot}
                    /\ collided' = (collided \/
                                     /\ store \in Workspaces \ {calls[t][i].snapshot}
                                     /\ store.revision = calls[t][i].snapshot.revision)
                    /\ clobbered' = clobbered
                 \/ a \in {"stale", Failed} /\ StillStored
<1>1. PICK i \in DOMAIN calls[t] :
         /\ IsNext(t, i) /\ calls[t][i].op = "save"
         /\ \/ /\ ~ Rejects(calls[t][i].snapshot)
               /\ Answer(t, i, "saved")
               /\ store' = calls[t][i].snapshot
               /\ kept' = kept \cup {calls[t][i].snapshot}
               /\ collided' = (collided \/
                                /\ store \in Workspaces \ {calls[t][i].snapshot}
                                /\ store.revision = calls[t][i].snapshot.revision)
               /\ UNCHANGED clobbered
            \/ /\ Answer(t, i, "stale") \/ Answer(t, i, Failed)
               /\ UNCHANGED <<store, history>>
         /\ UNCHANGED <<edits, page, tabVars, inbox>>
    BY DEF PerformSave
<1>2. calls[t][i] \in Saves /\ i \in 1..Len(calls[t])
    BY <1>1, QueueFacts, CallKinds DEF TypeOK
<1>3. ASSUME NEW a \in {"saved", "stale", Failed}, Answer(t, i, a)
      PROVE  Answered(t, i, a)
    BY <1>1, <1>3, AnswerMoves
<1>4. UNCHANGED <<store, history>> => StillStored
    BY DEF StillStored, history
<1>5. CASE /\ ~ Rejects(calls[t][i].snapshot)
           /\ Answer(t, i, "saved")
           /\ store' = calls[t][i].snapshot
           /\ kept' = kept \cup {calls[t][i].snapshot}
           /\ collided' = (collided \/
                            /\ store \in Workspaces \ {calls[t][i].snapshot}
                            /\ store.revision = calls[t][i].snapshot.revision)
           /\ UNCHANGED clobbered
    <2>1. Answered(t, i, "saved")
        BY <1>3, <1>5
    <2> QED
        BY <1>2, <1>5, <2>1, Zenon
<1>6. CASE UNCHANGED <<store, history>> /\ Answer(t, i, "stale")
    <2>1. Answered(t, i, "stale") /\ StillStored
        BY <1>3, <1>4, <1>6
    <2> QED
        BY <1>2, <2>1
<1>7. CASE UNCHANGED <<store, history>> /\ Answer(t, i, Failed)
    <2>1. Answered(t, i, Failed) /\ StillStored
        BY <1>3, <1>4, <1>7
    <2> QED
        BY <1>2, <2>1
<1> QED
    BY <1>1, <1>5, <1>6, <1>7

\* A load is answered with the record, or fails.
LEMMA PerformLoadMoves ==
    ASSUME TypeOK, NEW t \in Tabs, PerformLoad(t)
    PROVE  \E i \in 1..Len(calls[t]) : \E a :
              /\ Answered(t, i, a) /\ StillStored
              /\ calls[t][i].op \in {"restore", "adopt"}
              /\ a = store \/ a = Failed
<1>1. PICK i \in DOMAIN calls[t] :
         /\ IsNext(t, i) /\ calls[t][i].op \in {"restore", "adopt"}
         /\ Answer(t, i, store) \/ Answer(t, i, Failed)
         /\ UNCHANGED <<store, edits, page, tabVars, inbox, history>>
    BY DEF PerformLoad
<1>2. PICK a : (a = store \/ a = Failed) /\ Answer(t, i, a)
    BY <1>1
<1>3. a \in Records \cup {Missing, Failed}
    BY <1>2 DEF TypeOK
<1>4. Answered(t, i, a)
    BY <1>1, <1>2, <1>3, AnswerMoves
<1>5. StillStored
    BY <1>1 DEF StillStored, history
<1>6. i \in 1..Len(calls[t])
    BY <1>4 DEF Answered
<1> QED
    BY <1>1, <1>2, <1>4, <1>5, <1>6

\* The record is removed, or the removal fails.
LEMMA PerformRemoveMoves ==
    ASSUME TypeOK, NEW t \in Tabs, PerformRemove(t)
    PROVE  \E i \in 1..Len(calls[t]) : \E a :
              /\ Answered(t, i, a)
              /\ calls[t][i].op = "remove"
              /\ \/ /\ a = "removed" /\ store' = Missing
                    /\ collided' = (collided \/ store \in Workspaces)
                    /\ kept' = kept /\ clobbered' = clobbered
                 \/ a = Failed /\ StillStored
<1>1. PICK i \in DOMAIN calls[t] :
         /\ IsNext(t, i) /\ calls[t][i].op = "remove"
         /\ \/ /\ Answer(t, i, "removed")
               /\ store' = Missing
               /\ collided' = (collided \/ store \in Workspaces)
            \/ /\ Answer(t, i, Failed)
               /\ UNCHANGED <<store, collided>>
         /\ UNCHANGED <<edits, page, tabVars, inbox, kept, clobbered>>
    BY DEF PerformRemove
<1>2. ASSUME NEW a \in {"removed", Failed}, Answer(t, i, a)
      PROVE  Answered(t, i, a) /\ i \in 1..Len(calls[t])
    <2>1. Answered(t, i, a)
        BY <1>1, <1>2, AnswerMoves
    <2> QED
        BY <2>1 DEF Answered
<1>3. CASE /\ Answer(t, i, "removed") /\ store' = Missing
           /\ collided' = (collided \/ store \in Workspaces)
    <2>1. Answered(t, i, "removed") /\ i \in 1..Len(calls[t])
        BY <1>2, <1>3
    <2> QED
        BY <1>1, <1>3, <2>1, Zenon
<1>4. CASE Answer(t, i, Failed) /\ UNCHANGED <<store, collided>>
    <2>1. Answered(t, i, Failed) /\ i \in 1..Len(calls[t])
        BY <1>2, <1>4
    <2>2. StillStored
        BY <1>1, <1>4 DEF StillStored
    <2> QED
        BY <1>1, <2>1, <2>2
<1> QED
    BY <1>1, <1>3, <1>4

-----------------------------------------------------------------------------
(* Each action keeps what is said of what was stored.                      *)

\* A tab that has not opened has asked nothing.
NewTab(t) ==
    page[t] = "new" => /\ calls[t] = <<>> /\ inbox[t] = {}
                       /\ timer[t] = Unset /\ ~ dirty[t] /\ phase[t] = "restoring"

\* The work of a tab that asks a call.
LEMMA AskedKept ==
    ASSUME NEW q \in Seq(Calls), NEW op \in {"restore", "adopt", "remove"},
           NEW w \in Workspaces, NEW tm \in Workspaces \cup {Unset},
           NEW ph, NEW pi, NEW k,
           QueueKept(q, k), pi = "saved" => ph = "saved"
    PROVE  /\ QueueKept(Append(q, CallOf(op)), k)
           /\ WorkKept(q, w, ph, tm, k)
                 => WorkKept(Append(q, CallOf(op)), w, pi, tm, k)
<1> DEFINE r == Append(q, CallOf(op))
<1>1. /\ Grown(q, r, CallOf(op))
      /\ CallOf(op).op # "save" /\ CallOf(op).answer = Unset
    BY AppendGrows
<1> HIDE DEF r
<1>2. QueueKept(r, k)
    BY <1>1, GrownKept
<1>3. ASSUME WorkKept(q, w, ph, tm, k) PROVE WorkKept(r, w, pi, tm, k)
    <2>1. \A i \in 1..Len(r) : r[i].op = "save" /\ r[i].latest =>
             \E j \in 1..Len(q) : /\ q[j].op = "save" /\ q[j].latest
                                  /\ q[j].snapshot = r[i].snapshot
        BY <1>1, LatestBefore
    <2>2. pi = "saved" => w \in k
        BY <1>3 DEF WorkKept
    <2> QED
        BY <1>3, <2>1, <2>2, SameWorkKept
<1> QED
    BY <1>2, <1>3 DEF r

\* The work of a tab that settles a call and now has v.
LEMMA SettledKept ==
    ASSUME NEW q \in Seq(Calls), q # <<>>,
           NEW w \in Workspaces, NEW v \in Workspaces,
           NEW tm \in Workspaces \cup {Unset},
           NEW ph, NEW pi, NEW k, QueueKept(q, k)
    PROVE  /\ QueueKept(Tail(q), k)
           /\ /\ WorkKept(q, w, ph, tm, k)
              /\ pi = "saved" => v \in k
              /\ \/ v = w
                 \/ w.revision < v.revision
                 \/ w.revision = v.revision /\ v \in k
              => WorkKept(Tail(q), v, pi, tm, k)
<1> DEFINE r == Tail(q)
<1>1. Shrunk(q, r)
    BY TailShrinks
<1> HIDE DEF r
<1>2. QueueKept(r, k)
    BY <1>1, ShrunkKept
<1>3. ASSUME WorkKept(q, w, ph, tm, k), pi = "saved" => v \in k,
             \/ v = w
             \/ w.revision < v.revision
             \/ w.revision = v.revision /\ v \in k
      PROVE  WorkKept(r, v, pi, tm, k)
    <2>1. \A i \in 1..Len(r) : r[i].op = "save" /\ r[i].latest =>
             \E j \in 1..Len(q) : /\ q[j].op = "save" /\ q[j].latest
                                  /\ q[j].snapshot = r[i].snapshot
        BY <1>1, LatestBefore
    <2> QED
        BY <1>3, <2>1, SameWorkKept
<1> QED
    BY <1>2, <1>3 DEF r

\* The calls of a tab that asks a save.
LEMMA ResavedKept ==
    ASSUME NEW q \in Seq(Calls), NEW x \in Workspaces, NEW k, QueueKept(q, k)
    PROVE  QueueKept(WithSave(q, x), k)
<1> DEFINE r == WithSave(q, x)
<1>1. Grown(q, r, SaveCall(x)) /\ SaveCall(x).answer = Unset
    BY SaveGrows DEF SaveCall
<1> HIDE DEF r
<1>2. QueueKept(r, k)
    BY <1>1, GrownKept
<1> QED
    BY <1>2 DEF r

\* Types of one tab's state.
LEMMA TabTypes ==
    ASSUME TypeOK, NEW t \in Tabs
    PROVE  /\ calls[t] \in Seq(Calls) /\ workspace[t] \in Workspaces
           /\ timer[t] \in Workspaces \cup {Unset} /\ dirty[t] \in BOOLEAN
           /\ workspace[t].revision \in Nat
BY DEF TypeOK, Workspaces

\* Asking keeps it.
LEMMA AskingKept ==
    ASSUME TypeOK, NEW t \in Tabs, TabKept(t), NewTab(t),
           OpenTab(t) \/ Reset(t) \/ Hear(t) \/ Retry(t)
    PROVE  TabKept(t)'
<1>1. /\ calls[t] \in Seq(Calls) /\ workspace[t] \in Workspaces
      /\ timer[t] \in Workspaces \cup {Unset}
    BY TabTypes
<1>2. kept' = kept /\ clobbered' = clobbered /\ workspace'[t] = workspace[t]
    BY OpenTabMoves, ResetMoves, HearMoves, RetryMoves DEF StillStored
<1>3. QueueKept(calls[t], kept)
    BY DEF TabKept
<1>4. CASE calls'[t] = calls[t] /\ timer'[t] = timer[t] /\ page[t] = page'[t]
           /\ phase'[t] \in {phase[t], "memory-only"}
    <2>1. WorkKept(calls[t], workspace[t], phase[t], timer[t], kept)
             => WorkKept(calls[t], workspace[t], phase'[t], timer[t], kept)
        BY <1>4 DEF WorkKept
    <2> QED
        BY <1>2, <1>4, <2>1 DEF TabKept
<1>5. ASSUME NEW op \in {"restore", "adopt", "remove"},
             calls'[t] = Append(calls[t], CallOf(op)), timer'[t] = timer[t],
             phase'[t] = "saved" => phase[t] = "saved",
             page[t] \in {page'[t], "new"}
      PROVE  TabKept(t)'
    <2> DEFINE q == calls[t]  w == workspace[t]  tm == timer[t]
               ph == phase[t] pi == phase'[t]
    <2>1. QueueKept(Append(q, CallOf(op)), kept)
        BY <1>1, <1>3, <1>5, AskedKept
    <2>2. ASSUME ~ clobbered, page'[t] = "open"
          PROVE  WorkKept(Append(q, CallOf(op)), w, pi, tm, kept)
        <3>1. WorkKept(q, w, ph, tm, kept)
            <4>1. CASE page[t] = "new"
                <5>1. calls[t] = <<>> /\ timer[t] = Unset /\ phase[t] = "restoring"
                    BY <4>1 DEF NewTab
                <5>2. Len(calls[t]) = 0
                    BY <5>1
                <5> QED
                    BY <5>1, <5>2 DEF WorkKept
            <4>2. CASE page[t] = "open"
                BY <2>2, <4>2 DEF TabKept
            <4> QED
                BY <1>5, <2>2, <4>1, <4>2
        <3> HIDE DEF q, w, tm, ph, pi
        <3>2. /\ q \in Seq(Calls) /\ w \in Workspaces /\ tm \in Workspaces \cup {Unset}
              /\ QueueKept(q, kept) /\ (pi = "saved" => ph = "saved")
            BY <1>1, <1>3, <1>5 DEF q, w, tm, ph, pi
        <3> QED
            BY <3>1, <3>2, AskedKept
    <2> QED
        BY <1>2, <1>5, <2>1, <2>2 DEF TabKept
<1>6. CASE OpenTab(t)
    BY <1>5, <1>6, OpenTabMoves
<1>7. CASE Reset(t)
    BY <1>5, <1>7, ResetMoves
<1>8. CASE Hear(t)
    BY <1>4, <1>5, <1>8, HearMoves
<1>9. CASE Retry(t) /\ ~ dirty[t]
    BY <1>5, <1>9, RetryMoves
<1>10. CASE Retry(t) /\ dirty[t]
    <2>1. /\ calls'[t] = WithSave(calls[t], workspace[t])
          /\ phase'[t] = "saving" /\ timer'[t] = Unset
        BY <1>10, RetryMoves
    <2>2. QueueKept(calls'[t], kept)
        BY <1>1, <1>3, <2>1, ResavedKept
    <2>3. NoLater(workspace[t], workspace[t], kept)
        BY DEF NoLater
    <2>4. WorkKept(calls'[t], workspace[t], phase'[t], timer'[t], kept)
        BY <1>1, <2>1, <2>3, SavedWorkKept
    <2> QED
        BY <1>2, <2>2, <2>4 DEF TabKept
<1> QED
    BY <1>6, <1>7, <1>8, <1>9, <1>10

\* Saving keeps it.
LEMMA SavingKept ==
    ASSUME TypeOK, NEW t \in Tabs, TabKept(t),
           Edit(t) \/ TimerFires(t) \/ HidePage(t)
    PROVE  TabKept(t)'
<1>1. /\ calls[t] \in Seq(Calls) /\ workspace[t] \in Workspaces
      /\ timer[t] \in Workspaces \cup {Unset} /\ workspace[t].revision \in Nat
    BY TabTypes
<1>2. kept' = kept /\ clobbered' = clobbered /\ page[t] = "open"
    BY EditMoves, TimerFiresMoves, HidePageMoves DEF StillStored
<1>3. /\ QueueKept(calls[t], kept)
      /\ ~ clobbered => WorkKept(calls[t], workspace[t], phase[t], timer[t], kept)
    BY <1>2 DEF TabKept
<1>4. ASSUME NEW x \in Workspaces, calls'[t] = WithSave(calls[t], x),
             ~ clobbered => /\ NoLater(x, workspace'[t], kept)
                            /\ phase'[t] = "saved" => workspace'[t] \in kept
                            /\ timer'[t] # Unset => NoLater(timer'[t], workspace'[t], kept)
      PROVE  TabKept(t)'
    <2>1. QueueKept(calls'[t], kept)
        BY <1>1, <1>3, <1>4, ResavedKept
    <2>2. ~ clobbered =>
             WorkKept(calls'[t], workspace'[t], phase'[t], timer'[t], kept)
        BY <1>1, <1>4, SavedWorkKept
    <2> QED
        BY <1>2, <2>1, <2>2 DEF TabKept
<1>5. \A x : NoLater(x, x, kept)
    BY DEF NoLater
<1>6. CASE Edit(t) /\ calls'[t] = WithSave(calls[t], workspace'[t])
    <2>1. workspace'[t] \in Workspaces /\ phase'[t] = "saving"
          /\ (timer'[t] = Unset \/ timer'[t] = workspace'[t])
        BY <1>6, EditMoves
    <2> QED
        BY <1>4, <1>5, <1>6, <2>1
<1>7. CASE Edit(t) /\ calls'[t] = calls[t] /\ timer'[t] = workspace'[t]
    <2>1. /\ workspace'[t] \in Workspaces /\ phase'[t] = "saving"
          /\ workspace'[t].revision = workspace[t].revision + 1
        BY <1>7, EditMoves
    <2>2. workspace[t].revision < workspace'[t].revision
        BY <1>1, <2>1
    <2>3. ASSUME ~ clobbered
          PROVE  WorkKept(calls[t], workspace'[t], "saving", timer'[t], kept)
        <3>1. WorkKept(calls[t], workspace'[t], "saving", timer[t], kept)
            <4> DEFINE q == calls[t]  w == workspace[t]  v == workspace'[t]
                       tm == timer[t] ph == phase[t]
            <4>1. /\ q \in Seq(Calls) /\ w \in Workspaces /\ v \in Workspaces
                  /\ tm \in Workspaces \cup {Unset} /\ w.revision < v.revision
                  /\ WorkKept(q, w, ph, tm, kept)
                BY <1>1, <1>3, <2>1, <2>2, <2>3
            <4> HIDE DEF q, w, v, tm, ph
            <4>2. \A i \in 1..Len(q) : q[i].op = "save" /\ q[i].latest =>
                     \E j \in 1..Len(q) : /\ q[j].op = "save" /\ q[j].latest
                                          /\ q[j].snapshot = q[i].snapshot
                OBVIOUS
            <4>3. WorkKept(q, v, "saving", tm, kept)
                BY <4>1, <4>2, SameWorkKept
            <4> QED
                BY <4>3 DEF q, v, tm
        <3> QED
            BY <1>5, <1>7, <3>1 DEF WorkKept
    <2> QED
        BY <1>2, <1>3, <1>7, <2>1, <2>3 DEF TabKept
<1>8. CASE TimerFires(t)
    <2>1. /\ timer[t] \in Workspaces /\ timer'[t] = Unset
          /\ workspace'[t] = workspace[t] /\ phase'[t] = phase[t]
          /\ calls'[t] = WithSave(calls[t], timer[t])
        BY <1>8, TimerFiresMoves
    <2>2. timer[t] # Unset
        BY <2>1, Markers
    <2>3. ~ clobbered => /\ NoLater(timer[t], workspace[t], kept)
                         /\ phase[t] = "saved" => workspace[t] \in kept
        BY <1>3, <2>2 DEF WorkKept
    <2> QED
        BY <1>4, <2>1, <2>3
<1>9. CASE HidePage(t)
    <2>1. /\ timer'[t] = timer[t]
          /\ workspace'[t] = workspace[t] /\ phase'[t] = phase[t]
          /\ calls'[t] = WithSave(calls[t], workspace[t])
        BY <1>9, HidePageMoves
    <2>2. ~ clobbered => /\ timer[t] # Unset => NoLater(timer[t], workspace[t], kept)
                         /\ phase[t] = "saved" => workspace[t] \in kept
        BY <1>3 DEF WorkKept
    <2> QED
        BY <1>1, <1>4, <1>5, <2>1, <2>2
<1> QED
    BY <1>6, <1>7, <1>8, <1>9, EditMoves

\* Nothing is said of the work of a closed tab.
LEMMA ClosingKept ==
    ASSUME TypeOK, NEW t \in Tabs, TabKept(t), CloseTab(t)
    PROVE  TabKept(t)'
BY CloseTabMoves DEF TabKept, StillStored

\* Settling a call that leaves w in place, or work that passes it.
LEMMA SettledTab ==
    ASSUME TypeOK, NEW t \in Tabs, TabKept(t), page[t] = "open", calls[t] # <<>>,
           kept' = kept, ~ clobbered' => ~ clobbered,
           calls'[t] = Tail(calls[t]), timer'[t] = timer[t],
           workspace'[t] \in Workspaces,
           ~ clobbered' =>
              /\ phase'[t] = "saved" =>
                    workspace'[t] \in kept
                      \/ (phase[t] = "saved" /\ workspace'[t] = workspace[t])
              /\ \/ workspace'[t] = workspace[t]
                 \/ workspace[t].revision < workspace'[t].revision
                 \/ /\ workspace[t].revision = workspace'[t].revision
                    /\ workspace'[t] \in kept
    PROVE  TabKept(t)'
<1> DEFINE q == calls[t]  w == workspace[t]  v == workspace'[t]
           tm == timer[t] ph == phase[t] pi == phase'[t]
<1>1. /\ q \in Seq(Calls) /\ w \in Workspaces /\ q # <<>> /\ v \in Workspaces
      /\ tm \in Workspaces \cup {Unset} /\ QueueKept(q, kept)
    BY TabTypes DEF TabKept
<1>2. ~ clobbered' => WorkKept(q, w, ph, tm, kept)
    BY DEF TabKept
<1>3. ~ clobbered' => (pi = "saved" => v \in kept)
    BY <1>2 DEF WorkKept
<1>4. ~ clobbered' => \/ v = w
                      \/ w.revision < v.revision
                      \/ w.revision = v.revision /\ v \in kept
    OBVIOUS
<1> HIDE DEF q, w, v, tm, ph, pi
<1>5. /\ QueueKept(Tail(q), kept)
      /\ ~ clobbered' => WorkKept(Tail(q), v, pi, tm, kept)
    BY <1>1, <1>2, <1>3, <1>4, SettledKept
<1> QED
    BY <1>5 DEF TabKept, q, v, tm, pi

\* Settling a call and saving v instead.
LEMMA ReplacedTab ==
    ASSUME TypeOK, NEW t \in Tabs, TabKept(t), calls[t] # <<>>,
           kept' = kept, NEW v \in Workspaces,
           calls'[t] = WithSave(Tail(calls[t]), v), timer'[t] = Unset,
           workspace'[t] = v, phase'[t] = "saving"
    PROVE  TabKept(t)'
<1> DEFINE q == calls[t]
<1>1. q \in Seq(Calls) /\ q # <<>> /\ QueueKept(q, kept)
    BY TabTypes DEF TabKept
<1> HIDE DEF q
<1>2. Shrunk(q, Tail(q)) /\ Tail(q) \in Seq(Calls)
    BY <1>1, TailShrinks DEF Shrunk
<1>3. QueueKept(Tail(q), kept)
    BY <1>1, <1>2, ShrunkKept
<1>4. QueueKept(WithSave(Tail(q), v), kept)
    BY <1>2, <1>3, ResavedKept
<1>5. NoLater(v, v, kept)
    BY DEF NoLater
<1>6. WorkKept(WithSave(Tail(q), v), v, "saving", Unset, kept)
    BY <1>2, <1>5, SavedWorkKept
<1> QED
    BY <1>4, <1>6 DEF TabKept, q

\* Settling keeps it: a tab adopts what was stored, and says "saved" of what the
\* latest save stored.
LEMMA SettlingKept ==
    ASSUME TypeOK, NEW t \in Tabs, TabKept(t),
           \/ SettleSaved(t) \/ SettleUnsaved(t) \/ SettleRestore(t)
           \/ SettleAdopt(t) \/ SettleReset(t)
    PROVE  TabKept(t)'
<1> DEFINE s == calls[t][1]
<1>1. /\ page[t] = "open" /\ calls[t] # <<>> /\ s \in Calls
      /\ workspace[t] \in Workspaces /\ workspace[t].revision \in Nat
      /\ Len(calls[t]) >= 1 /\ Len(calls[t]) \in Nat
    BY SettleMoves, TabTypes
       DEF SettleSaved, SettleUnsaved, SettleRestore, SettleAdopt, SettleReset
<1>2. QueueKept(calls[t], kept) /\ CallKept(s, kept)
    BY <1>1 DEF TabKept, QueueKept
<1>3. ~ clobbered => WorkKept(calls[t], workspace[t], phase[t], timer[t], kept)
    BY <1>1 DEF TabKept
<1>4. kept' = kept
    BY SettleSavedMoves, SettleUnsavedMoves, SettleRestoreMoves, SettleAdoptMoves,
       SettleResetMoves DEF StillStored
<1> HIDE DEF s
<1>5. CASE SettleSaved(t)
    <2>1. /\ s.answer = "saved" /\ s \in Saves /\ clobbered' = clobbered
          /\ workspace'[t] = workspace[t] /\ timer'[t] = timer[t]
          /\ calls'[t] = Tail(calls[t])
          /\ \/ /\ s.latest /\ workspace[t].revision = s.snapshot.revision
                /\ phase'[t] = "saved"
             \/ phase'[t] = phase[t]
        BY <1>5, SettleSavedMoves DEF StillStored, s
    <2>2. s.snapshot \in kept /\ s.op = "save" /\ s.snapshot.revision \in Nat
        BY <1>2, <2>1 DEF CallKept, Saves, Workspaces
    <2>3. ASSUME ~ clobbered, s.latest, workspace[t].revision = s.snapshot.revision
          PROVE  workspace[t] \in kept
        <3>1. NoLater(s.snapshot, workspace[t], kept)
            BY <1>1, <1>3, <2>2, <2>3 DEF WorkKept, s
        <3> QED
            BY <2>2, <2>3, <3>1 DEF NoLater
    <2> QED
        BY <1>1, <1>4, <2>1, <2>3, SettledTab
<1>6. CASE SettleUnsaved(t)
    <2>1. /\ clobbered' = clobbered
          /\ workspace'[t] = workspace[t] /\ timer'[t] = timer[t]
          /\ calls'[t] = Tail(calls[t])
          /\ phase'[t] = "memory-only" \/ phase'[t] = phase[t]
        BY <1>6, SettleUnsavedMoves DEF StillStored
    <2> QED
        BY <1>1, <1>4, <2>1, SettledTab
<1>7. CASE SettleAdopt(t)
    <2>1. /\ clobbered' = clobbered /\ timer'[t] = timer[t]
          /\ calls'[t] = Tail(calls[t]) /\ s.op = "adopt"
          /\ \/ /\ s.answer \in Workspaces
                /\ s.answer.revision > workspace[t].revision
                /\ workspace'[t] = s.answer /\ phase'[t] = "saved"
             \/ workspace'[t] = workspace[t] /\ phase'[t] = phase[t]
        BY <1>7, SettleAdoptMoves, SettleMoves DEF StillStored, s
    <2>2. CASE /\ s.answer \in Workspaces
               /\ s.answer.revision > workspace[t].revision
               /\ workspace'[t] = s.answer /\ phase'[t] = "saved"
        <3>1. workspace'[t] \in kept
            BY <1>2, <2>1, <2>2 DEF CallKept
        <3>2. workspace'[t] \in Workspaces
              /\ workspace[t].revision < workspace'[t].revision
            BY <1>1, <2>2 DEF Workspaces
        <3> QED
            BY <1>1, <1>4, <2>1, <3>1, <3>2, SettledTab
    <2>3. CASE workspace'[t] = workspace[t] /\ phase'[t] = phase[t]
        BY <1>1, <1>4, <2>1, <2>3, SettledTab
    <2> QED
        BY <2>1, <2>2, <2>3
<1>8. CASE SettleRestore(t)
    <2>1. s.op = "restore"
        <3>1. Arrives(t, "restore")
            BY <1>8 DEF SettleRestore
        <3> QED
            BY <3>1, SettleMoves DEF s
    <2>2. CASE /\ s.answer \in Workspaces
               /\ workspace'[t] = s.answer /\ timer'[t] = timer[t]
               /\ calls'[t] = Tail(calls[t])
               /\ clobbered' = (clobbered \/ Clobbers(t, s.answer))
        <3>1. workspace'[t] \in kept /\ workspace'[t].revision \in Nat
            BY <1>2, <2>1, <2>2 DEF CallKept, Workspaces
        <3>2. ~ clobbered' => ~ clobbered
            BY <2>2
        <3>3. ~ clobbered' => \/ workspace'[t] = workspace[t]
                              \/ workspace[t].revision < workspace'[t].revision
                              \/ workspace[t].revision = workspace'[t].revision
            <4>1. ~ clobbered' => ~ Clobbers(t, s.answer)
                BY <2>2, Zenon
            <4>2. ~ Clobbers(t, s.answer) =>
                     \/ workspace'[t] = workspace[t]
                     \/ ~ (workspace[t].revision > workspace'[t].revision)
                BY <2>2 DEF Clobbers
            <4> QED
                BY <1>1, <3>1, <4>1, <4>2
        <3> QED
            BY <1>1, <1>4, <2>2, <3>1, <3>2, <3>3, SettledTab
    <2>3. CASE /\ workspace'[t] = DefaultWorkspace /\ timer'[t] = Unset
               /\ phase'[t] = "saving"
               /\ calls'[t] = WithSave(Tail(calls[t]), DefaultWorkspace)
        BY <1>1, <1>4, <2>3, DefaultIsWorkspace, ReplacedTab
    <2>4. CASE /\ workspace'[t] = workspace[t] /\ timer'[t] = timer[t]
               /\ calls'[t] = Tail(calls[t]) /\ phase'[t] # "saved"
               /\ ~ clobbered' => ~ clobbered
        BY <1>1, <1>4, <2>4, SettledTab
    <2> QED
        BY <1>8, <2>2, <2>3, <2>4, SettleRestoreMoves DEF s
<1>9. CASE SettleReset(t)
    <2>1. CASE /\ workspace'[t] \in Workspaces
               /\ phase'[t] = "saving" /\ timer'[t] = Unset
               /\ calls'[t] = WithSave(Tail(calls[t]), workspace'[t])
        BY <1>1, <1>4, <2>1, ReplacedTab
    <2>2. CASE /\ workspace'[t] = workspace[t]
               /\ phase'[t] = phase[t] /\ timer'[t] = timer[t]
               /\ calls'[t] = Tail(calls[t]) /\ clobbered' = clobbered
        BY <1>1, <1>4, <2>2, SettledTab
    <2> QED
        BY <1>9, <2>1, <2>2, SettleResetMoves DEF StillStored
<1> QED
    BY <1>5, <1>6, <1>7, <1>8, <1>9

\* What an answer leaves of a tab.
LEMMA AnsweredTabKept ==
    ASSUME TypeOK, NEW t \in Tabs, TabKept(t),
           NEW i, NEW a, Answered(t, i, a),
           kept \subseteq kept', clobbered' = clobbered,
           calls[t][i].op = "save" /\ a = "saved" => calls[t][i].snapshot \in kept',
           calls[t][i].op \in {"restore", "adopt"} /\ a \in Workspaces => a \in kept'
    PROVE  TabKept(t)'
<1> DEFINE q == calls[t]  r == calls'[t]
<1>1. /\ q \in Seq(Calls) /\ workspace[t] \in Workspaces
      /\ timer[t] \in Workspaces \cup {Unset} /\ QueueKept(q, kept)
      /\ Marked(q, r, i, a)
    BY TabTypes DEF TabKept, Answered
<1> HIDE DEF r
<1>2. QueueKept(r, kept')
    <2> DEFINE k == kept  l == kept'
    <2>1. /\ k \subseteq l
          /\ q[i].op = "save" /\ a = "saved" => q[i].snapshot \in l
          /\ q[i].op \in {"restore", "adopt"} /\ a \in Workspaces => a \in l
          /\ QueueKept(q, k)
        BY <1>1
    <2> HIDE DEF k, l, q
    <2>2. QueueKept(r, l)
        BY <1>1, <2>1, MarkedKept
    <2> QED
        BY <2>2 DEF l
<1>3. ASSUME WorkKept(q, workspace[t], phase[t], timer[t], kept)
      PROVE  WorkKept(r, workspace[t], phase[t], timer[t], kept')
    <2> DEFINE k == kept  l == kept'  w == workspace[t]  ph == phase[t]
               tm == timer[t]
    <2>1. /\ WorkKept(q, w, ph, tm, k) /\ k \subseteq l /\ w \in Workspaces
          /\ tm \in Workspaces \cup {Unset} /\ q \in Seq(Calls)
        BY <1>1, <1>3
    <2> HIDE DEF k, l, w, ph, tm, q
    <2>2. \A j \in 1..Len(r) : r[j].op = "save" /\ r[j].latest =>
             \E m \in 1..Len(q) : /\ q[m].op = "save" /\ q[m].latest
                                  /\ q[m].snapshot = r[j].snapshot
        BY <1>1, LatestBefore
    <2>3. ph = "saved" => w \in l
        BY <2>1 DEF WorkKept
    <2>4. WorkKept(r, w, ph, tm, l)
        BY <2>1, <2>2, <2>3, SameWorkKept
    <2> QED
        BY <2>4 DEF l, w, ph, tm
<1>4. /\ page'[t] = page[t] /\ workspace'[t] = workspace[t]
      /\ phase'[t] = phase[t] /\ timer'[t] = timer[t]
    BY DEF Answered
<1> QED
    BY <1>2, <1>3, <1>4 DEF TabKept, r

\* Performing a call keeps it, and what is said of the record.
LEMMA PerformingKept ==
    ASSUME TypeOK, NEW t \in Tabs, TabKept(t), RecordKept,
           PerformSave(t) \/ PerformLoad(t) \/ PerformRemove(t)
    PROVE  TabKept(t)' /\ RecordKept' /\ kept \subseteq kept' /\ clobbered' = clobbered
<1>1. kept \subseteq Workspaces /\ store \in Records \cup {Missing}
    BY DEF TypeOK
<1>2. ASSUME NEW i, NEW a, Answered(t, i, a), StillStored,
             calls[t][i].op = "save" => a # "saved",
             calls[t][i].op \in {"restore", "adopt"} /\ a \in Workspaces => a = store
      PROVE  TabKept(t)' /\ RecordKept' /\ kept \subseteq kept' /\ clobbered' = clobbered
    <2>1. kept' = kept /\ clobbered' = clobbered /\ store' = store
          /\ collided' = collided
        BY <1>2 DEF StillStored
    <2>2. RecordKept'
        BY <2>1 DEF RecordKept
    <2>3. store \in Workspaces => store \in kept
        BY DEF RecordKept
    <2> QED
        BY <1>2, <2>1, <2>2, <2>3, AnsweredTabKept
<1>3. CASE PerformSave(t)
    <2>1. PICK i, a :
             /\ Answered(t, i, a)
             /\ calls[t][i] \in Saves
             /\ \/ /\ a = "saved"
                   /\ ~ Rejects(calls[t][i].snapshot)
                   /\ store' = calls[t][i].snapshot
                   /\ kept' = kept \cup {calls[t][i].snapshot}
                   /\ collided' = (collided \/
                                    /\ store \in Workspaces \ {calls[t][i].snapshot}
                                    /\ store.revision = calls[t][i].snapshot.revision)
                   /\ clobbered' = clobbered
                \/ a \in {"stale", Failed} /\ StillStored
        BY <1>3, PerformSaveMoves
    <2> DEFINE x == calls[t][i].snapshot
    <2>2. x \in Workspaces /\ x.revision \in Nat /\ calls[t][i].op = "save"
        BY <2>1 DEF Saves, Workspaces
    <2> HIDE DEF x
    <2>3. CASE /\ ~ Rejects(x) /\ store' = x /\ kept' = kept \cup {x}
               /\ collided' = (collided \/ /\ store \in Workspaces \ {x}
                                           /\ store.revision = x.revision)
               /\ clobbered' = clobbered
        <3>1. TabKept(t)'
            BY <2>1, <2>2, <2>3, AnsweredTabKept DEF x
        <3>2. ASSUME ~ collided', NEW w \in kept'
              PROVE  x = w \/ x.revision > w.revision
            <4>1. CASE w = x
                BY <4>1
            <4>2. CASE w \in kept
                <5>1. /\ store = w \/ (store \in Workspaces /\ store.revision > w.revision)
                      /\ w \in Workspaces /\ w.revision \in Nat
                    BY <1>1, <2>3, <3>2, <4>2 DEF RecordKept, Workspaces
                <5>2. store \in Workspaces /\ store \in Records /\ store.revision \in Nat
                    BY <5>1, Markers DEF Workspaces
                <5>3. store.revision <= x.revision
                    BY <2>2, <2>3, <5>2 DEF Rejects
                <5>4. store = x \/ store.revision # x.revision
                    BY <2>3, <3>2, <5>2
                <5> QED
                    BY <2>2, <5>1, <5>2, <5>3, <5>4
            <4> QED
                BY <2>3, <3>2, <4>1, <4>2
        <3>3. RecordKept'
            BY <2>2, <2>3, <3>2 DEF RecordKept
        <3> QED
            BY <2>3, <3>1, <3>3
    <2>4. CASE a \in {"stale", Failed} /\ StillStored
        <3>1. a # "saved"
            BY <2>4, ConstantsAssumption
        <3> QED
            BY <1>2, <2>1, <2>2, <2>4, <3>1
    <2> QED
        BY <2>1, <2>3, <2>4 DEF x
<1>4. CASE PerformLoad(t)
    <2>1. PICK i, a : /\ Answered(t, i, a) /\ StillStored
                      /\ calls[t][i].op \in {"restore", "adopt"}
                      /\ a = store \/ a = Failed
        BY <1>4, PerformLoadMoves
    <2>2. a \in Workspaces => a = store
        BY <2>1, Markers
    <2>3. calls[t][i].op # "save"
        BY <2>1
    <2> QED
        BY <1>2, <2>1, <2>2, <2>3
<1>5. CASE PerformRemove(t)
    <2>1. PICK i, a :
              /\ Answered(t, i, a)
              /\ calls[t][i].op = "remove"
              /\ \/ /\ a = "removed" /\ store' = Missing
                    /\ collided' = (collided \/ store \in Workspaces)
                    /\ kept' = kept /\ clobbered' = clobbered
                 \/ a = Failed /\ StillStored
        BY <1>5, PerformRemoveMoves
    <2>2. CASE /\ store' = Missing
               /\ collided' = (collided \/ store \in Workspaces)
               /\ kept' = kept /\ clobbered' = clobbered
        <3>1. TabKept(t)'
            BY <2>1, <2>2, AnsweredTabKept
        <3>2. ASSUME ~ collided', NEW w \in kept PROVE FALSE
            BY <1>1, <2>2, <3>2 DEF RecordKept
        <3>3. RecordKept'
            BY <2>2, <3>2, Markers DEF RecordKept
        <3> QED
            BY <2>2, <3>1, <3>3
    <2>3. CASE a = Failed /\ StillStored
        BY <1>2, <2>1, <2>3
    <2> QED
        BY <2>1, <2>2, <2>3
<1> QED
    BY <1>3, <1>4, <1>5

-----------------------------------------------------------------------------
(* A tab that is alone.  Its queue tells what became of the record: what    *)
(* was saved, loaded or removed last is the record, and no work is waiting  *)
(* behind a load that could replace it.                                    *)

WasSaved(c) == c.op = "save" /\ c.answer = "saved"
WasRemoved(c) == c.op = "remove" /\ c.answer = "removed"
WasLoaded(c) == c.op = "restore" /\ c.answer \notin {Unset, Failed}

\* The calls are answered in their order.
InOrder(q) ==
    \A i, j \in 1..Len(q) : i < j /\ q[j].answer # Unset => q[i].answer # Unset

\* The last call that changed the record made it s, and the loads after it were
\* answered with it.
Effects(q, s) ==
    /\ \A i \in 1..Len(q) : WasSaved(q[i]) =>
          \/ s = q[i].snapshot
          \/ \E j \in 1..Len(q) : i < j /\ (WasSaved(q[j]) \/ WasRemoved(q[j]))
    /\ \A i \in 1..Len(q) : WasRemoved(q[i]) =>
          s = Missing \/ \E j \in 1..Len(q) : i < j /\ WasSaved(q[j])
    /\ \A i \in 1..Len(q) : WasLoaded(q[i]) =>
          \/ s = q[i].answer
          \/ \E j \in 1..Len(q) : i < j /\ (WasSaved(q[j]) \/ WasRemoved(q[j]))
    /\ \A i, j \in 1..Len(q) :
          i < j /\ WasRemoved(q[i]) /\ WasLoaded(q[j]) /\ q[j].answer # Missing =>
             \E m \in 1..Len(q) : i < m /\ m < j /\ WasSaved(q[m])

\* There is one restore at most; the tab has nobody to adopt from.
OneRestore(q) ==
    /\ \A i \in 1..Len(q) : q[i].op # "adopt"
    /\ \A i, j \in 1..Len(q) : q[i].op = "restore" /\ q[j].op = "restore" => i = j

NoSave(q) == \A i \in 1..Len(q) : q[i].op # "save"

\* The latest save is the last one, and it saves w or older work.
LatestSave(q, w) ==
    /\ \A i, j \in 1..Len(q) :
          i < j /\ q[i].op = "save" /\ q[i].latest => q[j].op # "save"
    /\ \A i \in 1..Len(q) : q[i].op = "save" /\ q[i].latest =>
          q[i].snapshot = w \/ q[i].snapshot.revision < w.revision

\* A restore will not replace work: it finds no record, and the saves follow it.
Harmless(q, s) ==
    \A i \in 1..Len(q) : q[i].op = "restore" =>
       /\ q[i].answer \in {Missing, Failed} \/ (q[i].answer = Unset /\ s = Missing)
       /\ \A j \in 1..Len(q) : q[j].op = "save" => i < j

\* While there is no unsaved work, a save saves w once more, a restore is the
\* last call and the user waits for it, and nothing else saves.
Idle(q, w, ph, tm) ==
    /\ \A i \in 1..Len(q) : q[i].op = "save" => q[i].snapshot = w /\ tm = Unset
    /\ \A i \in 1..Len(q) : q[i].op = "restore" =>
          i = Len(q) /\ tm = Unset /\ ph = "restoring" /\ NoSave(q)
    /\ ph \in {"memory-only", "recovery-required"} => tm = Unset /\ NoSave(q)

\* What is shown as saved is the record, or was removed without the tab's
\* knowing it yet.
Shown(q, s, w) == s = w \/ (s = Missing /\ \E i \in 1..Len(q) : WasRemoved(q[i]))

Lone(q, s, w, d, ph, tm) ==
    /\ InOrder(q) /\ Effects(q, s) /\ OneRestore(q) /\ LatestSave(q, w)
    /\ tm \in {Unset, w}
    /\ ~ d => Idle(q, w, ph, tm)
    /\ d => Harmless(q, s)
    /\ ph = "saved" => ~ d /\ Shown(q, s, w)

LoneTab(t) ==
    page[t] = "open" /\ (\A u \in Tabs \ {t} : page[u] = "new") =>
       /\ inbox[t] = {}
       /\ Lone(calls[t], store, workspace[t], dirty[t], phase[t], timer[t])

\* A queue that grows by a call without an answer.
LEMMA GrownLone ==
    ASSUME NEW q \in Seq(Calls), NEW r, NEW c, NEW s, NEW w,
           Grown(q, r, c), c.answer = Unset
    PROVE  /\ InOrder(q) => InOrder(r)
           /\ Effects(q, s) => Effects(r, s)
           /\ Shown(q, s, w) => Shown(r, s, w)
           /\ Len(q) \in Nat /\ Len(r) = Len(q) + 1
           /\ \A i \in 1..Len(r) : i \in 1..Len(q) \/ i = Len(q) + 1
<1>1. Len(q) \in Nat /\ Len(r) = Len(q) + 1
    BY QueueFacts DEF Grown
<1>2. \A i \in 1..Len(r) : i \in 1..Len(q) \/ i = Len(q) + 1
    BY <1>1
<1>3. \A i \in 1..Len(q) : i \in 1..Len(r)
    BY <1>1
<1>4. /\ \A i \in 1..Len(q) :
            /\ r[i].op = q[i].op /\ r[i].answer = q[i].answer
            /\ q[i].op = "save" => r[i].snapshot = q[i].snapshot
      /\ r[Len(q) + 1].answer = Unset
    BY DEF Grown
<1>5. /\ \A i \in 1..Len(q) : /\ WasSaved(r[i]) <=> WasSaved(q[i])
                              /\ WasRemoved(r[i]) <=> WasRemoved(q[i])
                              /\ WasLoaded(r[i]) <=> WasLoaded(q[i])
      /\ ~ WasSaved(r[Len(q) + 1]) /\ ~ WasRemoved(r[Len(q) + 1])
      /\ ~ WasLoaded(r[Len(q) + 1])
    BY <1>4, ConstantsAssumption DEF WasSaved, WasRemoved, WasLoaded
<1>6. InOrder(q) => InOrder(r)
    BY <1>1, <1>2, <1>4 DEF InOrder
<1>7. ASSUME Effects(q, s) PROVE Effects(r, s)
    <2>1. ASSUME NEW i \in 1..Len(r), WasSaved(r[i])
          PROVE  \/ s = r[i].snapshot
                 \/ \E j \in 1..Len(r) : i < j /\ (WasSaved(r[j]) \/ WasRemoved(r[j]))
        <3>1. i \in 1..Len(q) /\ WasSaved(q[i]) /\ r[i].snapshot = q[i].snapshot
            BY <1>2, <1>4, <1>5, <2>1 DEF WasSaved
        <3> QED
            BY <1>3, <1>5, <1>7, <3>1 DEF Effects
    <2>2. ASSUME NEW i \in 1..Len(r), WasRemoved(r[i])
          PROVE  s = Missing \/ \E j \in 1..Len(r) : i < j /\ WasSaved(r[j])
        <3>1. i \in 1..Len(q) /\ WasRemoved(q[i])
            BY <1>2, <1>5, <2>2
        <3> QED
            BY <1>3, <1>5, <1>7, <3>1 DEF Effects
    <2>3. ASSUME NEW i \in 1..Len(r), WasLoaded(r[i])
          PROVE  \/ s = r[i].answer
                 \/ \E j \in 1..Len(r) : i < j /\ (WasSaved(r[j]) \/ WasRemoved(r[j]))
        <3>1. i \in 1..Len(q) /\ WasLoaded(q[i]) /\ r[i].answer = q[i].answer
            BY <1>2, <1>4, <1>5, <2>3
        <3> QED
            BY <1>3, <1>5, <1>7, <3>1 DEF Effects
    <2>4. ASSUME NEW i \in 1..Len(r), NEW j \in 1..Len(r), i < j,
                 WasRemoved(r[i]), WasLoaded(r[j]), r[j].answer # Missing
          PROVE  \E m \in 1..Len(r) : i < m /\ m < j /\ WasSaved(r[m])
        <3>1. /\ i \in 1..Len(q) /\ j \in 1..Len(q)
              /\ WasRemoved(q[i]) /\ WasLoaded(q[j]) /\ q[j].answer # Missing
            BY <1>2, <1>4, <1>5, <2>4
        <3>2. PICK m \in 1..Len(q) : i < m /\ m < j /\ WasSaved(q[m])
            BY <1>7, <2>4, <3>1 DEF Effects
        <3> QED
            BY <1>3, <1>5, <3>2
    <2> QED
        BY <2>1, <2>2, <2>3, <2>4 DEF Effects
<1>8. Shown(q, s, w) => Shown(r, s, w)
    BY <1>3, <1>5 DEF Shown
<1> QED
    BY <1>1, <1>2, <1>6, <1>7, <1>8

\* A queue whose first call is settled.
LEMMA ShrunkLone ==
    ASSUME NEW q \in Seq(Calls), NEW r, NEW s, NEW w, NEW ph, NEW tm, Shrunk(q, r)
    PROVE  /\ InOrder(q) => InOrder(r)
           /\ Effects(q, s) => Effects(r, s)
           /\ OneRestore(q) => OneRestore(r)
           /\ LatestSave(q, w) => LatestSave(r, w)
           /\ Harmless(q, s) => Harmless(r, s)
           /\ Idle(q, w, ph, tm) => Idle(r, w, ph, tm)
           /\ Shown(q, s, w) /\ ~ WasRemoved(q[1]) => Shown(r, s, w)
           /\ Len(q) \in Nat /\ Len(r) \in Nat /\ Len(q) = Len(r) + 1
           /\ \A i \in 1..Len(r) : i + 1 \in 1..Len(q) /\ r[i] = q[i + 1]
<1>1. Len(q) \in Nat /\ Len(r) \in Nat /\ Len(q) = Len(r) + 1
    BY QueueFacts DEF Shrunk
<1>2. \A i \in 1..Len(r) : i + 1 \in 1..Len(q) /\ r[i] = q[i + 1]
    BY <1>1 DEF Shrunk
<1>3. ASSUME NEW i \in 1..Len(r), NEW j \in 1..Len(q), i + 1 < j
      PROVE  j - 1 \in 1..Len(r) /\ i < j - 1 /\ r[j - 1] = q[j]
    <2>1. j - 1 \in 1..Len(r) /\ i < j - 1 /\ (j - 1) + 1 = j
        BY <1>1, <1>3
    <2> QED
        BY <1>2, <2>1
<1>4. InOrder(q) => InOrder(r)
    BY <1>2 DEF InOrder
<1>5. ASSUME Effects(q, s) PROVE Effects(r, s)
    <2>1. ASSUME NEW i \in 1..Len(r), WasSaved(r[i])
          PROVE  \/ s = r[i].snapshot
                 \/ \E j \in 1..Len(r) : i < j /\ (WasSaved(r[j]) \/ WasRemoved(r[j]))
        <3>1. i + 1 \in 1..Len(q) /\ r[i] = q[i + 1]
            BY <1>2
        <3>2. CASE s # r[i].snapshot
            <4>1. PICK j \in 1..Len(q) : i + 1 < j /\ (WasSaved(q[j]) \/ WasRemoved(q[j]))
                BY <1>5, <2>1, <3>1, <3>2 DEF Effects
            <4> QED
                BY <1>3, <4>1
        <3> QED
            BY <3>2
    <2>2. ASSUME NEW i \in 1..Len(r), WasRemoved(r[i])
          PROVE  s = Missing \/ \E j \in 1..Len(r) : i < j /\ WasSaved(r[j])
        <3>1. i + 1 \in 1..Len(q) /\ r[i] = q[i + 1]
            BY <1>2
        <3>2. CASE s # Missing
            <4>1. PICK j \in 1..Len(q) : i + 1 < j /\ WasSaved(q[j])
                BY <1>5, <2>2, <3>1, <3>2 DEF Effects
            <4> QED
                BY <1>3, <4>1
        <3> QED
            BY <3>2
    <2>3. ASSUME NEW i \in 1..Len(r), WasLoaded(r[i])
          PROVE  \/ s = r[i].answer
                 \/ \E j \in 1..Len(r) : i < j /\ (WasSaved(r[j]) \/ WasRemoved(r[j]))
        <3>1. i + 1 \in 1..Len(q) /\ r[i] = q[i + 1]
            BY <1>2
        <3>2. CASE s # r[i].answer
            <4>1. PICK j \in 1..Len(q) : i + 1 < j /\ (WasSaved(q[j]) \/ WasRemoved(q[j]))
                BY <1>5, <2>3, <3>1, <3>2 DEF Effects
            <4> QED
                BY <1>3, <4>1
        <3> QED
            BY <3>2
    <2>4. ASSUME NEW i \in 1..Len(r), NEW j \in 1..Len(r), i < j,
                 WasRemoved(r[i]), WasLoaded(r[j]), r[j].answer # Missing
          PROVE  \E m \in 1..Len(r) : i < m /\ m < j /\ WasSaved(r[m])
        <3>1. /\ i + 1 \in 1..Len(q) /\ j + 1 \in 1..Len(q) /\ i + 1 < j + 1
              /\ r[i] = q[i + 1] /\ r[j] = q[j + 1]
            BY <1>2, <2>4
        <3>2. PICK m \in 1..Len(q) : i + 1 < m /\ m < j + 1 /\ WasSaved(q[m])
            BY <1>5, <2>4, <3>1 DEF Effects
        <3>3. m - 1 \in 1..Len(r) /\ i < m - 1 /\ r[m - 1] = q[m]
            BY <1>3, <3>2
        <3>4. m - 1 < j
            BY <3>2
        <3> QED
            BY <3>2, <3>3, <3>4
    <2> QED
        BY <2>1, <2>2, <2>3, <2>4 DEF Effects
<1>6. ASSUME OneRestore(q) PROVE OneRestore(r)
    <2>1. ASSUME NEW i \in 1..Len(r), NEW j \in 1..Len(r),
                 r[i].op = "restore", r[j].op = "restore"
          PROVE  i = j
        <3>1. i + 1 = j + 1
            BY <1>2, <1>6, <2>1 DEF OneRestore
        <3> QED
            BY <1>1, <3>1
    <2>2. \A i \in 1..Len(r) : r[i].op # "adopt"
        BY <1>2, <1>6 DEF OneRestore
    <2> QED
        BY <2>1, <2>2 DEF OneRestore
<1>7. ASSUME LatestSave(q, w) PROVE LatestSave(r, w)
    <2>1. ASSUME NEW i \in 1..Len(r), NEW j \in 1..Len(r), i < j,
                 r[i].op = "save", r[i].latest
          PROVE  r[j].op # "save"
        <3>1. i + 1 < j + 1
            BY <1>1, <2>1
        <3> QED
            BY <1>2, <1>7, <2>1, <3>1 DEF LatestSave
    <2>2. \A i \in 1..Len(r) : r[i].op = "save" /\ r[i].latest =>
             r[i].snapshot = w \/ r[i].snapshot.revision < w.revision
        BY <1>2, <1>7 DEF LatestSave
    <2> QED
        BY <2>1, <2>2 DEF LatestSave
<1>8. ASSUME Harmless(q, s) PROVE Harmless(r, s)
    <2>1. ASSUME NEW i \in 1..Len(r), r[i].op = "restore"
          PROVE  /\ \/ r[i].answer \in {Missing, Failed}
                    \/ r[i].answer = Unset /\ s = Missing
                 /\ \A j \in 1..Len(r) : r[j].op = "save" => i < j
        <3>1. /\ \/ r[i].answer \in {Missing, Failed}
                 \/ r[i].answer = Unset /\ s = Missing
              /\ \A j \in 1..Len(q) : q[j].op = "save" => i + 1 < j
            BY <1>2, <1>8, <2>1 DEF Harmless
        <3>2. ASSUME NEW j \in 1..Len(r), r[j].op = "save" PROVE i < j
            <4>1. i + 1 < j + 1
                BY <1>2, <3>1, <3>2
            <4> QED
                BY <1>1, <4>1
        <3> QED
            BY <3>1, <3>2
    <2> QED
        BY <2>1 DEF Harmless
<1>9. NoSave(q) => NoSave(r)
    BY <1>2 DEF NoSave
<1>10. Idle(q, w, ph, tm) => Idle(r, w, ph, tm)
    BY <1>1, <1>2, <1>9 DEF Idle
<1>11. ASSUME Shown(q, s, w), ~ WasRemoved(q[1]) PROVE Shown(r, s, w)
    <2>1. CASE s # w
        <3>1. PICK j \in 1..Len(q) : WasRemoved(q[j])
            BY <1>11, <2>1 DEF Shown
        <3>2. j # 1 /\ s = Missing
            BY <1>11, <2>1, <3>1 DEF Shown
        <3>3. j - 1 \in 1..Len(r) /\ (j - 1) + 1 = j
            BY <1>1, <3>1, <3>2
        <3>4. r[j - 1] = q[j]
            BY <1>2, <3>3
        <3> QED
            BY <3>1, <3>2, <3>3, <3>4 DEF Shown
    <2> QED
        BY <2>1 DEF Shown
<1> QED
    BY <1>1, <1>2, <1>4, <1>5, <1>6, <1>7, <1>8, <1>10, <1>11

\* A queue that gets an answer: its order, and what it says of restores and saves.
LEMMA MarkedOrder ==
    ASSUME NEW q \in Seq(Calls), NEW r, NEW i, NEW a, NEW w, NEW ph, NEW tm,
           Marked(q, r, i, a), a # Unset, InOrder(q),
           \A j \in 1..i : (q[j].answer = Unset) <=> (j = i)
    PROVE  /\ InOrder(r)
           /\ OneRestore(q) => OneRestore(r)
           /\ LatestSave(q, w) => LatestSave(r, w)
           /\ Idle(q, w, ph, tm) => Idle(r, w, ph, tm)
           /\ \A j \in 1..Len(q) : i < j => q[j].answer = Unset /\ r[j].answer = Unset
           /\ \A j \in 1..Len(q) : r[j].answer # Unset => ~ (i < j)
           /\ Len(q) \in Nat /\ Len(r) = Len(q) /\ i \in 1..Len(q)
<1>1. Len(q) \in Nat /\ Len(r) = Len(q) /\ i \in 1..Len(q) /\ i \in Nat
    BY QueueFacts DEF Marked
<1>2. /\ r[i].answer = a
      /\ \A j \in 1..Len(q) :
           /\ r[j].op = q[j].op
           /\ j # i => r[j].answer = q[j].answer
           /\ q[j].op = "save" => /\ r[j].snapshot = q[j].snapshot
                                  /\ r[j].latest => q[j].latest
    BY DEF Marked
<1>3. i \in 1..i
    BY <1>1
<1>4. q[i].answer = Unset
    BY <1>3
<1>5. \A j \in 1..Len(q) : i < j => q[j].answer = Unset /\ r[j].answer = Unset
    BY <1>1, <1>2, <1>4 DEF InOrder
<1>6. \A j \in 1..Len(q) : r[j].answer # Unset => ~ (i < j)
    BY <1>5
<1>7. \A j \in 1..Len(q) : j < i => j \in 1..i
    BY <1>1
<1>8. \A j \in 1..Len(q) : j < i => r[j].answer # Unset
    BY <1>2, <1>7
<1>9. InOrder(r)
    <2>1. ASSUME NEW j \in 1..Len(r), NEW m \in 1..Len(r), j < m, r[m].answer # Unset
          PROVE  r[j].answer # Unset
        <3>1. j \in 1..Len(q) /\ m \in 1..Len(q) /\ ~ (i < m)
            BY <1>1, <1>6, <2>1
        <3>2. j < i
            BY <1>1, <2>1, <3>1
        <3> QED
            BY <1>8, <3>1, <3>2
    <2> QED
        BY <2>1 DEF InOrder
<1>10. OneRestore(q) => OneRestore(r)
    BY <1>1, <1>2 DEF OneRestore
<1>11. LatestSave(q, w) => LatestSave(r, w)
    BY <1>1, <1>2 DEF LatestSave
<1>12. NoSave(q) => NoSave(r)
    BY <1>1, <1>2 DEF NoSave
<1>13. Idle(q, w, ph, tm) => Idle(r, w, ph, tm)
    BY <1>1, <1>2, <1>12 DEF Idle
<1> QED
    BY <1>1, <1>5, <1>6, <1>9, <1>10, <1>11, <1>13

\* A tab takes work and saves it at once.
LEMMA LoneTake ==
    ASSUME NEW q \in Seq(Calls), NEW s, NEW x \in Workspaces,
           InOrder(q), Effects(q, s), OneRestore(q), Harmless(q, s)
    PROVE  Lone(WithSave(q, x), s, x, TRUE, "saving", Unset)
<1> DEFINE r == WithSave(q, x)
<1>1. /\ Grown(q, r, SaveCall(x))
      /\ \A i \in 1..Len(q) : r[i].op = "save" => ~ r[i].latest
      /\ SaveCall(x).answer = Unset /\ SaveCall(x).op = "save"
      /\ SaveCall(x).snapshot = x
    BY SaveGrows DEF SaveCall
<1> HIDE DEF r
<1>2. /\ InOrder(r) /\ Effects(r, s)
      /\ Len(q) \in Nat /\ Len(r) = Len(q) + 1
      /\ \A i \in 1..Len(r) : i \in 1..Len(q) \/ i = Len(q) + 1
    BY <1>1, GrownLone
<1>3. /\ \A i \in 1..Len(q) : r[i].op = q[i].op /\ r[i].answer = q[i].answer
      /\ r[Len(q) + 1].op = "save" /\ r[Len(q) + 1].snapshot = x
    BY <1>1 DEF Grown
<1>4. OneRestore(r)
    BY <1>2, <1>3 DEF OneRestore
<1>5. LatestSave(r, x)
    <2>1. \A i \in 1..Len(r) : r[i].op = "save" /\ r[i].latest => i = Len(q) + 1
        BY <1>1, <1>2
    <2>2. \A i, j \in 1..Len(r) : i = Len(q) + 1 => ~ (i < j)
        BY <1>2
    <2> QED
        BY <1>3, <2>1, <2>2 DEF LatestSave
<1>6. Harmless(r, s)
    <2>1. ASSUME NEW i \in 1..Len(r), r[i].op = "restore"
          PROVE  /\ \/ r[i].answer \in {Missing, Failed}
                    \/ r[i].answer = Unset /\ s = Missing
                 /\ \A j \in 1..Len(r) : r[j].op = "save" => i < j
        <3>1. i \in 1..Len(q) /\ q[i].op = "restore" /\ r[i].answer = q[i].answer
            BY <1>2, <1>3, <2>1
        <3>2. i < Len(q) + 1
            BY <1>2, <3>1
        <3> QED
            BY <1>2, <1>3, <3>1, <3>2 DEF Harmless
    <2> QED
        BY <2>1 DEF Harmless
<1>7. Lone(r, s, x, TRUE, "saving", Unset)
    BY <1>2, <1>4, <1>5, <1>6 DEF Lone
<1> QED
    BY <1>7 DEF r

\* A tab saves its work again: the timer fires, or the page is hidden.
LEMMA LoneResave ==
    ASSUME NEW q \in Seq(Calls), NEW s, NEW w \in Workspaces, NEW d \in BOOLEAN,
           NEW ph, NEW tm, NEW ti,
           Lone(q, s, w, d, ph, tm),
           \/ tm = w /\ ti = Unset
           \/ d /\ ti = tm
    PROVE  Lone(WithSave(q, w), s, w, d, ph, ti)
<1> DEFINE r == WithSave(q, w)
<1>1. /\ Grown(q, r, SaveCall(w))
      /\ SaveCall(w).answer = Unset /\ SaveCall(w).op = "save"
      /\ SaveCall(w).snapshot = w
    BY SaveGrows DEF SaveCall
<1>2. /\ InOrder(q) /\ Effects(q, s) /\ OneRestore(q) /\ tm \in {Unset, w}
      /\ ~ d => Idle(q, w, ph, tm)
      /\ d => Harmless(q, s)
      /\ ph = "saved" => ~ d /\ Shown(q, s, w)
    BY DEF Lone
<1>3. /\ Len(q) \in Nat /\ Len(r) = Len(q) + 1
      /\ \A i \in 1..Len(r) : i \in 1..Len(q) \/ i = Len(q) + 1
      /\ InOrder(r) /\ Effects(r, s)
      /\ Shown(q, s, w) => Shown(r, s, w)
    BY <1>1, <1>2, GrownLone
<1>4. d => Lone(r, s, w, TRUE, "saving", Unset)
    BY <1>2, LoneTake
<1> HIDE DEF r
<1>5. ASSUME d PROVE Lone(r, s, w, d, ph, ti)
    <2>1. InOrder(r) /\ Effects(r, s) /\ OneRestore(r) /\ LatestSave(r, w) /\ Harmless(r, s)
        BY <1>4, <1>5 DEF Lone
    <2>2. ti \in {Unset, w}
        BY <1>2
    <2>3. ph # "saved"
        BY <1>2, <1>5
    <2> QED
        BY <1>5, <2>1, <2>2, <2>3, Zenon DEF Lone
<1>6. ASSUME ~ d PROVE Lone(r, s, w, d, ph, ti)
    <2>1. tm = w /\ ti = Unset /\ tm # Unset /\ Idle(q, w, ph, tm)
        BY <1>2, <1>6, Markers
    <2>2. /\ \A i \in 1..Len(q) : q[i].op # "save" /\ q[i].op # "restore"
          /\ ph \notin {"memory-only", "recovery-required"}
        BY <2>1 DEF Idle
    <2>3. /\ \A i \in 1..Len(q) : r[i].op = q[i].op
          /\ r[Len(q) + 1].op = "save" /\ r[Len(q) + 1].snapshot = w
        BY <1>1 DEF Grown
    <2>4. OneRestore(r)
        BY <1>2, <1>3, <2>3 DEF OneRestore
    <2>5. \A i \in 1..Len(r) : r[i].op = "save" => i = Len(q) + 1
        BY <1>3, <2>2, <2>3
    <2>6. LatestSave(r, w)
        BY <1>3, <2>3, <2>5 DEF LatestSave
    <2>7. Idle(r, w, ph, ti)
        <3>1. \A i \in 1..Len(r) : r[i].op = "save" => r[i].snapshot = w
            BY <2>3, <2>5
        <3>2. \A i \in 1..Len(r) : r[i].op # "restore"
            BY <1>3, <2>2, <2>3
        <3> QED
            BY <2>1, <2>2, <3>1, <3>2 DEF Idle
    <2>8. ti \in {Unset, w}
        BY <2>1
    <2>9. ph = "saved" => Shown(r, s, w)
        BY <1>2, <1>3
    <2> QED
        BY <1>3, <1>6, <2>4, <2>6, <2>7, <2>8, <2>9, Zenon DEF Lone
<1>7. Lone(r, s, w, d, ph, ti)
    BY <1>5, <1>6, Zenon
<1> QED
    BY <1>7 DEF r

\* A clean tab that waits for nothing has no restore under way.
LEMMA NoRestore ==
    ASSUME NEW q \in Seq(Calls), NEW s, NEW w, NEW ph, NEW tm, NEW d \in BOOLEAN,
           Lone(q, s, w, d, ph, tm), ~ d, ph # "restoring"
    PROVE  /\ \A i \in 1..Len(q) : q[i].op # "restore"
           /\ Harmless(q, s)
<1>1. Idle(q, w, ph, tm)
    BY DEF Lone
<1>2. \A i \in 1..Len(q) : q[i].op # "restore"
    BY <1>1 DEF Idle
<1> QED
    BY <1>2 DEF Harmless

\* Later work is in the timer.
LEMMA LoneLater ==
    ASSUME NEW q \in Seq(Calls), NEW s, NEW w \in Workspaces, NEW v \in Workspaces,
           NEW ph, NEW tm, NEW d \in BOOLEAN,
           Lone(q, s, w, d, ph, tm), ph # "restoring", w.revision < v.revision
    PROVE  Lone(q, s, v, TRUE, "saving", v)
<1>1. InOrder(q) /\ Effects(q, s) /\ OneRestore(q) /\ LatestSave(q, w)
    BY DEF Lone
<1>2. Harmless(q, s)
    BY NoRestore DEF Lone
<1>3. LatestSave(q, v)
    <2>1. ASSUME NEW i \in 1..Len(q), q[i].op = "save", q[i].latest
          PROVE  q[i].snapshot.revision < v.revision
        <3>1. q[i] \in Saves
            BY <2>1, QueueFacts, CallKinds
        <3>2. q[i].snapshot.revision \in Nat /\ w.revision \in Nat /\ v.revision \in Nat
            BY <3>1 DEF Saves, Workspaces
        <3>3. q[i].snapshot = w \/ q[i].snapshot.revision < w.revision
            BY <1>1, <2>1 DEF LatestSave
        <3> QED
            BY <3>2, <3>3
    <2> QED
        BY <1>1, <2>1 DEF LatestSave
<1> QED
    BY <1>1, <1>2, <1>3 DEF Lone

\* A tab with nothing to save asks for the record.
LEMMA LoneRestore ==
    ASSUME NEW q \in Seq(Calls), NEW s, NEW w,
           Lone(q, s, w, FALSE, "recovery-required", Unset)
    PROVE  Lone(Append(q, CallOf("restore")), s, w, FALSE, "restoring", Unset)
<1> DEFINE r == Append(q, CallOf("restore"))
<1>1. /\ Grown(q, r, CallOf("restore"))
      /\ CallOf("restore").op = "restore" /\ CallOf("restore").answer = Unset
    BY AppendGrows
<1> HIDE DEF r
<1>2. /\ InOrder(q) /\ Effects(q, s) /\ OneRestore(q)
      /\ Idle(q, w, "recovery-required", Unset)
    BY DEF Lone
<1>3. \A i \in 1..Len(q) : q[i].op # "save" /\ q[i].op # "restore"
    BY <1>2 DEF Idle, NoSave
<1>4. /\ Len(q) \in Nat /\ Len(r) = Len(q) + 1
      /\ \A i \in 1..Len(r) : i \in 1..Len(q) \/ i = Len(q) + 1
      /\ InOrder(r) /\ Effects(r, s)
    BY <1>1, <1>2, GrownLone
<1>5. /\ \A i \in 1..Len(q) : r[i].op = q[i].op
      /\ r[Len(q) + 1].op = "restore"
    BY <1>1 DEF Grown
<1>6. \A i \in 1..Len(r) : /\ r[i].op # "save" /\ r[i].op # "adopt"
                           /\ r[i].op = "restore" => i = Len(r)
    BY <1>2, <1>3, <1>4, <1>5 DEF OneRestore
<1>7. OneRestore(r)
    BY <1>6 DEF OneRestore
<1>8. LatestSave(r, w)
    BY <1>6 DEF LatestSave
<1>9. Idle(r, w, "restoring", Unset)
    BY <1>6 DEF Idle, NoSave
<1>10. Lone(r, s, w, FALSE, "restoring", Unset)
    BY <1>4, <1>7, <1>8, <1>9 DEF Lone
<1> QED
    BY <1>10 DEF r

\* A reset is asked.
LEMMA LoneReset ==
    ASSUME NEW q \in Seq(Calls), NEW s, NEW w, NEW ph, NEW tm, NEW d \in BOOLEAN,
           Lone(q, s, w, d, ph, tm), ph # "restoring"
    PROVE  Lone(Append(q, CallOf("remove")), s, w, d, ph, tm)
<1> DEFINE r == Append(q, CallOf("remove"))
<1>1. /\ Grown(q, r, CallOf("remove"))
      /\ CallOf("remove").op = "remove" /\ CallOf("remove").answer = Unset
    BY AppendGrows
<1> HIDE DEF r
<1>2. /\ InOrder(q) /\ Effects(q, s) /\ OneRestore(q) /\ LatestSave(q, w)
      /\ tm \in {Unset, w}
      /\ ~ d => Idle(q, w, ph, tm)
      /\ d => Harmless(q, s)
      /\ ph = "saved" => ~ d /\ Shown(q, s, w)
    BY DEF Lone
<1>3. /\ Len(q) \in Nat /\ Len(r) = Len(q) + 1
      /\ \A i \in 1..Len(r) : i \in 1..Len(q) \/ i = Len(q) + 1
      /\ InOrder(r) /\ Effects(r, s)
      /\ Shown(q, s, w) => Shown(r, s, w)
    BY <1>1, <1>2, GrownLone
<1>4. /\ \A i \in 1..Len(q) :
            /\ r[i].op = q[i].op /\ r[i].answer = q[i].answer
            /\ q[i].op = "save" => /\ r[i].snapshot = q[i].snapshot
                                   /\ r[i].latest => q[i].latest
      /\ r[Len(q) + 1].op = "remove"
    BY <1>1 DEF Grown
<1>5. \A i \in 1..Len(r) : r[i].op \in {"save", "restore", "adopt"} => i \in 1..Len(q)
    BY <1>3, <1>4
<1>6. OneRestore(r)
    BY <1>2, <1>4, <1>5 DEF OneRestore
<1>7. LatestSave(r, w)
    BY <1>2, <1>4, <1>5 DEF LatestSave
<1>8. ASSUME d PROVE Harmless(r, s)
    BY <1>2, <1>4, <1>5, <1>8 DEF Harmless
<1>9. ASSUME ~ d PROVE Idle(r, w, ph, tm)
    <2>1. \A i \in 1..Len(q) : q[i].op # "restore"
        BY <1>9, NoRestore
    <2>2. \A i \in 1..Len(r) : r[i].op # "restore"
        BY <1>4, <1>5, <2>1
    <2>3. \A i \in 1..Len(r) : r[i].op = "save" => r[i].snapshot = w /\ tm = Unset
        BY <1>2, <1>4, <1>5, <1>9 DEF Idle
    <2>4. ph \in {"memory-only", "recovery-required"} => tm = Unset /\ NoSave(r)
        BY <1>2, <1>4, <1>5, <1>9 DEF Idle, NoSave
    <2> QED
        BY <2>2, <2>3, <2>4 DEF Idle
<1>10. Lone(r, s, w, d, ph, tm)
    BY <1>2, <1>3, <1>6, <1>7, <1>8, <1>9 DEF Lone
<1> QED
    BY <1>10 DEF r

\* The first call is settled and the tab stays as it is.
LEMMA LoneTail ==
    ASSUME NEW q \in Seq(Calls), q # <<>>, NEW s, NEW w, NEW ph, NEW tm,
           NEW d \in BOOLEAN, Lone(q, s, w, d, ph, tm),
           ~ WasRemoved(q[1]) \/ ph # "saved"
    PROVE  Lone(Tail(q), s, w, d, ph, tm)
<1> DEFINE r == Tail(q)
<1>1. Shrunk(q, r)
    BY TailShrinks
<1> HIDE DEF r
<1>2. /\ InOrder(q) /\ Effects(q, s) /\ OneRestore(q) /\ LatestSave(q, w)
      /\ tm \in {Unset, w}
      /\ ~ d => Idle(q, w, ph, tm)
      /\ d => Harmless(q, s)
      /\ ph = "saved" => ~ d /\ Shown(q, s, w)
    BY DEF Lone
<1>3. /\ InOrder(r) /\ Effects(r, s) /\ OneRestore(r) /\ LatestSave(r, w)
      /\ Harmless(q, s) => Harmless(r, s)
      /\ Idle(q, w, ph, tm) => Idle(r, w, ph, tm)
      /\ Shown(q, s, w) /\ ~ WasRemoved(q[1]) => Shown(r, s, w)
    BY <1>1, <1>2, ShrunkLone
<1>4. Lone(r, s, w, d, ph, tm)
    BY <1>2, <1>3 DEF Lone
<1> QED
    BY <1>4 DEF r

\* A queue without calls, and nothing to save.
LEMMA LoneEmpty ==
    ASSUME NEW r, Len(r) = 0, NEW s, NEW v, NEW pi, pi = "saved" => s = v
    PROVE  Lone(r, s, v, FALSE, pi, Unset)
<1>1. \A i \in 1..Len(r) : FALSE
    OBVIOUS
<1>2. InOrder(r) /\ Effects(r, s) /\ OneRestore(r) /\ LatestSave(r, v)
    BY <1>1 DEF InOrder, Effects, OneRestore, LatestSave
<1>3. Idle(r, v, pi, Unset)
    BY <1>1 DEF Idle, NoSave
<1> QED
    BY <1>2, <1>3 DEF Lone, Shown

\* The latest save is settled: the tab has no save left, and what was saved was
\* its work, if it was of its revision.
LEMMA LoneSaved ==
    ASSUME NEW q \in Seq(Calls), q # <<>>, NEW s, NEW w \in Workspaces, NEW ph, NEW tm,
           NEW d \in BOOLEAN, Lone(q, s, w, d, ph, tm),
           q[1].op = "save", q[1].latest
    PROVE  /\ NoSave(Tail(q))
           /\ \A i \in 1..Len(Tail(q)) : Tail(q)[i].op # "restore"
           /\ q[1].answer = "saved" /\ w.revision = q[1].snapshot.revision
                 => Shown(Tail(q), s, w)
<1> DEFINE r == Tail(q)
<1>1. Shrunk(q, r) /\ Len(q) >= 1 /\ Len(q) \in Nat
    BY TailShrinks
<1> HIDE DEF r
<1>2. /\ Effects(q, s) /\ LatestSave(q, w)
      /\ ~ d => Idle(q, w, ph, tm)
      /\ d => Harmless(q, s)
    BY DEF Lone
<1>3. 1 \in 1..Len(q)
    BY <1>1
<1>4. /\ \A i \in 1..Len(r) : i + 1 \in 1..Len(q) /\ r[i] = q[i + 1]
      /\ Len(r) \in Nat /\ Len(q) = Len(r) + 1
    BY <1>1, ShrunkLone
<1>5. \A j \in 1..Len(q) : 1 < j => q[j].op # "save"
    BY <1>2, <1>3 DEF LatestSave
<1>6. \A j \in 1..Len(q) : q[j].op # "restore"
    <2>1. CASE d
        <3>1. \A j \in 1..Len(q) : ~ (j < 1)
            OBVIOUS
        <3> QED
            BY <1>2, <1>3, <2>1, <3>1 DEF Harmless
    <2>2. CASE ~ d
        BY <1>2, <1>3, <2>2 DEF Idle, NoSave
    <2> QED
        BY <2>1, <2>2
<1>7. NoSave(r) /\ \A i \in 1..Len(r) : r[i].op # "restore"
    <2>1. \A i \in 1..Len(r) : 1 < i + 1
        BY <1>4
    <2> QED
        BY <1>4, <1>5, <1>6, <2>1 DEF NoSave
<1>8. ASSUME q[1].answer = "saved", w.revision = q[1].snapshot.revision
      PROVE  Shown(r, s, w)
    <2>1. q[1] \in Saves
        BY <1>3, QueueFacts, CallKinds
    <2>2. q[1].snapshot.revision \in Nat
        BY <2>1 DEF Saves, Workspaces
    <2>3. q[1].snapshot = w
        BY <1>2, <1>3, <1>8, <2>2 DEF LatestSave
    <2>4. WasSaved(q[1])
        BY <1>8 DEF WasSaved
    <2>5. CASE s # w
        <3>1. PICK j \in 1..Len(q) : 1 < j /\ (WasSaved(q[j]) \/ WasRemoved(q[j]))
            BY <1>2, <1>3, <2>3, <2>4, <2>5 DEF Effects
        <3>2. WasRemoved(q[j])
            BY <1>5, <3>1 DEF WasSaved
        <3>3. \A m \in 1..Len(q) : j < m => ~ WasSaved(q[m])
            <4>1. \A m \in 1..Len(q) : j < m => 1 < m
                BY <3>1
            <4> QED
                BY <1>5, <4>1 DEF WasSaved
        <3>4. s = Missing
            BY <1>2, <3>1, <3>2, <3>3 DEF Effects
        <3>5. j - 1 \in 1..Len(r) /\ (j - 1) + 1 = j
            BY <1>4, <3>1
        <3>6. r[j - 1] = q[j]
            BY <1>4, <3>5
        <3> QED
            BY <3>2, <3>4, <3>5, <3>6 DEF Shown
    <2> QED
        BY <2>5 DEF Shown
<1> QED
    BY <1>7, <1>8 DEF r

\* A load is settled: if it brings a record, nothing else is under way.
LEMMA LoneLoaded ==
    ASSUME NEW q \in Seq(Calls), q # <<>>, NEW s, NEW w, NEW ph, NEW tm,
           NEW d \in BOOLEAN, Lone(q, s, w, d, ph, tm),
           q[1].op = "restore", q[1].answer # Unset
    PROVE  /\ \A i \in 1..Len(Tail(q)) : Tail(q)[i].op # "restore"
           /\ ~ d => Len(Tail(q)) = 0 /\ tm = Unset
           /\ q[1].answer \notin {Missing, Failed} => ~ d /\ s = q[1].answer
<1> DEFINE r == Tail(q)
<1>1. Shrunk(q, r) /\ Len(q) >= 1 /\ Len(q) \in Nat
    BY TailShrinks
<1> HIDE DEF r
<1>2. /\ Effects(q, s) /\ OneRestore(q)
      /\ ~ d => Idle(q, w, ph, tm)
      /\ d => Harmless(q, s)
    BY DEF Lone
<1>3. 1 \in 1..Len(q)
    BY <1>1
<1>4. /\ \A i \in 1..Len(r) : i + 1 \in 1..Len(q) /\ r[i] = q[i + 1]
      /\ Len(r) \in Nat /\ Len(q) = Len(r) + 1
    BY <1>1, ShrunkLone
<1>5. ASSUME NEW i \in 1..Len(r) PROVE r[i].op # "restore"
    <2>1. i + 1 # 1
        BY <1>4
    <2> QED
        BY <1>2, <1>3, <1>4, <2>1 DEF OneRestore
<1>6. ~ d => 1 = Len(q) /\ tm = Unset
    BY <1>2, <1>3 DEF Idle
<1>7. ASSUME q[1].answer \notin {Missing, Failed} PROVE ~ d /\ s = q[1].answer
    <2>1. ~ d
        BY <1>2, <1>3, <1>7 DEF Harmless
    <2>2. 1 = Len(q)
        BY <1>6, <2>1
    <2>3. \A j \in 1..Len(q) : ~ (1 < j)
        <3>1. \A j \in 1..1 : ~ (1 < j)
            OBVIOUS
        <3> QED
            BY <2>2, <3>1, Zenon
    <2>4. WasLoaded(q[1])
        BY <1>7 DEF WasLoaded
    <2> QED
        BY <1>2, <1>3, <2>1, <2>3, <2>4 DEF Effects
<1>8. ~ d => Len(r) = 0
    BY <1>4, <1>6
<1> QED
    BY <1>5, <1>6, <1>7, <1>8 DEF r

\* A removal is settled: a restore behind it found no record.
LEMMA LoneRemoved ==
    ASSUME NEW q \in Seq(Calls), q # <<>>, NEW s, NEW w, NEW ph, NEW tm,
           NEW d \in BOOLEAN, Lone(q, s, w, d, ph, tm), WasRemoved(q[1])
    PROVE  Harmless(Tail(q), s)
<1> DEFINE r == Tail(q)
<1>1. Shrunk(q, r) /\ Len(q) >= 1 /\ Len(q) \in Nat
    BY TailShrinks
<1> HIDE DEF r
<1>2. /\ Effects(q, s)
      /\ ~ d => Idle(q, w, ph, tm)
      /\ d => Harmless(q, s)
    BY DEF Lone
<1>3. 1 \in 1..Len(q)
    BY <1>1
<1>4. /\ \A i \in 1..Len(r) : i + 1 \in 1..Len(q) /\ r[i] = q[i + 1]
      /\ Len(r) \in Nat /\ Len(q) = Len(r) + 1
      /\ Harmless(q, s) => Harmless(r, s)
    BY <1>1, ShrunkLone
<1>5. ASSUME ~ d, NEW i \in 1..Len(r), r[i].op = "restore"
      PROVE  /\ r[i].answer \in {Missing, Failed} \/ (r[i].answer = Unset /\ s = Missing)
             /\ \A j \in 1..Len(r) : r[j].op = "save" => i < j
    <2>1. NoSave(q)
        BY <1>2, <1>4, <1>5 DEF Idle
    <2>2. \A j \in 1..Len(q) : ~ WasSaved(q[j])
        BY <2>1 DEF NoSave, WasSaved
    <2>3. s = Missing
        BY <1>2, <1>3, <2>2 DEF Effects
    <2>4. 1 < i + 1 /\ i + 1 \in 1..Len(q) /\ r[i] = q[i + 1]
        BY <1>4
    <2>5. WasLoaded(q[i + 1]) => q[i + 1].answer = Missing
        BY <1>2, <1>3, <2>2, <2>4 DEF Effects
    <2>6. r[i].answer \in {Missing, Failed} \/ r[i].answer = Unset
        BY <1>5, <2>4, <2>5 DEF WasLoaded
    <2>7. \A j \in 1..Len(r) : r[j].op # "save"
        BY <1>4, <2>1 DEF NoSave
    <2> QED
        BY <2>3, <2>6, <2>7
<1>6. ~ d => Harmless(r, s)
    BY <1>5 DEF Harmless
<1>7. Harmless(r, s)
    BY <1>2, <1>4, <1>6
<1> QED
    BY <1>7 DEF r

\* A call is answered, and the record becomes what the answer says.
LEMMA LoneAnswered ==
    ASSUME NEW q \in Seq(Calls), NEW r, NEW i, NEW a, NEW s, NEW z,
           NEW w \in Workspaces, NEW ph, NEW tm, NEW d \in BOOLEAN,
           Lone(q, s, w, d, ph, tm),
           Marked(q, r, i, a), a # Unset,
           \A j \in 1..i : (q[j].answer = Unset) <=> (j = i),
           \/ q[i].op = "save" /\ a = "saved" /\ z = q[i].snapshot
           \/ q[i].op = "save" /\ a \in {"stale", Failed} /\ z = s
           \/ q[i].op = "restore" /\ a \in {s, Failed} /\ z = s
           \/ q[i].op = "remove" /\ a = "removed" /\ z = Missing
           \/ q[i].op = "remove" /\ a = Failed /\ z = s
    PROVE  Lone(r, z, w, d, ph, tm)
<1>1. /\ InOrder(q) /\ Effects(q, s) /\ OneRestore(q) /\ LatestSave(q, w)
      /\ tm \in {Unset, w}
      /\ ~ d => Idle(q, w, ph, tm)
      /\ d => Harmless(q, s)
      /\ ph = "saved" => ~ d /\ Shown(q, s, w)
    BY DEF Lone
<1>2. /\ InOrder(r) /\ OneRestore(r) /\ LatestSave(r, w)
      /\ Idle(q, w, ph, tm) => Idle(r, w, ph, tm)
      /\ \A j \in 1..Len(q) : r[j].answer # Unset => ~ (i < j)
      /\ Len(q) \in Nat /\ Len(r) = Len(q) /\ i \in 1..Len(q)
    BY <1>1, MarkedOrder
<1>3. /\ r[i].answer = a
      /\ \A j \in 1..Len(q) :
           /\ r[j].op = q[j].op
           /\ j # i => r[j].answer = q[j].answer
           /\ q[j].op = "save" => r[j].snapshot = q[j].snapshot
    BY DEF Marked
<1>4. i \in 1..i
    BY <1>2
<1>5. q[i].answer = Unset
    BY <1>4
<1>6. /\ \A j \in 1..Len(q) :
            j # i => /\ WasSaved(r[j]) <=> WasSaved(q[j])
                     /\ WasRemoved(r[j]) <=> WasRemoved(q[j])
                     /\ WasLoaded(r[j]) <=> WasLoaded(q[j])
      /\ ~ WasSaved(q[i]) /\ ~ WasRemoved(q[i]) /\ ~ WasLoaded(q[i])
      /\ \A j \in 1..Len(q) :
            WasSaved(r[j]) \/ WasRemoved(r[j]) \/ WasLoaded(r[j]) => j = i \/ j < i
    <2>1. \A j \in 1..Len(q) : r[j].answer # Unset => j = i \/ j < i
        BY <1>2
    <2> QED
        BY <1>3, <1>5, <2>1, ConstantsAssumption DEF WasSaved, WasRemoved, WasLoaded
<1>7. \A j \in 1..Len(q) : WasSaved(q[j]) => WasSaved(r[j])
    BY <1>6
<1>8. \A j \in 1..Len(q) : WasRemoved(q[j]) => WasRemoved(r[j])
    BY <1>6
<1>9. ASSUME NEW j \in 1..Len(r), NEW m \in 1..Len(r), j < m,
             WasRemoved(r[j]), WasLoaded(r[m]), r[m].answer # Missing,
             m # i
      PROVE  \E n \in 1..Len(r) : j < n /\ n < m /\ WasSaved(r[n])
    <2>1. m < i /\ j # i
        BY <1>2, <1>6, <1>9
    <2>2. WasRemoved(q[j]) /\ WasLoaded(q[m]) /\ q[m].answer # Missing
        BY <1>2, <1>3, <1>6, <1>9, <2>1
    <2>3. PICK n \in 1..Len(q) : j < n /\ n < m /\ WasSaved(q[n])
        BY <1>1, <1>2, <1>9, <2>2 DEF Effects
    <2> QED
        BY <1>2, <1>7, <2>3
<1>10. Effects(r, z) /\ (ph = "saved" => Shown(r, z, w)) /\ (d => Harmless(r, z))
    <2>1. CASE q[i].op = "save" /\ a = "saved" /\ z = q[i].snapshot
        <3>1. /\ WasSaved(r[i]) /\ r[i].snapshot = z
              /\ ~ WasRemoved(r[i]) /\ ~ WasLoaded(r[i])
            BY <1>2, <1>3, <2>1 DEF WasSaved, WasRemoved, WasLoaded
        <3>2. Effects(r, z)
            BY <1>2, <1>6, <1>9, <3>1 DEF Effects
        <3>3. ph = "saved" => z = w
            BY <1>1, <1>2, <2>1 DEF Idle
        <3>4. ASSUME d, NEW j \in 1..Len(r), r[j].op = "restore"
              PROVE  r[j].answer \in {Missing, Failed}
            <4>1. j \in 1..Len(q) /\ q[j].op = "restore" /\ j < i
                BY <1>1, <1>2, <1>3, <2>1, <3>4 DEF Harmless
            <4>2. j \in 1..i /\ j # i
                BY <1>2, <4>1
            <4>3. q[j].answer # Unset
                BY <4>2
            <4> QED
                BY <1>1, <1>3, <3>4, <4>1, <4>2, <4>3 DEF Harmless
        <3>5. d => Harmless(r, z)
            BY <1>1, <1>2, <1>3, <3>4 DEF Harmless
        <3> QED
            BY <3>2, <3>3, <3>5 DEF Shown
    <2>2. CASE z = s /\ ~ WasSaved(r[i]) /\ ~ WasRemoved(r[i]) /\ ~ WasLoaded(r[i])
               /\ (q[i].op = "restore" => a = Failed)
        <3>1. \A j \in 1..Len(q) : /\ WasSaved(r[j]) <=> WasSaved(q[j])
                                   /\ WasRemoved(r[j]) <=> WasRemoved(q[j])
                                   /\ WasLoaded(r[j]) => WasLoaded(q[j])
                                   /\ WasLoaded(r[j]) => r[j].answer = q[j].answer
            BY <1>3, <1>6, <2>2
        <3>2. Effects(r, z)
            <4>1. ASSUME NEW j \in 1..Len(r), WasSaved(r[j])
                  PROVE  \/ z = r[j].snapshot
                         \/ \E m \in 1..Len(r) :
                               j < m /\ (WasSaved(r[m]) \/ WasRemoved(r[m]))
                <5>1. WasSaved(q[j]) /\ j \in 1..Len(q) /\ r[j].snapshot = q[j].snapshot
                    BY <1>2, <1>3, <3>1, <4>1 DEF WasSaved
                <5> QED
                    BY <1>1, <1>2, <2>2, <3>1, <5>1 DEF Effects
            <4>2. ASSUME NEW j \in 1..Len(r), WasRemoved(r[j])
                  PROVE  z = Missing \/ \E m \in 1..Len(r) : j < m /\ WasSaved(r[m])
                BY <1>1, <1>2, <2>2, <3>1, <4>2 DEF Effects
            <4>3. ASSUME NEW j \in 1..Len(r), WasLoaded(r[j])
                  PROVE  \/ z = r[j].answer
                         \/ \E m \in 1..Len(r) :
                               j < m /\ (WasSaved(r[m]) \/ WasRemoved(r[m]))
                BY <1>1, <1>2, <2>2, <3>1, <4>3 DEF Effects
            <4>4. \A j, m \in 1..Len(r) :
                     j < m /\ WasRemoved(r[j]) /\ WasLoaded(r[m]) /\ r[m].answer # Missing =>
                        \E n \in 1..Len(r) : j < n /\ n < m /\ WasSaved(r[n])
                BY <1>9, <2>2
            <4> QED
                BY <4>1, <4>2, <4>3, <4>4 DEF Effects
        <3>3. ph = "saved" => Shown(r, z, w)
            BY <1>1, <1>2, <2>2, <3>1 DEF Shown
        <3>4. ASSUME d, NEW j \in 1..Len(r), r[j].op = "restore"
              PROVE  /\ r[j].answer \in {Missing, Failed} \/ (r[j].answer = Unset /\ z = Missing)
                     /\ \A m \in 1..Len(r) : r[m].op = "save" => j < m
            BY <1>1, <1>2, <1>3, <2>2, <3>4 DEF Harmless
        <3>5. d => Harmless(r, z)
            BY <3>4 DEF Harmless
        <3> QED
            BY <3>2, <3>3, <3>5
    <2>3. CASE q[i].op = "restore" /\ a = s /\ z = s
        <3>1. /\ ~ WasSaved(r[i]) /\ ~ WasRemoved(r[i]) /\ r[i].answer = s
            BY <1>2, <1>3, <2>3 DEF WasSaved, WasRemoved
        <3>2. \A j \in 1..Len(q) : /\ WasSaved(r[j]) <=> WasSaved(q[j])
                                   /\ WasRemoved(r[j]) <=> WasRemoved(q[j])
            BY <1>6, <3>1
        <3>3. ASSUME NEW j \in 1..Len(r), WasSaved(r[j])
              PROVE  \/ z = r[j].snapshot
                     \/ \E m \in 1..Len(r) :
                           j < m /\ (WasSaved(r[m]) \/ WasRemoved(r[m]))
            <4>1. WasSaved(q[j]) /\ j \in 1..Len(q) /\ r[j].snapshot = q[j].snapshot
                BY <1>2, <1>3, <3>2, <3>3 DEF WasSaved
            <4> QED
                BY <1>1, <1>2, <2>3, <3>2, <4>1 DEF Effects
        <3>4. ASSUME NEW j \in 1..Len(r), WasRemoved(r[j])
              PROVE  z = Missing \/ \E m \in 1..Len(r) : j < m /\ WasSaved(r[m])
            BY <1>1, <1>2, <2>3, <3>2, <3>4 DEF Effects
        <3>5. ASSUME NEW j \in 1..Len(r), WasLoaded(r[j])
              PROVE  \/ z = r[j].answer
                     \/ \E m \in 1..Len(r) :
                           j < m /\ (WasSaved(r[m]) \/ WasRemoved(r[m]))
            <4>1. CASE j = i
                BY <2>3, <3>1, <4>1
            <4>2. CASE j # i
                <5>1. WasLoaded(q[j]) /\ j \in 1..Len(q) /\ r[j].answer = q[j].answer
                    BY <1>2, <1>3, <1>6, <3>5, <4>2
                <5> QED
                    BY <1>1, <1>2, <2>3, <3>2, <5>1 DEF Effects
            <4> QED
                BY <4>1, <4>2
        <3>6. ASSUME NEW j \in 1..Len(r), j < i, WasRemoved(r[j]), r[i].answer # Missing
              PROVE  \E n \in 1..Len(r) : j < n /\ n < i /\ WasSaved(r[n])
            <4>1. PICK n \in 1..Len(r) : j < n /\ WasSaved(r[n])
                BY <2>3, <3>1, <3>4, <3>6
            <4>2. n < i
                BY <1>2, <1>6, <3>1, <4>1
            <4> QED
                BY <4>1, <4>2
        <3>7. \A j, m \in 1..Len(r) :
                 j < m /\ WasRemoved(r[j]) /\ WasLoaded(r[m]) /\ r[m].answer # Missing =>
                    \E n \in 1..Len(r) : j < n /\ n < m /\ WasSaved(r[n])
            BY <1>9, <3>6
        <3>8. Effects(r, z)
            BY <3>3, <3>4, <3>5, <3>7 DEF Effects
        <3>9. ph = "saved" => Shown(r, z, w)
            BY <1>1, <1>2, <2>3, <3>2 DEF Shown
        <3>10. ASSUME d, NEW j \in 1..Len(r), r[j].op = "restore"
               PROVE  /\ r[j].answer \in {Missing, Failed} \/ (r[j].answer = Unset /\ z = Missing)
                      /\ \A m \in 1..Len(r) : r[m].op = "save" => j < m
            <4>1. j \in 1..Len(q) /\ q[j].op = "restore"
                BY <1>2, <1>3, <3>10
            <4>2. \A m \in 1..Len(r) : r[m].op = "save" => j < m
                BY <1>1, <1>2, <1>3, <3>10, <4>1 DEF Harmless
            <4>3. r[j].answer \in {Missing, Failed} \/ (r[j].answer = Unset /\ z = Missing)
                <5>1. CASE j = i
                    <6>1. s = Missing
                        BY <1>1, <1>2, <1>5, <2>3, <3>10, Markers, ConstantsAssumption DEF Harmless
                    <6> QED
                        BY <3>1, <5>1, <6>1
                <5>2. CASE j # i
                    BY <1>1, <1>3, <2>3, <3>10, <4>1, <5>2 DEF Harmless
                <5> QED
                    BY <5>1, <5>2
            <4> QED
                BY <4>2, <4>3
        <3>11. d => Harmless(r, z)
            BY <3>10 DEF Harmless
        <3> QED
            BY <3>8, <3>9, <3>11
    <2>4. CASE q[i].op = "remove" /\ a = "removed" /\ z = Missing
        <3>1. WasRemoved(r[i]) /\ ~ WasSaved(r[i]) /\ ~ WasLoaded(r[i])
            BY <1>2, <1>3, <2>4 DEF WasSaved, WasRemoved, WasLoaded
        <3>2. Effects(r, z)
            BY <1>2, <1>6, <1>9, <2>4, <3>1 DEF Effects
        <3>3. Shown(r, z, w)
            BY <1>2, <2>4, <3>1 DEF Shown
        <3>4. ASSUME d, NEW j \in 1..Len(r), r[j].op = "restore"
              PROVE  /\ r[j].answer \in {Missing, Failed} \/ (r[j].answer = Unset /\ z = Missing)
                     /\ \A m \in 1..Len(r) : r[m].op = "save" => j < m
            BY <1>1, <1>2, <1>3, <2>4, <3>4 DEF Harmless
        <3>5. d => Harmless(r, z)
            BY <3>4 DEF Harmless
        <3> QED
            BY <3>2, <3>3, <3>5
    <2>5. CASE \/ q[i].op = "save" /\ a \in {"stale", Failed} /\ z = s
               \/ q[i].op \in {"restore", "remove"} /\ a = Failed /\ z = s
        <3>1. ~ WasSaved(r[i]) /\ ~ WasRemoved(r[i]) /\ ~ WasLoaded(r[i])
            BY <1>2, <1>3, <2>5, ConstantsAssumption DEF WasSaved, WasRemoved, WasLoaded
        <3> QED
            BY <2>2, <2>5, <3>1
    <2> QED
        BY <2>1, <2>3, <2>4, <2>5
<1> QED
    BY <1>1, <1>2, <1>10 DEF Lone

\* Every action of a tab that is alone keeps what is said of it.
LEMMA LoneMoves ==
    ASSUME TypeOK, NEW t \in Tabs, LoneTab(t),
           \A u \in Tabs \ {t} : page'[u] = page[u],
           page[t] = "open",
           Lone(calls[t], store, workspace[t], dirty[t], phase[t], timer[t])
              /\ inbox[t] = {} =>
                 /\ inbox'[t] = {}
                 /\ Lone(calls'[t], store', workspace'[t], dirty'[t], phase'[t], timer'[t])
    PROVE  LoneTab(t)'
BY DEF LoneTab

\* A tab that is alone opens, resets or retries; it hears nothing.
LEMMA LoneAsking ==
    ASSUME TypeOK, NEW t \in Tabs, LoneTab(t), NewTab(t),
           \A u \in Tabs \ {t} : page'[u] = page[u],
           OpenTab(t) \/ Reset(t) \/ Retry(t) \/ Hear(t)
    PROVE  LoneTab(t)'
<1> DEFINE q == calls[t]  s == store  w == workspace[t]  d == dirty[t]
           ph == phase[t]  tm == timer[t]
<1>1. q \in Seq(Calls) /\ w \in Workspaces /\ d \in BOOLEAN
    BY TabTypes
<1>2. CASE OpenTab(t)
    <2>1. /\ calls'[t] = Append(q, CallOf("restore")) /\ store' = s
          /\ workspace'[t] = w /\ dirty'[t] = d /\ phase'[t] = ph /\ timer'[t] = tm
          /\ inbox' = inbox /\ page[t] = "new"
        BY <1>2, OpenTabMoves DEF StillStored
    <2>2. /\ q = <<>> /\ inbox[t] = {}
          /\ tm = Unset /\ d = FALSE /\ ph = "restoring"
        BY <1>1, <2>1 DEF NewTab
    <2>3. Len(q) = 0
        BY <2>2
    <2> HIDE DEF q, s, w, d, ph, tm
    <2>4. Lone(q, s, w, FALSE, "recovery-required", Unset)
        BY <2>3, LoneEmpty
    <2>5. Lone(Append(q, CallOf("restore")), s, w, FALSE, "restoring", Unset)
        BY <1>1, <2>4, LoneRestore
    <2>6. Lone(calls'[t], store', workspace'[t], dirty'[t], phase'[t], timer'[t])
        BY <2>1, <2>2, <2>5
    <2> QED
        BY <2>1, <2>2, <2>6 DEF LoneTab
<1>3. ASSUME page[t] = "open", Lone(q, s, w, d, ph, tm), inbox[t] = {},
             Reset(t) \/ Retry(t) \/ Hear(t)
      PROVE  /\ inbox'[t] = {}
             /\ Lone(calls'[t], store', workspace'[t], dirty'[t], phase'[t], timer'[t])
    <2>1. CASE Reset(t)
        <3>1. /\ calls'[t] = Append(q, CallOf("remove")) /\ store' = s
              /\ workspace'[t] = w /\ dirty'[t] = d /\ phase'[t] = ph /\ timer'[t] = tm
              /\ inbox' = inbox /\ ph # "restoring"
            BY <2>1, ResetMoves DEF StillStored
        <3> HIDE DEF q, s, w, d, ph, tm
        <3>2. Lone(Append(q, CallOf("remove")), s, w, d, ph, tm)
            BY <1>1, <1>3, <3>1, LoneReset
        <3> QED
            BY <1>3, <3>1, <3>2
    <2>2. CASE Retry(t) /\ d
        <3>1. /\ calls'[t] = WithSave(q, w) /\ store' = s
              /\ workspace'[t] = w /\ dirty'[t] = d
              /\ phase'[t] = "saving" /\ timer'[t] = Unset /\ inbox' = inbox
            BY <2>2, RetryMoves DEF StillStored
        <3>2. d = TRUE
            BY <1>1, <2>2
        <3> HIDE DEF q, s, w, d, ph, tm
        <3>3. InOrder(q) /\ Effects(q, s) /\ OneRestore(q) /\ Harmless(q, s)
            BY <1>3, <2>2 DEF Lone
        <3>4. Lone(WithSave(q, w), s, w, TRUE, "saving", Unset)
            BY <1>1, <3>3, LoneTake
        <3> QED
            BY <1>3, <3>1, <3>2, <3>4
    <2>3. CASE Retry(t) /\ ~ d
        <3>1. /\ calls'[t] = Append(q, CallOf("restore")) /\ store' = s
              /\ workspace'[t] = w /\ dirty'[t] = d
              /\ phase'[t] = "restoring" /\ timer'[t] = tm /\ inbox' = inbox
              /\ ph \in {"memory-only", "recovery-required"}
            BY <2>3, RetryMoves DEF StillStored
        <3>2. d = FALSE
            BY <1>1, <2>3
        <3> HIDE DEF q, s, w, d, ph, tm
        <3>3. /\ InOrder(q) /\ Effects(q, s) /\ OneRestore(q) /\ LatestSave(q, w)
              /\ Idle(q, w, ph, tm)
            BY <1>3, <2>3 DEF Lone
        <3>4. tm = Unset /\ NoSave(q)
            BY <3>1, <3>3 DEF Idle
        <3>5. \A i \in 1..Len(q) : q[i].op # "restore"
            BY <3>1, <3>3 DEF Idle
        <3>6. Idle(q, w, "recovery-required", Unset)
            BY <3>4, <3>5 DEF Idle, NoSave
        <3>7. Lone(q, s, w, FALSE, "recovery-required", Unset)
            BY <3>3, <3>6 DEF Lone
        <3>8. Lone(Append(q, CallOf("restore")), s, w, FALSE, "restoring", Unset)
            BY <1>1, <3>7, LoneRestore
        <3> QED
            BY <1>3, <3>1, <3>2, <3>4, <3>8
    <2>4. CASE Hear(t)
        BY <1>3, <2>4, HearMoves
    <2> QED
        BY <1>3, <2>1, <2>2, <2>3, <2>4
<1>4. CASE Reset(t) \/ Retry(t) \/ Hear(t)
    <2>1. CASE page[t] = "open"
        BY <1>3, <1>4, <2>1, LoneMoves
    <2>2. CASE page[t] # "open"
        <3>1. page'[t] # "open"
            BY <1>4, <2>2, ResetMoves, RetryMoves, HearMoves
        <3> QED
            BY <3>1 DEF LoneTab
    <2> QED
        BY <2>1, <2>2
<1> QED
    BY <1>2, <1>4

\* A tab that is alone saves its work.
LEMMA LoneSaving ==
    ASSUME TypeOK, NEW t \in Tabs, LoneTab(t),
           \A u \in Tabs \ {t} : page'[u] = page[u],
           Edit(t) \/ TimerFires(t) \/ HidePage(t)
    PROVE  LoneTab(t)'
<1> DEFINE q == calls[t]  s == store  w == workspace[t]  d == dirty[t]
           ph == phase[t]  tm == timer[t]
<1>1. q \in Seq(Calls) /\ w \in Workspaces /\ d \in BOOLEAN /\ w.revision \in Nat
    BY TabTypes
<1>2. page[t] = "open" /\ store' = s /\ inbox' = inbox
    BY EditMoves, TimerFiresMoves, HidePageMoves DEF StillStored
<1>3. ASSUME Lone(q, s, w, d, ph, tm)
      PROVE  Lone(calls'[t], store', workspace'[t], dirty'[t], phase'[t], timer'[t])
    <2>1. CASE Edit(t)
        <3> DEFINE v == workspace'[t]
        <3>1. /\ v \in Workspaces /\ v.revision = w.revision + 1
              /\ dirty'[t] = TRUE /\ phase'[t] = "saving" /\ ph # "restoring"
              /\ \/ timer'[t] = v /\ calls'[t] = q
                 \/ timer'[t] = Unset /\ calls'[t] = WithSave(q, v)
            BY <2>1, EditMoves
        <3> HIDE DEF q, s, w, d, ph, tm, v
        <3>2. w.revision < v.revision
            BY <1>1, <3>1
        <3>3. Lone(q, s, v, TRUE, "saving", v)
            BY <1>1, <1>3, <3>1, <3>2, LoneLater
        <3>4. InOrder(q) /\ Effects(q, s) /\ OneRestore(q) /\ Harmless(q, s)
            BY <3>3 DEF Lone
        <3>5. Lone(WithSave(q, v), s, v, TRUE, "saving", Unset)
            BY <1>1, <3>1, <3>4, LoneTake
        <3>6. CASE timer'[t] = v /\ calls'[t] = q
            BY <1>2, <3>1, <3>3, <3>6 DEF v
        <3>7. CASE timer'[t] = Unset /\ calls'[t] = WithSave(q, v)
            BY <1>2, <3>1, <3>5, <3>7 DEF v
        <3> QED
            BY <3>1, <3>6, <3>7
    <2>2. CASE TimerFires(t)
        <3>1. /\ calls'[t] = WithSave(q, tm) /\ tm \in Workspaces /\ timer'[t] = Unset
              /\ workspace'[t] = w /\ dirty'[t] = d /\ phase'[t] = ph
            BY <2>2, TimerFiresMoves
        <3> HIDE DEF q, s, w, d, ph, tm
        <3>2. tm = w
            BY <1>3, <3>1, Markers DEF Lone
        <3>3. Lone(WithSave(q, w), s, w, d, ph, Unset)
            BY <1>1, <1>3, <3>2, LoneResave
        <3> QED
            BY <1>2, <3>1, <3>2, <3>3
    <2>3. CASE HidePage(t)
        <3>1. /\ calls'[t] = WithSave(q, w) /\ d /\ timer'[t] = tm
              /\ workspace'[t] = w /\ dirty'[t] = d /\ phase'[t] = ph
            BY <2>3, HidePageMoves
        <3> HIDE DEF q, s, w, d, ph, tm
        <3>2. Lone(WithSave(q, w), s, w, d, ph, tm)
            BY <1>1, <1>3, <3>1, LoneResave
        <3> QED
            BY <1>2, <3>1, <3>2
    <2> QED
        BY <2>1, <2>2, <2>3
<1> QED
    BY <1>2, <1>3, LoneMoves

\* A tab that is alone settles a call.
LEMMA LoneSettling ==
    ASSUME TypeOK, NEW t \in Tabs, LoneTab(t),
           \A u \in Tabs \ {t} : page'[u] = page[u],
           \/ SettleSaved(t) \/ SettleUnsaved(t) \/ SettleRestore(t)
           \/ SettleAdopt(t) \/ SettleReset(t)
    PROVE  LoneTab(t)'
<1> DEFINE q == calls[t]  s == store  w == workspace[t]  d == dirty[t]
           ph == phase[t]  tm == timer[t]
<1>1. q \in Seq(Calls) /\ w \in Workspaces /\ d \in BOOLEAN
    BY TabTypes
<1>2. /\ page[t] = "open" /\ q # <<>> /\ Len(q) \in Nat /\ Len(q) >= 1
      /\ Shrunk(q, Tail(q)) /\ q[1].answer # Unset
    BY SettleMoves
       DEF SettleSaved, SettleUnsaved, SettleRestore, SettleAdopt, SettleReset
<1>3. /\ SettleSaved(t) \/ SettleUnsaved(t) => q[1].op = "save"
      /\ SettleRestore(t) => q[1].op = "restore"
      /\ SettleAdopt(t) => q[1].op = "adopt"
      /\ SettleReset(t) => q[1].op = "remove"
    BY SettleMoves
       DEF SettleSaved, SettleUnsaved, SettleRestore, SettleAdopt, SettleReset
<1>4. store' = s /\ inbox'[t] = inbox[t]
    BY SettleSavedMoves, SettleUnsavedMoves, SettleRestoreMoves, SettleAdoptMoves,
       SettleResetMoves DEF StillStored
<1>5. Tail(q) \in Seq(Calls) /\ 1 \in 1..Len(q)
    BY <1>2 DEF Shrunk
<1>6. ASSUME Lone(q, s, w, d, ph, tm)
      PROVE  Lone(calls'[t], store', workspace'[t], dirty'[t], phase'[t], timer'[t])
    <2> HIDE DEF q, s, w, d, ph, tm
    <2>1. /\ InOrder(q) /\ Effects(q, s) /\ OneRestore(q) /\ LatestSave(q, w)
          /\ tm \in {Unset, w}
          /\ ~ d => Idle(q, w, ph, tm)
          /\ d => Harmless(q, s)
          /\ ph = "saved" => ~ d /\ Shown(q, s, w)
        BY <1>6 DEF Lone
    <2>2. /\ InOrder(Tail(q)) /\ Effects(Tail(q), s) /\ OneRestore(Tail(q))
          /\ LatestSave(Tail(q), w)
          /\ Harmless(q, s) => Harmless(Tail(q), s)
        BY <1>1, <1>2, <2>1, ShrunkLone
    <2>3. ~ WasRemoved(q[1]) \/ ph # "saved" => Lone(Tail(q), s, w, d, ph, tm)
        BY <1>1, <1>2, <1>6, LoneTail
    <2>4. CASE SettleSaved(t)
        <3>1. /\ q[1].op = "save" /\ q[1].answer = "saved"
              /\ workspace'[t] = w /\ timer'[t] = tm /\ calls'[t] = Tail(q)
              /\ \/ /\ q[1].latest /\ w.revision = q[1].snapshot.revision
                    /\ dirty'[t] = FALSE /\ phase'[t] = "saved"
                 \/ dirty'[t] = d /\ phase'[t] = ph
            BY <1>3, <2>4, SettleSavedMoves DEF q, w, d, ph, tm
        <3>2. CASE dirty'[t] = d /\ phase'[t] = ph
            BY <1>4, <2>3, <3>1, <3>2 DEF WasRemoved
        <3>3. CASE /\ q[1].latest /\ w.revision = q[1].snapshot.revision
                   /\ dirty'[t] = FALSE /\ phase'[t] = "saved"
            <4>1. /\ NoSave(Tail(q))
                  /\ \A i \in 1..Len(Tail(q)) : Tail(q)[i].op # "restore"
                  /\ q[1].answer = "saved" /\ w.revision = q[1].snapshot.revision
                        => Shown(Tail(q), s, w)
                <5>1. q # <<>> /\ q[1].op = "save" /\ q[1].latest
                    BY <1>2, <3>1, <3>3
                <5> QED
                    BY <1>1, <1>6, <5>1, LoneSaved
            <4>2. Shown(Tail(q), s, w)
                BY <3>1, <3>3, <4>1
            <4>3. Idle(Tail(q), w, "saved", tm)
                BY <4>1 DEF Idle, NoSave
            <4>4. Lone(Tail(q), s, w, FALSE, "saved", tm)
                BY <2>1, <2>2, <4>3, <4>2 DEF Lone
            <4> QED
                BY <1>4, <3>1, <3>3, <4>4
        <3> QED
            BY <3>1, <3>2, <3>3
    <2>5. CASE SettleUnsaved(t)
        <3>1. /\ q[1].op = "save"
              /\ workspace'[t] = w /\ timer'[t] = tm /\ calls'[t] = Tail(q)
              /\ dirty'[t] = d
              /\ \/ q[1].latest /\ phase'[t] = "memory-only"
                 \/ phase'[t] = ph
            BY <1>3, <2>5, SettleUnsavedMoves DEF q, w, d, ph, tm
        <3>2. CASE phase'[t] = ph
            BY <1>4, <2>3, <3>1, <3>2 DEF WasRemoved
        <3>3. CASE q[1].latest /\ phase'[t] = "memory-only"
            <4>1. /\ NoSave(Tail(q))
                  /\ \A i \in 1..Len(Tail(q)) : Tail(q)[i].op # "restore"
                <5>1. q # <<>> /\ q[1].op = "save" /\ q[1].latest
                    BY <1>2, <3>1, <3>3
                <5> QED
                    BY <1>1, <1>6, <5>1, LoneSaved
            <4>2. ~ d => tm = Unset
                BY <1>5, <2>1, <3>1 DEF Idle
            <4>3. ~ d => Idle(Tail(q), w, "memory-only", tm)
                BY <4>1, <4>2 DEF Idle, NoSave
            <4>4. Lone(Tail(q), s, w, d, "memory-only", tm)
                BY <2>1, <2>2, <4>3 DEF Lone
            <4> QED
                BY <1>4, <3>1, <3>3, <4>4
        <3> QED
            BY <3>1, <3>2, <3>3
    <2>6. CASE SettleRestore(t)
        <3> DEFINE answer == q[1].answer
        <3>1. /\ \A i \in 1..Len(Tail(q)) : Tail(q)[i].op # "restore"
              /\ ~ d => Len(Tail(q)) = 0 /\ tm = Unset
              /\ answer \notin {Missing, Failed} => ~ d /\ s = answer
            BY <1>1, <1>2, <1>3, <1>6, <2>6, LoneLoaded
        <3> HIDE DEF answer
        <3>2. CASE /\ answer \in Workspaces
                   /\ workspace'[t] = answer /\ timer'[t] = tm
                   /\ dirty'[t] = FALSE /\ phase'[t] = "saved"
                   /\ calls'[t] = Tail(q)
            <4>1. ~ d /\ s = answer
                BY <3>1, <3>2, Markers
            <4>2. Lone(Tail(q), s, answer, FALSE, "saved", Unset)
                BY <3>1, <4>1, LoneEmpty
            <4> QED
                BY <1>4, <3>1, <3>2, <4>1, <4>2
        <3>3. CASE /\ answer = Missing
                   /\ workspace'[t] = DefaultWorkspace /\ timer'[t] = Unset
                   /\ dirty'[t] = TRUE /\ phase'[t] = "saving"
                   /\ calls'[t] = WithSave(Tail(q), DefaultWorkspace)
            <4>1. Harmless(Tail(q), s)
                BY <3>1 DEF Harmless
            <4>2. Lone(WithSave(Tail(q), DefaultWorkspace), s, DefaultWorkspace,
                       TRUE, "saving", Unset)
                BY <1>5, <2>2, <4>1, DefaultIsWorkspace, LoneTake
            <4> QED
                BY <1>4, <3>3, <4>2
        <3>4. CASE /\ answer \in Unreadable
                   /\ workspace'[t] = w /\ timer'[t] = tm
                   /\ dirty'[t] = FALSE /\ phase'[t] = "recovery-required"
                   /\ calls'[t] = Tail(q)
            <4>1. answer \notin {Missing, Failed}
                BY <3>4, ConstantsAssumption DEF Records
            <4>2. Lone(Tail(q), s, w, FALSE, "recovery-required", Unset)
                BY <3>1, <4>1, LoneEmpty
            <4> QED
                BY <1>4, <3>1, <3>4, <4>1, <4>2
        <3>5. CASE /\ answer = Failed
                   /\ workspace'[t] = w /\ timer'[t] = tm
                   /\ dirty'[t] = d /\ phase'[t] = "memory-only"
                   /\ calls'[t] = Tail(q)
            <4>1. Lone(Tail(q), s, w, d, "memory-only", tm)
                <5>1. ~ d => Idle(Tail(q), w, "memory-only", tm)
                    <6>1. ASSUME ~ d PROVE Lone(Tail(q), s, w, FALSE, "memory-only", Unset)
                        BY <3>1, <6>1, LoneEmpty
                    <6> QED
                        BY <3>1, <6>1 DEF Lone
                <5> QED
                    BY <2>1, <2>2, <5>1 DEF Lone
            <4> QED
                BY <1>4, <3>5, <4>1
        <3>6. \/ /\ answer \in Workspaces
                 /\ workspace'[t] = answer /\ timer'[t] = tm
                 /\ dirty'[t] = FALSE /\ phase'[t] = "saved"
                 /\ calls'[t] = Tail(q)
              \/ /\ answer = Missing
                 /\ workspace'[t] = DefaultWorkspace /\ timer'[t] = Unset
                 /\ dirty'[t] = TRUE /\ phase'[t] = "saving"
                 /\ calls'[t] = WithSave(Tail(q), DefaultWorkspace)
              \/ /\ answer \in Unreadable
                 /\ workspace'[t] = w /\ timer'[t] = tm
                 /\ dirty'[t] = FALSE /\ phase'[t] = "recovery-required"
                 /\ calls'[t] = Tail(q)
              \/ /\ answer = Failed
                 /\ workspace'[t] = w /\ timer'[t] = tm
                 /\ dirty'[t] = d /\ phase'[t] = "memory-only"
                 /\ calls'[t] = Tail(q)
            BY <2>6, SettleRestoreMoves, Zenon DEF answer, q, w, d, tm
        <3> QED
            BY <3>2, <3>3, <3>4, <3>5, <3>6
    <2>7. CASE SettleAdopt(t)
        BY <1>3, <1>5, <2>1, <2>7 DEF OneRestore
    <2>8. CASE SettleReset(t)
        <3>1. \/ /\ q[1].answer = "removed" /\ workspace'[t] \in Workspaces
                 /\ dirty'[t] = TRUE /\ phase'[t] = "saving" /\ timer'[t] = Unset
                 /\ calls'[t] = WithSave(Tail(q), workspace'[t])
              \/ /\ q[1].answer = Failed
                 /\ workspace'[t] = w /\ dirty'[t] = d
                 /\ phase'[t] = ph /\ timer'[t] = tm
                 /\ calls'[t] = Tail(q)
            BY <2>8, SettleResetMoves DEF q, w, d, ph, tm
        <3>2. CASE /\ q[1].answer = "removed" /\ workspace'[t] \in Workspaces
                   /\ dirty'[t] = TRUE /\ phase'[t] = "saving" /\ timer'[t] = Unset
                   /\ calls'[t] = WithSave(Tail(q), workspace'[t])
            <4> DEFINE v == workspace'[t]
            <4>1. WasRemoved(q[1])
                BY <1>3, <2>8, <3>2 DEF WasRemoved
            <4>2. Harmless(Tail(q), s)
                BY <1>1, <1>2, <1>6, <4>1, LoneRemoved
            <4>3. v \in Workspaces
                BY <3>2
            <4> HIDE DEF v
            <4>4. Lone(WithSave(Tail(q), v), s, v, TRUE, "saving", Unset)
                BY <1>5, <2>2, <4>2, <4>3, LoneTake
            <4> QED
                BY <1>4, <3>2, <4>4 DEF v
        <3>3. CASE /\ q[1].answer = Failed
                   /\ workspace'[t] = w /\ dirty'[t] = d
                   /\ phase'[t] = ph /\ timer'[t] = tm
                   /\ calls'[t] = Tail(q)
            <4>1. ~ WasRemoved(q[1])
                BY <3>3, ConstantsAssumption DEF WasRemoved
            <4> QED
                BY <1>4, <2>3, <3>3, <4>1
        <3> QED
            BY <3>1, <3>2, <3>3
    <2> QED
        BY <2>4, <2>5, <2>6, <2>7, <2>8
<1> QED
    BY <1>2, <1>4, <1>6, LoneMoves

\* IndexedDB performs a call of a tab that is alone.
LEMMA LonePerforming ==
    ASSUME TypeOK, NEW t \in Tabs, LoneTab(t),
           \A u \in Tabs \ {t} : page'[u] = page[u],
           PerformSave(t) \/ PerformLoad(t) \/ PerformRemove(t)
    PROVE  LoneTab(t)'
<1> DEFINE q == calls[t]  s == store  w == workspace[t]  d == dirty[t]
           ph == phase[t]  tm == timer[t]
<1>1. q \in Seq(Calls) /\ w \in Workspaces /\ d \in BOOLEAN
    BY TabTypes
<1>2. store # Unset /\ store # Failed
    BY ConstantsAssumption DEF TypeOK
<1>3. ASSUME NEW i, NEW a, Answered(t, i, a), a # Unset,
             \/ q[i].op = "save" /\ a = "saved" /\ store' = q[i].snapshot
             \/ q[i].op = "save" /\ a \in {"stale", Failed} /\ store' = s
             \/ q[i].op \in {"restore", "adopt"} /\ a \in {s, Failed} /\ store' = s
             \/ q[i].op = "remove" /\ a = "removed" /\ store' = Missing
             \/ q[i].op = "remove" /\ a = Failed /\ store' = s
      PROVE  LoneTab(t)'
    <2>1. /\ page' = page /\ inbox' = inbox
          /\ workspace'[t] = w /\ dirty'[t] = d /\ phase'[t] = ph /\ timer'[t] = tm
          /\ Marked(q, calls'[t], i, a) /\ i \in 1..Len(q)
          /\ \A j \in 1..i : (q[j].answer = Unset) <=> (j = i)
        BY <1>3 DEF Answered, IsNext
    <2>2. ASSUME Lone(q, s, w, d, ph, tm)
          PROVE  Lone(calls'[t], store', workspace'[t], dirty'[t], phase'[t], timer'[t])
        <3> DEFINE r == calls'[t]  z == store'
        <3>1. q[i].op # "adopt"
            BY <2>1, <2>2 DEF Lone, OneRestore
        <3>2. \/ q[i].op = "save" /\ a = "saved" /\ z = q[i].snapshot
              \/ q[i].op = "save" /\ a \in {"stale", Failed} /\ z = s
              \/ q[i].op = "restore" /\ a \in {s, Failed} /\ z = s
              \/ q[i].op = "remove" /\ a = "removed" /\ z = Missing
              \/ q[i].op = "remove" /\ a = Failed /\ z = s
            BY <1>3, <3>1
        <3>3. Marked(q, r, i, a)
            BY <2>1
        <3> HIDE DEF q, s, w, d, ph, tm, r, z
        <3>4. Lone(r, z, w, d, ph, tm)
            BY <1>1, <1>3, <2>1, <2>2, <3>2, <3>3, LoneAnswered
        <3> QED
            BY <2>1, <3>4 DEF r, z
    <2>3. CASE page[t] = "open"
        BY <2>1, <2>2, <2>3, LoneMoves
    <2>4. CASE page[t] # "open"
        BY <2>1, <2>4 DEF LoneTab
    <2> QED
        BY <2>3, <2>4
<1>4. CASE PerformSave(t)
    <2>1. PICK i, a :
              /\ Answered(t, i, a)
              /\ q[i].op = "save"
              /\ \/ a = "saved" /\ store' = q[i].snapshot
                 \/ a \in {"stale", Failed} /\ store' = s
        BY <1>4, PerformSaveMoves DEF Saves, StillStored
    <2>2. a # Unset
        BY <2>1, ConstantsAssumption
    <2> QED
        BY <1>3, <2>1, <2>2
<1>5. CASE PerformLoad(t)
    <2>1. PICK i, a : /\ Answered(t, i, a) /\ store' = s
                      /\ q[i].op \in {"restore", "adopt"}
                      /\ a = s \/ a = Failed
        BY <1>5, PerformLoadMoves DEF StillStored
    <2>2. a # Unset
        BY <1>2, <2>1, ConstantsAssumption
    <2> QED
        BY <1>3, <2>1, <2>2
<1>6. CASE PerformRemove(t)
    <2>1. PICK i, a :
              /\ Answered(t, i, a)
              /\ q[i].op = "remove"
              /\ \/ a = "removed" /\ store' = Missing
                 \/ a = Failed /\ store' = s
        BY <1>6, PerformRemoveMoves DEF StillStored
    <2>2. a # Unset
        BY <2>1, ConstantsAssumption
    <2> QED
        BY <1>3, <2>1, <2>2
<1> QED
    BY <1>4, <1>5, <1>6

-----------------------------------------------------------------------------
(* What is shown as saved is stored.                                       *)

TabStored(t) == TabKept(t) /\ NewTab(t) /\ LoneTab(t)

WholeInv == Inv /\ RecordKept /\ \A t \in Tabs : TabStored(t)

\* At first no tab has opened, and the record is all that was stored.
LEMMA InitWhole == Init => WholeInv
<1> SUFFICES ASSUME Init PROVE WholeInv
    OBVIOUS
<1>1. Inv
    BY InitInv
<1>2. kept = {store} \cap Workspaces
    BY DEF Init
<1>3. RecordKept
    BY <1>2 DEF RecordKept
<1>4. ASSUME NEW t \in Tabs PROVE TabStored(t)
    <2>1. /\ page[t] = "new" /\ calls[t] = <<>> /\ inbox[t] = {}
          /\ timer[t] = Unset /\ ~ dirty[t] /\ phase[t] = "restoring"
        BY DEF Init
    <2>2. Len(calls[t]) = 0
        BY <2>1
    <2>3. TabKept(t)
        BY <2>1, <2>2 DEF TabKept, QueueKept
    <2> QED
        BY <2>1, <2>3 DEF TabStored, NewTab, LoneTab
<1> QED
    BY <1>1, <1>3, <1>4 DEF WholeInv

\* What was stored stays so, and work that was lost stays lost.
LEMMA OtherTabKept ==
    ASSUME NEW u \in Tabs, TabKept(u), Same(u),
           kept \subseteq kept', ~ clobbered' => ~ clobbered
    PROVE  TabKept(u)'
<1>1. QueueKept(calls[u], kept')
    BY DEF TabKept, QueueKept, CallKept
<1>2. ~ clobbered' /\ page[u] = "open" =>
         WorkKept(calls[u], workspace[u], phase[u], timer[u], kept')
    BY DEF TabKept, WorkKept, NoLater
<1> QED
    BY <1>1, <1>2 DEF TabKept, Same

\* Every step of every tab preserves it.
LEMMA NextWhole == WholeInv /\ [Next]_vars => WholeInv'
<1> SUFFICES ASSUME WholeInv, [Next]_vars PROVE WholeInv'
    OBVIOUS
<1>1. /\ TypeOK /\ RecordKept
      /\ \A t \in Tabs : TabKept(t) /\ NewTab(t) /\ LoneTab(t) /\ TabOK(t)
    BY DEF WholeInv, Inv, TabStored
<1>2. Inv'
    BY NextInv DEF WholeInv
<1>3. CASE UNCHANGED vars
    <2>1. RecordKept'
        BY <1>1, <1>3 DEF RecordKept, vars, history
    <2>2. ASSUME NEW t \in Tabs PROVE TabStored(t)'
        BY <1>1, <1>3 DEF TabStored, TabKept, NewTab, LoneTab, vars, tabVars, history
    <2> QED
        BY <1>2, <2>1, <2>2 DEF WholeInv
<1>4. CASE Next
    <2>1. PICK t \in Tabs :
             \/ OpenTab(t) \/ Edit(t) \/ HidePage(t) \/ CloseTab(t)
             \/ Retry(t) \/ Reset(t)
             \/ Work(t)
        BY <1>4 DEF Next
    <2>2. \A u \in Tabs \ {t} : Same(u)
        BY <2>1, StepInv DEF WholeInv
    <2>3. \A u \in Tabs \ {t} : page'[u] = page[u]
        BY <2>2 DEF Same
    <2>4. /\ TabKept(t)' /\ LoneTab(t)' /\ page'[t] # "new" /\ RecordKept'
          /\ kept \subseteq kept' /\ (~ clobbered' => ~ clobbered)
          /\ \A u \in Tabs \ {t} : page[u] = "new" => inbox'[u] = inbox[u]
        <3>1. CASE OpenTab(t) \/ Reset(t) \/ Retry(t) \/ Hear(t)
            <4>1. TabKept(t)' /\ LoneTab(t)'
                BY <1>1, <2>3, <3>1, AskingKept, LoneAsking
            <4>2. /\ StillStored /\ page'[t] # "new"
                  /\ \A u \in Tabs \ {t} : inbox'[u] = inbox[u]
                BY <1>1, <3>1, OpenTabMoves, ResetMoves, RetryMoves, HearMoves
                   DEF NewTab
            <4> QED
                BY <1>1, <4>1, <4>2 DEF StillStored, RecordKept
        <3>2. CASE Edit(t) \/ TimerFires(t) \/ HidePage(t)
            <4>1. TabKept(t)' /\ LoneTab(t)'
                BY <1>1, <2>3, <3>2, SavingKept, LoneSaving
            <4>2. StillStored /\ page'[t] = "open" /\ inbox' = inbox
                BY <1>1, <3>2, EditMoves, TimerFiresMoves, HidePageMoves
            <4> QED
                BY <1>1, <4>1, <4>2 DEF StillStored, RecordKept
        <3>3. CASE CloseTab(t)
            <4>1. /\ StillStored /\ page'[t] = "closed"
                  /\ \A u \in Tabs \ {t} : inbox'[u] = inbox[u]
                BY <1>1, <3>3, CloseTabMoves
            <4>2. TabKept(t)' /\ LoneTab(t)'
                BY <1>1, <3>3, <4>1, ClosingKept DEF LoneTab
            <4> QED
                BY <1>1, <4>1, <4>2 DEF StillStored, RecordKept
        <3>4. CASE \/ SettleSaved(t) \/ SettleUnsaved(t) \/ SettleRestore(t)
                   \/ SettleAdopt(t) \/ SettleReset(t)
            <4>1. TabKept(t)' /\ LoneTab(t)'
                BY <1>1, <2>3, <3>4, SettlingKept, LoneSettling
            <4>2. /\ store' = store /\ kept' = kept /\ collided' = collided
                  /\ page'[t] = "open"
                  /\ \A u \in Tabs \ {t} : page[u] = "new" => inbox'[u] = inbox[u]
                BY <1>1, <3>4, SettleSavedMoves, SettleUnsavedMoves, SettleRestoreMoves,
                   SettleAdoptMoves, SettleResetMoves DEF StillStored
            <4>3. ~ clobbered' => ~ clobbered
                <5>1. SettleRestore(t) => (~ clobbered' => ~ clobbered)
                    BY DEF SettleRestore
                <5> QED
                    BY <1>1, <3>4, <5>1, SettleSavedMoves, SettleUnsavedMoves,
                       SettleAdoptMoves, SettleResetMoves DEF StillStored
            <4> QED
                BY <1>1, <4>1, <4>2, <4>3 DEF RecordKept
        <3>5. CASE PerformSave(t) \/ PerformLoad(t) \/ PerformRemove(t)
            <4>1. /\ TabKept(t)' /\ RecordKept' /\ LoneTab(t)'
                  /\ kept \subseteq kept' /\ clobbered' = clobbered
                BY <1>1, <2>3, <3>5, PerformingKept, LonePerforming
            <4>2. \E i, a : Answered(t, i, a)
                BY <1>1, <3>5, PerformSaveMoves, PerformLoadMoves, PerformRemoveMoves
            <4>3. /\ page' = page /\ inbox' = inbox
                  /\ \E i \in 1..Len(calls[t]) : TRUE
                BY <4>2 DEF Answered
            <4>4. page[t] # "new"
                <5>1. CASE page[t] = "new"
                    <6>1. calls[t] = <<>>
                        BY <1>1, <5>1 DEF NewTab
                    <6>2. Len(calls[t]) = 0
                        BY <6>1
                    <6> QED
                        BY <4>3, <6>2
                <5> QED
                    BY <5>1
            <4> QED
                BY <4>1, <4>3, <4>4
        <3> QED
            BY <2>1, <3>1, <3>2, <3>3, <3>4, <3>5 DEF Work
    <2>5. ASSUME NEW u \in Tabs \ {t} PROVE TabStored(u)'
        <3>1. Same(u) /\ TabKept(u) /\ NewTab(u)
            BY <1>1, <2>2
        <3>2. TabKept(u)'
            BY <2>4, <3>1, OtherTabKept
        <3>3. NewTab(u)'
            BY <2>4, <3>1 DEF NewTab, Same
        <3>4. LoneTab(u)'
            BY <2>4 DEF LoneTab
        <3> QED
            BY <3>2, <3>3, <3>4 DEF TabStored
    <2>6. TabStored(t)'
        BY <2>4 DEF TabStored, NewTab
    <2> QED
        BY <1>2, <2>4, <2>5, <2>6 DEF WholeInv
<1> QED
    BY <1>3, <1>4 DEF vars

\* What an open tab shows as saved is the record, or a later revision replaced
\* it, or a reset is removing it, if the tab is alone or if nobody lost stored
\* or unsaved work; unless a late load replaced work, it was stored once.
THEOREM SavedAlwaysStoredUnlessLost == Spec => []SavedIsStoredUnlessLost
<1>1. WholeInv => SavedIsStoredUnlessLost
    <2> SUFFICES ASSUME WholeInv PROVE SavedIsStoredUnlessLost
        OBVIOUS
    <2>1. /\ TypeOK /\ RecordKept
          /\ \A t \in Tabs : TabKept(t) /\ LoneTab(t)
        BY DEF WholeInv, Inv, TabStored
    <2>2. ASSUME ~ clobbered, NEW t \in Open, phase[t] = "saved"
          PROVE  workspace[t] \in kept
        BY <2>1, <2>2 DEF TabKept, WorkKept, Open
    <2>3. ASSUME ~ collided, ~ clobbered, NEW t \in Open, phase[t] = "saved"
          PROVE  \/ store = workspace[t]
                 \/ store \in Workspaces /\ store.revision > workspace[t].revision
        BY <2>1, <2>2, <2>3 DEF RecordKept
    <2>4. ASSUME Alone, NEW t \in Open, phase[t] = "saved"
          PROVE  \/ store = workspace[t]
                 \/ store = Missing /\ \E u \in Tabs : Resetting(u)
        <3>1. t \in Tabs /\ page[t] = "open"
            BY DEF Open
        <3>2. \A u \in Tabs \ {t} : page[u] = "new"
            BY <2>4, <3>1 DEF Alone
        <3>3. Shown(calls[t], store, workspace[t])
            BY <2>1, <2>4, <3>1, <3>2 DEF LoneTab, Lone
        <3>4. ASSUME NEW i \in 1..Len(calls[t]), WasRemoved(calls[t][i])
              PROVE  Resetting(t)
            <4>1. i \in DOMAIN calls[t]
                BY <2>1, <3>1, QueueFacts DEF TypeOK
            <4> QED
                BY <3>4, <4>1 DEF Resetting, WasRemoved
        <3> QED
            BY <3>1, <3>3, <3>4 DEF Shown
    <2> QED
        BY <2>2, <2>3, <2>4 DEF SavedIsStoredUnlessLost, SavedIsStored, SavedWasStored
<1> QED
    BY InitWhole, NextWhole, <1>1, PTL DEF Spec
=============================================================================
