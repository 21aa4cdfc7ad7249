----------------------- MODULE RegistrySnapshotProofs -----------------------
(***************************************************************************)
(* Proofs about RegistrySnapshot, for any texts, documents and bounds, and *)
(* for one process: the commands run one after the other.                  *)
(***************************************************************************)
EXTENDS RegistrySnapshot, TLAPS

\* No two commands at the same time.
OneProcess == \E p : Procs = {p}

Whole(o) == o \in DOMAIN store /\ store[o] = "whole"

Forward(new, old) ==
    /\ DOMAIN old \subseteq DOMAIN new
    /\ \A id \in DOMAIN old : new[id] \in {old[id], old[id] + 1}

Updates(p) == job[p].cmd = "update"
Resolves(p) == job[p].cmd = "resolve"

Copying == {"copy", "create", "fill"}
Building == {"open", "check", "write", "lifecycle", "verify", "identities"}

\* Which command is where.
Placed(p) ==
    /\ pc[p] \in {"check", "undo", "late"} \cup Copying => Updates(p)
    /\ pc[p] = "install" => Resolves(p)
    /\ pc[p] \in {"list", "unlink"} => job[p].cmd = "prune"
    /\ pc[p] \in {"open", "write", "lifecycle", "identities"} => Updates(p) \/ Resolves(p)
    /\ pc[p] = "verify" => ~Resolves(p)

\* The lifecycle read at the beginning is still that of the lock.
PriorCurrent(p) ==
    /\ pc[p] \notin {"idle", "open", "undo", "late"}
    /\ job[p].cmd # "prune"
    => job[p].prior = Lifecycle

\* Lifecycle documents that were compared with it.
DocCompared(p) ==
    /\ /\ Updates(p)
       /\ pc[p] \in {"write", "lifecycle"}
       /\ job[p].uses
       /\ job[p].prior # None
       /\ ~swapped
       => Forward(doc, job[p].prior)
    /\ /\ Updates(p)
       /\ pc[p] \in {"verify", "identities"} \cup Copying
       /\ job[p].prior # None
       /\ job[p].lifecycle # None
       /\ ~swapped
       => Forward(job[p].lifecycle, job[p].prior)
    /\ /\ pc[p] = "install"
       /\ job[p].prior # None
       /\ job[p].lifecycle # None
       => Forward(job[p].lifecycle, job[p].prior)

\* A candidate whose signatures were compared with the lock.
Compared(p) ==
    \/ Resolves(p) /\ pc[p] \in {"lifecycle", "install"}
    \/ pc[p] \in Copying
    => SignaturesKept(p)

\* What resolve has written.
WrittenWhole(p) ==
    /\ Resolves(p)
    /\ pc[p] \in {"write", "identities", "lifecycle", "install"}
    => \A o \in job[p].objs : Whole(o)

\* What update has copied or found, and what it may take back.
Copied(p) ==
    /\ pc[p] \in Copying => job[p].todo \subseteq job[p].objs
    /\ pc[p] \in {"create", "fill"} => job[p].now \in job[p].todo \cap job[p].added
    /\ pc[p] = "fill" => job[p].now \in DOMAIN store
    /\ pc[p] = "late" => kills # 0
    /\ kills = 0 =>
          /\ pc[p] \in Copying => \A o \in job[p].objs \ job[p].todo : Whole(o)
          /\ \A o \in DOMAIN store : store[o] = "torn" =>
                \/ pc[p] = "fill" /\ job[p].now = o
                \/ pc[p] = "undo" /\ o \in job[p].todo
          /\ pc[p] \in Copying => job[p].added \cap Entries = {}
          /\ pc[p] = "undo" => job[p].todo \cap Entries = {}

\* What prune is about to remove.
Unreachable(p) == pc[p] = "unlink" => job[p].todo \cap Entries = {}

\* The store is the one update has found, but for the files S; an update
\* interrupted after its lock was installed has nothing to restore.
Traced(p, S) ==
    /\ S \cap DOMAIN found[p].store = {}
    /\ DOMAIN store \ S = DOMAIN found[p].store
    /\ \A o \in DOMAIN found[p].store : store[o] = found[p].store[o]

FoundKept(p) ==
    /\ IsStore(found[p].store)
    /\ Updates(p) /\ pc[p] \notin {"idle", "late"} =>
          /\ found[p].lock = lock
          /\ pc[p] \in Building => job[p].added = {} /\ store = found[p].store
          /\ pc[p] \in Copying => Traced(p, job[p].added)
          /\ pc[p] = "undo" => Traced(p, job[p].todo)

\* What holds of a command, wherever it is.
Safe(p) ==
    /\ Placed(p)
    /\ PriorCurrent(p)
    /\ DocCompared(p)
    /\ Compared(p)
    /\ WrittenWhole(p)
    /\ Copied(p)
    /\ Unreachable(p)
    /\ FoundKept(p)

\* The inductive invariant, together with ITyped.
IInv == LockBackedUnlessKilled /\ \A p \in Procs : Safe(p)

USE DEF Goto, End, files, control

-----------------------------------------------------------------------------
(* Types.                                                                  *)

Unique(objs) == \A a, b \in objs : a.id = b.id => a = b

\* A candidate has one object per identity, and its lifecycle document knows
\* these identities only.
CandidateTyped(p) ==
    /\ Unique(job[p].objs)
    /\ job[p].lifecycle # None => DOMAIN job[p].lifecycle \subseteq Identities(job[p].objs)
    /\ pc[p] \in {"open", "check"} => job[p].text \in Texts /\ job[p].objs = {}
    /\ pc[p] = "check" => job[p].todo \subseteq DOMAIN job[p].text
    /\ pc[p] \in Copying => job[p].todo \subseteq Objects
    /\ pc[p] = "write" =>
          /\ job[p].text \in Texts
          /\ job[p].todo \subseteq DOMAIN job[p].text \ Identities(job[p].objs)
    /\ pc[p] \in {"create", "fill"} => job[p].now \in Objects

ITyped == TypeOK /\ \A p \in Procs : CandidateTyped(p)

LEMMA BlankTyped == Blank \in Jobs
  BY DEF Blank, Jobs, Commands

\* An object that a command writes.
LEMMA ObjectsOf ==
  ASSUME NEW t \in Texts, NEW s \in Texts, NEW id \in DOMAIN t
  PROVE  [id |-> id, sig |-> t[id], src |-> s] \in Objects
  BY DEF Objects

\* A store stays one.
LEMMA StoreChanged ==
  ASSUME IsStore(store), NEW o
  PROVE  /\ o \in Objects => IsStore(Put(o, "whole")) /\ IsStore(Put(o, "torn"))
         /\ IsStore(Without(o))
  BY DEF IsStore, Put, Without, Restrict

\* No command changes the job or the place of another one.
LEMMA OnlyMine ==
  ASSUME ITyped, NEW p \in Procs, NEW j \in Jobs, NEW l \in Labels,
         job' = [job EXCEPT ![p] = j], pc' = [pc EXCEPT ![p] = l],
         CandidateTyped(p)'
  PROVE  /\ job' \in [Procs -> Jobs]
         /\ pc' \in [Procs -> Labels]
         /\ \A q \in Procs : CandidateTyped(q)'
<1>1. job' \in [Procs -> Jobs] /\ pc' \in [Procs -> Labels]
  BY DEF ITyped, TypeOK
<1>2. ASSUME NEW q \in Procs, q # p PROVE CandidateTyped(q)'
  <2>1. job'[q] = job[q] /\ pc'[q] = pc[q]
    BY <1>2 DEF ITyped, TypeOK
  <2>. QED
    BY <1>2, <2>1 DEF ITyped, CandidateTyped, Unique, Identities
<1>. QED
  BY <1>1, <1>2

\* The types are kept by every step, of any number of processes.
LEMMA TypedStep == ITyped /\ [Next]_vars => ITyped'
<1> SUFFICES ASSUME ITyped, [Next]_vars PROVE ITyped'
  OBVIOUS
<1> USE DEF ITyped
<1>0. MaxRuns \in Nat /\ MaxEdits \in Nat /\ MaxKills \in Nat
  BY ConstantsAssumption
<1>1. ASSUME NEW p \in Procs, Start(p) PROVE ITyped'
  <2> USE <1>1 DEF Start
  <2>1. job[p] \in Jobs /\ pc[p] \in Labels
    BY DEF TypeOK
  <2>a. PICK c \in Commands, u \in BOOLEAN :
            job' = [job EXCEPT ![p] = [Blank EXCEPT !.cmd = c, !.uses = u, !.text = text]]
    OBVIOUS
  <2>b. job'[p] = [Blank EXCEPT !.cmd = c, !.uses = u, !.text = text]
    BY <2>a DEF TypeOK
  <2>2. job'[p] \in Jobs /\ job' = [job EXCEPT ![p] = job'[p]]
    BY <2>a, <2>b DEF TypeOK, Jobs, Blank
  <2>3. pc'[p] \in Labels /\ pc' = [pc EXCEPT ![p] = pc'[p]]
    BY <2>1 DEF TypeOK, Labels
  <2>4. CandidateTyped(p)'
    BY <2>b, <2>3 DEF CandidateTyped, TypeOK, Unique, Blank, Copying
  <2>5. runs' \in 0..MaxRuns
    BY <1>0 DEF TypeOK
  <2>6. found' = [q \in Procs |-> [lock |-> found'[q].lock, store |-> found'[q].store]]
    BY DEF TypeOK
  <2>. QED
    BY <1>0, <2>2, <2>3, <2>4, <2>5, <2>6, OnlyMine DEF TypeOK
<1>2. ASSUME NEW p \in Procs, Open(p) PROVE ITyped'
  <2> USE <1>2 DEF Open
  <2>1. job[p] \in Jobs /\ pc[p] \in Labels
    BY DEF TypeOK
  <2>a. job'[p] = [job[p] EXCEPT !.prior = Lifecycle, !.todo = DOMAIN job[p].text]
    BY DEF TypeOK
  <2>b. Lifecycle \in Docs \cup {None}
    BY DEF TypeOK, Lifecycle, Locks
  <2>c. job[p].text \in Texts /\ job[p].objs = {}
    BY DEF CandidateTyped
  <2>d. DOMAIN job[p].text \subseteq Names
    BY <2>c DEF Names
  <2>2. job'[p] \in Jobs /\ job' = [job EXCEPT ![p] = job'[p]]
    BY <2>1, <2>a, <2>b, <2>d DEF TypeOK, Jobs
  <2>3. pc'[p] \in Labels /\ pc' = [pc EXCEPT ![p] = pc'[p]]
    BY <2>1 DEF TypeOK, Labels
  <2>e. /\ job'[p].text = job[p].text
        /\ job'[p].objs = {}
        /\ job'[p].lifecycle = job[p].lifecycle
        /\ job'[p].todo = DOMAIN job[p].text
    BY ONLY <2>1, <2>a, <2>c DEF Jobs
  <2>f. pc'[p] \in {"check", "write"}
    BY DEF TypeOK
  <2>g. Identities({}) = {}
    BY DEF Identities
  <2>h. job[p].lifecycle # None => DOMAIN job[p].lifecycle \subseteq {}
    BY <2>c, <2>g DEF CandidateTyped
  <2>4. CandidateTyped(p)'
    BY <2>c, <2>e, <2>f, <2>g, <2>h DEF CandidateTyped, Unique, Copying
  <2>. QED
    BY <1>0, <2>2, <2>3, <2>4, OnlyMine DEF TypeOK
<1>3. ASSUME NEW p \in Procs, CheckInput(p) PROVE ITyped'
  <2> USE <1>3 DEF CheckInput
  <2>1. job[p] \in Jobs /\ pc[p] \in Labels
    BY DEF TypeOK
  <2>2. job'[p] \in Jobs /\ job' = [job EXCEPT ![p] = job'[p]]
    BY <2>1 DEF TypeOK, Jobs
  <2>3. pc'[p] \in Labels /\ pc' = [pc EXCEPT ![p] = pc'[p]]
    BY <2>1 DEF TypeOK, Labels
  <2>4. CandidateTyped(p)'
    BY <2>1, <2>2, <2>3 DEF CandidateTyped, TypeOK, Unique, Copying, Identities
  <2>. QED
    BY <1>0, <2>2, <2>3, <2>4, OnlyMine DEF TypeOK
<1>4. ASSUME NEW p \in Procs, WriteObject(p) PROVE ITyped'
  <2> USE <1>4 DEF WriteObject
  <2>1. job[p] \in Jobs /\ pc[p] \in Labels
    BY DEF TypeOK
  <2>2. job'[p] \in Jobs /\ job' = [job EXCEPT ![p] = job'[p]]
    BY <2>1 DEF TypeOK, Jobs, CandidateTyped, Copying, Identities
  <2>3. pc'[p] \in Labels /\ pc' = [pc EXCEPT ![p] = pc'[p]]
    BY <2>1 DEF TypeOK, Labels
  <2>4. CandidateTyped(p)'
    <3>1. PICK id \in job[p].todo :
             LET o == [id |-> id, sig |-> job[p].text[id], src |-> text] IN
             job' = [job EXCEPT ![p].objs = @ \cup {o}, ![p].todo = @ \ {id}]
      OBVIOUS
    <3> DEFINE o == [id |-> id, sig |-> job[p].text[id], src |-> text]
    <3>2. /\ job'[p].objs = job[p].objs \cup {o}
          /\ job'[p].todo = job[p].todo \ {id}
          /\ job'[p].text = job[p].text
          /\ job'[p].lifecycle = job[p].lifecycle
      BY <2>1, <3>1 DEF TypeOK, Jobs
    <3>3. pc[p] = "write" /\ pc'[p] \in {"write", "identities", "lifecycle"}
      BY <2>1 DEF TypeOK, Goto
    <3>4. CandidateTyped(p)
      BY <1>0 DEF ITyped
    <3>5. o.id = id /\ id \notin Identities(job[p].objs)
      BY <3>3, <3>4 DEF CandidateTyped
    <3>. HIDE DEF o
    <3>6. Unique(job'[p].objs)
      BY ONLY <3>2, <3>4, <3>5 DEF CandidateTyped, Unique, Identities
    <3>7. Identities(job'[p].objs) = Identities(job[p].objs) \cup {id}
      BY ONLY <3>2, <3>5 DEF Identities
    <3>. QED
      BY ONLY <3>1, <3>2, <3>3, <3>4, <3>6, <3>7 DEF CandidateTyped, Copying
  <2>5. IsStore(store')
    BY <2>1, StoreChanged, ObjectsOf DEF TypeOK, CandidateTyped, Written
  <2>. QED
    BY <1>0, <2>2, <2>3, <2>4, <2>5, OnlyMine DEF TypeOK
<1>5. ASSUME NEW p \in Procs, TakeLifecycle(p) PROVE ITyped'
  <2> USE <1>5 DEF TakeLifecycle
  <2>1. job[p] \in Jobs /\ pc[p] \in Labels
    BY DEF TypeOK
  <2>2. job'[p] \in Jobs /\ job' = [job EXCEPT ![p] = job'[p]]
    BY <2>1
       DEF TypeOK, Jobs, CandidateTyped, Copying, LifecycleAllowed, Identities
  <2>3. pc'[p] \in Labels /\ pc' = [pc EXCEPT ![p] = pc'[p]]
    BY <2>1 DEF TypeOK, Labels
  <2>4. CandidateTyped(p)'
    BY <2>1, <2>2, <2>3
       DEF CandidateTyped, TypeOK, Jobs, Unique, Copying, LifecycleAllowed,
           Identities
  <2>. QED
    BY <1>0, <2>2, <2>3, <2>4, OnlyMine DEF TypeOK
<1>6. ASSUME NEW p \in Procs, VerifyCandidate(p) PROVE ITyped'
  <2> USE <1>6 DEF VerifyCandidate
  <2>1. job[p] \in Jobs /\ pc[p] \in Labels
    BY DEF TypeOK
  <2>2. job'[p] \in Jobs /\ job' = [job EXCEPT ![p] = job'[p]]
    BY <2>1 DEF TypeOK
  <2>3. pc'[p] \in Labels /\ pc' = [pc EXCEPT ![p] = pc'[p]]
    BY <2>1 DEF TypeOK, Labels
  <2>4. CandidateTyped(p)'
    BY <2>1, <2>2, <2>3 DEF CandidateTyped, TypeOK, Unique, Copying
  <2>. QED
    BY <1>0, <2>2, <2>3, <2>4, OnlyMine DEF TypeOK
<1>7. ASSUME NEW p \in Procs, CheckIdentities(p) PROVE ITyped'
  <2> USE <1>7 DEF CheckIdentities
  <2>1. job[p] \in Jobs /\ pc[p] \in Labels
    BY DEF TypeOK
  <2>2. job'[p] \in Jobs /\ job' = [job EXCEPT ![p] = job'[p]]
    BY <2>1 DEF TypeOK, Jobs, CandidateTyped, Copying
  <2>3. pc'[p] \in Labels /\ pc' = [pc EXCEPT ![p] = pc'[p]]
    BY <2>1 DEF TypeOK, Labels
  <2>4. CandidateTyped(p)'
    <3>1. /\ job'[p].objs = job[p].objs /\ job'[p].lifecycle = job[p].lifecycle
          /\ job'[p].todo \in {job[p].objs, {}}
          /\ job[p].objs \subseteq Objects
      BY <2>1 DEF TypeOK, Jobs
    <3>2. pc'[p] \in {"copy", "lifecycle"}
      BY <2>1 DEF TypeOK, Goto
    <3>3. CandidateTyped(p)
      BY <1>0 DEF ITyped
    <3>. QED
      BY ONLY <3>1, <3>2, <3>3 DEF CandidateTyped, Unique
  <2>. QED
    BY <1>0, <2>2, <2>3, <2>4, OnlyMine DEF TypeOK
<1>8. ASSUME NEW p \in Procs, ChooseCopy(p) PROVE ITyped'
  <2> USE <1>8 DEF ChooseCopy
  <2>1. job[p] \in Jobs /\ pc[p] \in Labels
    BY DEF TypeOK
  <2>a. PICK o \in job[p].todo :
            \/ job' = [job EXCEPT ![p].todo = @ \ {o}] /\ UNCHANGED pc
            \/ /\ job' = [job EXCEPT ![p].now = o, ![p].added = @ \cup {o}]
               /\ pc' = [pc EXCEPT ![p] = "create"]
    OBVIOUS
  <2>b. o \in Objects /\ job[p].todo \subseteq Objects
    BY DEF CandidateTyped, Copying
  <2>3. pc'[p] \in Labels /\ pc' = [pc EXCEPT ![p] = pc'[p]]
    BY <2>1 DEF TypeOK, Labels
  <2>4. /\ job'[p] \in Jobs
        /\ job' = [job EXCEPT ![p] = job'[p]]
        /\ CandidateTyped(p)'
    <3>1. CASE job' = [job EXCEPT ![p].todo = @ \ {o}] /\ UNCHANGED pc
      <4>1. job'[p] = [job[p] EXCEPT !.todo = @ \ {o}]
        BY <3>1 DEF TypeOK
      <4>2. job'[p] \in Jobs /\ job' = [job EXCEPT ![p] = job'[p]]
        BY <2>1, <3>1, <4>1 DEF TypeOK, Jobs
      <4>3. /\ job'[p].objs = job[p].objs
            /\ job'[p].lifecycle = job[p].lifecycle
            /\ job'[p].todo = job[p].todo \ {o}
        BY <2>1, <4>1 DEF Jobs
      <4>. QED
        BY <2>b, <3>1, <4>2, <4>3
           DEF CandidateTyped, Unique, Copying, Identities
    <3>2. CASE /\ job' = [job EXCEPT ![p].now = o, ![p].added = @ \cup {o}]
               /\ pc' = [pc EXCEPT ![p] = "create"]
      <4>1. job'[p] = [job[p] EXCEPT !.now = o, !.added = @ \cup {o}]
        BY <3>2 DEF TypeOK
      <4>2. job'[p] \in Jobs /\ job' = [job EXCEPT ![p] = job'[p]]
        BY <2>1, <2>b, <3>2, <4>1 DEF TypeOK, Jobs
      <4>3. /\ job'[p].objs = job[p].objs
            /\ job'[p].lifecycle = job[p].lifecycle
            /\ job'[p].todo = job[p].todo
            /\ job'[p].now = o
        BY <2>1, <4>1 DEF Jobs
      <4>4. pc'[p] = "create"
        BY <3>2 DEF TypeOK
      <4>. QED
        BY <2>b, <4>2, <4>3, <4>4
           DEF CandidateTyped, Unique, Copying, Identities
    <3>. QED
      BY <2>a, <3>1, <3>2
  <2>. QED
    BY <1>0, <2>3, <2>4, OnlyMine DEF TypeOK
<1>9. ASSUME NEW p \in Procs, CreateCopy(p) PROVE ITyped'
  <2> USE <1>9 DEF CreateCopy
  <2>1. job[p] \in Jobs /\ pc[p] \in Labels
    BY DEF TypeOK
  <2>2. job'[p] \in Jobs /\ job' = [job EXCEPT ![p] = job'[p]]
    BY <2>1 DEF TypeOK
  <2>3. pc'[p] \in Labels /\ pc' = [pc EXCEPT ![p] = pc'[p]]
    BY <2>1 DEF TypeOK, Labels
  <2>4. CandidateTyped(p)'
    BY <2>1, <2>2, <2>3 DEF CandidateTyped, TypeOK, Unique, Copying
  <2>5. IsStore(store')
    BY StoreChanged DEF TypeOK, CandidateTyped
  <2>. QED
    BY <1>0, <2>2, <2>3, <2>4, <2>5, OnlyMine DEF TypeOK
<1>10. ASSUME NEW p \in Procs, FillCopy(p) PROVE ITyped'
  <2> USE <1>10 DEF FillCopy
  <2>1. job[p] \in Jobs /\ pc[p] \in Labels
    BY DEF TypeOK
  <2>2. job'[p] \in Jobs /\ job' = [job EXCEPT ![p] = job'[p]]
    BY <2>1 DEF TypeOK, Jobs, CandidateTyped, Copying
  <2>3. pc'[p] \in Labels /\ pc' = [pc EXCEPT ![p] = pc'[p]]
    BY <2>1 DEF TypeOK, Labels
  <2>4. CandidateTyped(p)'
    BY <2>1, <2>2, <2>3 DEF CandidateTyped, TypeOK, Jobs, Unique, Copying
  <2>5. IsStore(store')
    BY StoreChanged DEF TypeOK, CandidateTyped
  <2>. QED
    BY <1>0, <2>2, <2>3, <2>4, <2>5, OnlyMine DEF TypeOK
<1>11. ASSUME NEW p \in Procs, Install(p) PROVE ITyped'
  <2> USE <1>11 DEF Install
  <2>1. job[p] \in Jobs /\ pc[p] \in Labels
    BY DEF TypeOK
  <2>2. job'[p] \in Jobs /\ job' = [job EXCEPT ![p] = job'[p]]
    BY <2>1, BlankTyped DEF TypeOK
  <2>3. pc'[p] \in Labels /\ pc' = [pc EXCEPT ![p] = pc'[p]]
    BY <2>1 DEF TypeOK, Labels
  <2>4. CandidateTyped(p)'
    BY <2>1, <2>2, <2>3 DEF CandidateTyped, TypeOK, Unique, Copying, Blank
  <2>6. lock' = None \/ lock' \in Locks
    BY <2>1 DEF TypeOK, CandidateTyped, Unique, Jobs, Locks
  <2>. QED
    BY <1>0, <2>2, <2>3, <2>4, <2>6, OnlyMine DEF TypeOK
<1>12. ASSUME NEW p \in Procs, VerifySnapshot(p) PROVE ITyped'
  <2> USE <1>12 DEF VerifySnapshot
  <2>1. job[p] \in Jobs /\ pc[p] \in Labels
    BY DEF TypeOK
  <2>2. job'[p] \in Jobs /\ job' = [job EXCEPT ![p] = job'[p]]
    BY <2>1 DEF TypeOK
  <2>3. pc'[p] \in Labels /\ pc' = [pc EXCEPT ![p] = pc'[p]]
    BY <2>1 DEF TypeOK, Labels
  <2>4. CandidateTyped(p)'
    BY <2>1, <2>2, <2>3 DEF CandidateTyped, TypeOK, Unique, Copying
  <2>. QED
    BY <1>0, <2>2, <2>3, <2>4, OnlyMine DEF TypeOK
<1>13. ASSUME NEW p \in Procs, ListUnreachable(p) PROVE ITyped'
  <2> USE <1>13 DEF ListUnreachable
  <2>1. job[p] \in Jobs /\ pc[p] \in Labels
    BY DEF TypeOK
  <2>a. job'[p] = [job[p] EXCEPT !.todo = DOMAIN store \ Entries]
    BY DEF TypeOK
  <2>2. job'[p] \in Jobs /\ job' = [job EXCEPT ![p] = job'[p]]
    BY <2>1, <2>a DEF TypeOK, Jobs, IsStore
  <2>3. pc'[p] \in Labels /\ pc' = [pc EXCEPT ![p] = pc'[p]]
    BY <2>1 DEF TypeOK, Labels
  <2>4. CandidateTyped(p)'
    BY <2>1, <2>2, <2>3, <2>a DEF CandidateTyped, TypeOK, Jobs, Unique, Copying
  <2>. QED
    BY <1>0, <2>2, <2>3, <2>4, OnlyMine DEF TypeOK
<1>14. ASSUME NEW p \in Procs, Unlink(p) PROVE ITyped'
  <2> USE <1>14 DEF Unlink
  <2>1. job[p] \in Jobs /\ pc[p] \in Labels
    BY DEF TypeOK
  <2>a. PICK o \in job[p].todo : job' = [job EXCEPT ![p].todo = @ \ {o}]
    OBVIOUS
  <2>b. job'[p] = [job[p] EXCEPT !.todo = @ \ {o}]
    BY <2>a DEF TypeOK
  <2>2. job'[p] \in Jobs /\ job' = [job EXCEPT ![p] = job'[p]]
    BY <2>1, <2>a, <2>b DEF TypeOK, Jobs
  <2>3. pc'[p] \in Labels /\ pc' = [pc EXCEPT ![p] = pc'[p]]
    BY <2>1 DEF TypeOK, Labels
  <2>4. CandidateTyped(p)'
    BY <2>1, <2>2, <2>3, <2>b DEF CandidateTyped, TypeOK, Jobs, Unique, Copying
  <2>5. IsStore(store')
    BY StoreChanged DEF TypeOK
  <2>. QED
    BY <1>0, <2>2, <2>3, <2>4, <2>5, OnlyMine DEF TypeOK
<1>15. ASSUME NEW p \in Procs, Pruned(p) PROVE ITyped'
  <2> USE <1>15 DEF Pruned
  <2>1. job[p] \in Jobs /\ pc[p] \in Labels
    BY DEF TypeOK
  <2>2. job'[p] \in Jobs /\ job' = [job EXCEPT ![p] = job'[p]]
    BY <2>1, BlankTyped DEF TypeOK
  <2>3. pc'[p] \in Labels /\ pc' = [pc EXCEPT ![p] = pc'[p]]
    BY <2>1 DEF TypeOK, Labels
  <2>4. CandidateTyped(p)'
    BY <2>1, <2>2, <2>3 DEF CandidateTyped, TypeOK, Unique, Copying, Blank
  <2>. QED
    BY <1>0, <2>2, <2>3, <2>4, OnlyMine DEF TypeOK
<1>16. ASSUME NEW p \in Procs, Raise(p) PROVE ITyped'
  <2> USE <1>16 DEF Raise
  <2>1. job[p] \in Jobs /\ pc[p] \in Labels
    BY DEF TypeOK
  <2>2. job'[p] \in Jobs /\ job' = [job EXCEPT ![p] = job'[p]]
    BY <2>1, BlankTyped DEF TypeOK
  <2>3. pc'[p] \in Labels /\ pc' = [pc EXCEPT ![p] = pc'[p]]
    BY <2>1 DEF TypeOK, Labels
  <2>4. CandidateTyped(p)'
    BY <2>1, <2>2, <2>3 DEF CandidateTyped, TypeOK, Unique, Copying, Blank
  <2>. QED
    BY <1>0, <2>2, <2>3, <2>4, OnlyMine DEF TypeOK
<1>17. ASSUME NEW p \in Procs, TakeBack(p) PROVE ITyped'
  <2> USE <1>17 DEF TakeBack
  <2>1. job[p] \in Jobs /\ pc[p] \in Labels
    BY DEF TypeOK
  <2>2. job'[p] \in Jobs /\ job' = [job EXCEPT ![p] = job'[p]]
    BY <2>1 DEF TypeOK, Jobs, CandidateTyped, Copying, Copies
  <2>3. pc'[p] \in Labels /\ pc' = [pc EXCEPT ![p] = pc'[p]]
    BY <2>1 DEF TypeOK, Labels
  <2>4. CandidateTyped(p)'
    BY <2>1, <2>2, <2>3
       DEF CandidateTyped, TypeOK, Jobs, Unique, Copying, Copies
  <2>. QED
    BY <1>0, <2>2, <2>3, <2>4, OnlyMine DEF TypeOK
<1>18. ASSUME NEW p \in Procs, UnlinkCopy(p) PROVE ITyped'
  <2> USE <1>18 DEF UnlinkCopy
  <2>1. job[p] \in Jobs /\ pc[p] \in Labels
    BY DEF TypeOK
  <2>a. PICK o \in job[p].todo : job' = [job EXCEPT ![p].todo = @ \ {o}]
    OBVIOUS
  <2>b. job'[p] = [job[p] EXCEPT !.todo = @ \ {o}]
    BY <2>a DEF TypeOK
  <2>2. job'[p] \in Jobs /\ job' = [job EXCEPT ![p] = job'[p]]
    BY <2>1, <2>a, <2>b DEF TypeOK, Jobs
  <2>3. pc'[p] \in Labels /\ pc' = [pc EXCEPT ![p] = pc'[p]]
    BY <2>1 DEF TypeOK, Labels
  <2>4. CandidateTyped(p)'
    BY <2>1, <2>2, <2>3, <2>b DEF CandidateTyped, TypeOK, Jobs, Unique, Copying
  <2>5. IsStore(store')
    BY StoreChanged DEF TypeOK
  <2>. QED
    BY <1>0, <2>2, <2>3, <2>4, <2>5, OnlyMine DEF TypeOK
<1>19. ASSUME NEW p \in Procs, TakenBack(p) PROVE ITyped'
  <2> USE <1>19 DEF TakenBack
  <2>1. job[p] \in Jobs /\ pc[p] \in Labels
    BY DEF TypeOK
  <2>2. job'[p] \in Jobs /\ job' = [job EXCEPT ![p] = job'[p]]
    BY <2>1, BlankTyped DEF TypeOK
  <2>3. pc'[p] \in Labels /\ pc' = [pc EXCEPT ![p] = pc'[p]]
    BY <2>1 DEF TypeOK, Labels
  <2>4. CandidateTyped(p)'
    BY <2>1, <2>2, <2>3 DEF CandidateTyped, TypeOK, Unique, Copying, Blank
  <2>. QED
    BY <1>0, <2>2, <2>3, <2>4, OnlyMine DEF TypeOK
<1>20. ASSUME NEW p \in Procs, Kill(p) PROVE ITyped'
  <2> USE <1>20 DEF Kill
  <2>1. job[p] \in Jobs /\ pc[p] \in Labels
    BY DEF TypeOK
  <2>2. job'[p] \in Jobs /\ job' = [job EXCEPT ![p] = job'[p]]
    BY <2>1, BlankTyped DEF TypeOK
  <2>7. kills' \in 0..MaxKills
    BY <1>0 DEF TypeOK
  <2>3. pc'[p] \in Labels /\ pc' = [pc EXCEPT ![p] = pc'[p]]
    BY <2>1 DEF TypeOK, Labels
  <2>4. CandidateTyped(p)'
    BY <2>1, <2>2, <2>3 DEF CandidateTyped, TypeOK, Unique, Copying, Blank
  <2>. QED
    BY <1>0, <2>2, <2>3, <2>4, <2>7, OnlyMine DEF TypeOK
<1>21. CASE EditText
  BY <1>0, <1>21 DEF EditText, TypeOK, CandidateTyped, Unique, Identities
<1>22. CASE EditDoc
  BY <1>0, <1>22 DEF EditDoc, TypeOK, CandidateTyped, Unique, Identities
<1>23. CASE UNCHANGED vars
  BY <1>23 DEF vars, TypeOK, CandidateTyped, Unique, Identities
<1>24. ASSUME NEW p \in Procs, InterruptedLate(p) PROVE ITyped'
  <2> USE <1>24 DEF InterruptedLate
  <2>1. job[p] \in Jobs /\ pc[p] \in Labels
    BY DEF TypeOK
  <2>2. job'[p] \in Jobs /\ job' = [job EXCEPT ![p] = job'[p]]
    BY <2>1 DEF TypeOK, Jobs, CandidateTyped, Copying, Copies
  <2>7. kills' \in 0..MaxKills
    BY <1>0 DEF TypeOK
  <2>3. pc'[p] \in Labels /\ pc' = [pc EXCEPT ![p] = pc'[p]]
    BY <2>1 DEF TypeOK, Labels
  <2>4. CandidateTyped(p)'
    BY <2>1, <2>2, <2>3
       DEF CandidateTyped, TypeOK, Jobs, Unique, Copying, Copies
  <2>6. lock' = None \/ lock' \in Locks
    BY <2>1 DEF TypeOK, CandidateTyped, Unique, Jobs, Locks
  <2>. QED
    BY <1>0, <2>2, <2>3, <2>4, <2>6, <2>7, OnlyMine DEF TypeOK
<1>. QED
  BY <1>1, <1>2, <1>3, <1>4, <1>5, <1>6, <1>7, <1>8, <1>9, <1>10, <1>11, <1>12,
     <1>13, <1>14, <1>15, <1>16, <1>17, <1>18, <1>19, <1>20, <1>21, <1>22, <1>23,
     <1>24
     DEF Next

LEMMA TypedInit == Init => ITyped
<1> SUFFICES ASSUME Init PROVE ITyped
  OBVIOUS
<1>1. 0 \in 0..MaxRuns /\ 0 \in 0..MaxEdits /\ 0 \in 0..MaxKills
  BY ConstantsAssumption
<1>2. IsStore(store)
  BY DEF Init, IsStore
<1>3. \A p \in Procs : CandidateTyped(p)
  BY DEF Init, CandidateTyped, Unique, Blank
<1>. QED
  BY <1>1, <1>2, <1>3, BlankTyped DEF Init, ITyped, TypeOK, Labels

\* The types, for any number of processes.
THEOREM TypeInvariant == Spec => []TypeOK
<1>1. ITyped => TypeOK
  BY DEF ITyped
<1>. QED
  BY <1>1, TypedInit, TypedStep, PTL DEF Spec
-----------------------------------------------------------------------------
(* One command at a time.                                                  *)

\* What is left of the store when a file is removed.
LEMMA WithoutFacts ==
  ASSUME NEW o
  PROVE  /\ DOMAIN Without(o) = DOMAIN store \ {o}
         /\ \A x \in DOMAIN store : x # o => Without(o)[x] = store[x]
  BY DEF Without, Restrict

\* With one process p, every step keeps Safe(p).
LEMMA SafeStep ==
  ASSUME OneProcess, ITyped, LockBackedUnlessKilled, NEW p \in Procs, Safe(p), [Next]_vars
  PROVE  Safe(p)' /\ LockBackedUnlessKilled'
<1>0. /\ \A q \in Procs : q = p
      /\ job[p] \in Jobs
      /\ p \in DOMAIN pc /\ p \in DOMAIN job /\ p \in DOMAIN found
      /\ CandidateTyped(p)
      /\ IsStore(store)
      /\ kills \in Nat
  BY ConstantsAssumption DEF OneProcess, ITyped, TypeOK
<1> HIDE DEF End, files, control

<1>1. ASSUME Start(p) PROVE Safe(p)' /\ LockBackedUnlessKilled'
  <2>1. /\ pc[p] = "idle"
        /\ pc'[p] \in {"verify", "open"}
        /\ job'[p].cmd \in Commands
        /\ pc'[p] = IF job'[p].cmd = "prune" THEN "verify" ELSE "open"
        /\ job'[p].lifecycle = None
        /\ job'[p].prior = None
        /\ job'[p].added = {}
        /\ job'[p].objs = {}
        /\ found'[p].lock = lock
        /\ found'[p].store = store
    <3>1. PICK c \in Commands, u \in BOOLEAN :
            /\ job' = [job EXCEPT ![p] = [Blank EXCEPT !.cmd = c, !.uses = u,
                                                      !.text = text]]
            /\ pc' = [pc EXCEPT ![p] = IF c = "prune" THEN "verify" ELSE "open"]
      BY <1>1 DEF Start, Goto
    <3>2. job'[p] = [Blank EXCEPT !.cmd = c, !.uses = u, !.text = text]
      BY <1>0, <3>1
    <3>3. /\ job'[p].cmd = c /\ job'[p].lifecycle = None
          /\ job'[p].prior = None /\ job'[p].added = {} /\ job'[p].objs = {}
      BY <3>2 DEF Blank
    <3>4. pc'[p] = IF c = "prune" THEN "verify" ELSE "open"
      BY <1>0, <3>1
    <3>5. /\ pc[p] = "idle"
          /\ found' = [found EXCEPT ![p] = [lock |-> lock, store |-> store]]
      BY <1>1 DEF Start
    <3>6. found'[p].lock = lock /\ found'[p].store = store
      BY <1>0, <3>5
    <3>. QED
      BY <3>3, <3>4, <3>5, <3>6
  <2>2. UNCHANGED <<files, lock, store, kills, swapped>>
    BY <1>1 DEF Start
  <2>. QED
    BY <1>0, <2>1, <2>2
       DEF Safe, Copying, Building, Updates, Resolves, Lifecycle, Forward,
           LifecycleAllowed, SignaturesKept, Entries, Whole, Traced, IsStore,
           Placed, PriorCurrent, DocCompared, Compared, WrittenWhole, Copied,
           Unreachable, FoundKept, files, Commands, LockBackedUnlessKilled,
           LockBacked
<1>2. ASSUME Open(p) PROVE Safe(p)' /\ LockBackedUnlessKilled'
  <2>1. /\ job'[p].cmd = job[p].cmd
        /\ job'[p].uses = job[p].uses
        /\ job'[p].text = job[p].text
        /\ job'[p].prior = Lifecycle
        /\ job'[p].objs = job[p].objs
        /\ job'[p].lifecycle = job[p].lifecycle
        /\ job'[p].todo = DOMAIN job[p].text
        /\ job'[p].now = job[p].now
        /\ job'[p].added = job[p].added
    BY <1>0, <1>2 DEF Open, Jobs
  <2>b. job[p].objs = {}
    BY <1>0, <1>2 DEF Open, CandidateTyped
  <2>3. Safe(p)'
    BY <1>0, <1>2, <2>1, <2>b
       DEF Open, Safe, Building, Compared, Copied, Copying, DocCompared,
           Entries, Forward, FoundKept, IsStore, Lifecycle, LifecycleAllowed,
           Placed, PriorCurrent, Resolves, SignaturesKept, Traced, Unreachable,
           Updates, Whole, WrittenWhole, files, control
  <2>4. LockBackedUnlessKilled'
    BY <1>0, <1>2, <2>1, <2>b
       DEF Open, Safe, Copied, Copying, Unreachable, Whole, WrittenWhole,
           Placed, Updates, Resolves, LockBackedUnlessKilled, LockBacked, Entries,
           control
  <2>. QED
    BY <2>3, <2>4
<1>3. ASSUME CheckInput(p) PROVE Safe(p)' /\ LockBackedUnlessKilled'
  <2>1. /\ job'[p].cmd = job[p].cmd
        /\ job'[p].uses = job[p].uses
        /\ job'[p].text = job[p].text
        /\ job'[p].prior = job[p].prior
        /\ job'[p].objs = job[p].objs
        /\ job'[p].lifecycle = job[p].lifecycle
        /\ job'[p].todo = job[p].todo
        /\ job'[p].now = job[p].now
        /\ job'[p].added = job[p].added
    BY <1>0, <1>3 DEF CheckInput, Jobs
  <2>3. Safe(p)'
    BY <1>0, <1>3, <2>1
       DEF CheckInput, Safe, Building, Compared, Copied, Copying, DocCompared,
           Entries, Forward, FoundKept, IsStore, Lifecycle, LifecycleAllowed,
           Placed, PriorCurrent, Resolves, SignaturesKept, Traced, Unreachable,
           Updates, Whole, WrittenWhole, files, control
  <2>4. LockBackedUnlessKilled'
    BY <1>0, <1>3, <2>1
       DEF CheckInput, Safe, Copied, Copying, Unreachable, Whole, WrittenWhole,
           Placed, Updates, Resolves, LockBackedUnlessKilled, LockBacked, Entries,
           control
  <2>. QED
    BY <2>3, <2>4
<1>4. ASSUME WriteObject(p) PROVE Safe(p)' /\ LockBackedUnlessKilled'
  <2>a. PICK id \in job[p].todo :
            job' = [job EXCEPT ![p].objs = @ \cup {[id |-> id, sig |-> job[p].text[id], src |-> text]},
                                   ![p].todo = @ \ {id}]
            /\ store' = IF Resolves(p) THEN Put([id |-> id, sig |-> job[p].text[id], src |-> text], "whole")
                         ELSE store
    BY <1>4 DEF WriteObject, Written, Resolves
  <2>1. /\ job'[p].cmd = job[p].cmd
        /\ job'[p].uses = job[p].uses
        /\ job'[p].text = job[p].text
        /\ job'[p].prior = job[p].prior
        /\ job'[p].objs = job[p].objs \cup {[id |-> id, sig |-> job[p].text[id], src |-> text]}
        /\ job'[p].lifecycle = job[p].lifecycle
        /\ job'[p].todo = job[p].todo \ {id}
        /\ job'[p].now = job[p].now
        /\ job'[p].added = job[p].added
    BY <1>0, <1>4, <2>a DEF WriteObject, Jobs
  <2>o. PICK o : o = [id |-> id, sig |-> job[p].text[id], src |-> text]
    OBVIOUS
  <2>s. store' = IF Resolves(p) THEN Put(o, "whole") ELSE store
    BY <2>a, <2>o
  <2>c. Resolves(p) =>
              /\ DOMAIN store' = DOMAIN store \cup {o}
              /\ store'[o] = "whole"
              /\ \A x \in DOMAIN store : x # o => store'[x] = store[x]
    BY <2>s DEF Put
  <2>d. job'[p].objs = job[p].objs \cup {o}
    BY <2>1, <2>o
  <2>b. /\ \A x : Whole(x) => Whole(x)'
        /\ Resolves(p) => Whole(o)'
        /\ \A x \in DOMAIN store' : store'[x] = "torn" => x \in DOMAIN store /\ store[x] = "torn"
    BY <2>s, <2>c DEF Whole
  <2>3. Placed(p)'
    BY <1>0, <1>4, <2>1, <2>a, <2>b
       DEF WriteObject, Safe, Placed, Copying, Updates, Resolves, files,
           control
  <2>4. PriorCurrent(p)'
    BY <1>0, <1>4, <2>1, <2>a, <2>b
       DEF WriteObject, Safe, PriorCurrent, Placed, Copying, Building, Updates,
           Resolves, Lifecycle, files, control
  <2>5. DocCompared(p)'
    BY <1>0, <1>4, <2>1, <2>a, <2>b
       DEF WriteObject, Safe, DocCompared, PriorCurrent, Placed, Copying,
           Updates, Resolves, Forward, LifecycleAllowed, Lifecycle, files, control
  <2>6. Compared(p)'
    BY <1>0, <1>4, <2>1, <2>a, <2>b
       DEF WriteObject, Safe, Compared, Placed, Copying, Updates, Resolves,
           SignaturesKept, Entries, files, control
  <2>7. WrittenWhole(p)'
    BY <1>4, <2>1, <2>b, <2>d
       DEF WriteObject, Safe, WrittenWhole, Placed, Resolves
  <2>8. Copied(p)'
    BY <1>0, <1>4, <2>1, <2>b DEF WriteObject, Safe, Copied, Copying, control
  <2>9. Unreachable(p)'
    BY <1>0, <1>4, <2>1, <2>a, <2>b
       DEF WriteObject, Safe, Unreachable, Placed, Copying, Entries, files,
           control
  <2>10. FoundKept(p)'
    BY <1>0, <1>4, <2>1, <2>a, <2>b
       DEF WriteObject, Safe, FoundKept, Placed, Copying, Building, Updates,
           Resolves, Traced, IsStore, files, control
  <2>11. LockBackedUnlessKilled'
    BY <1>4, <2>b
       DEF WriteObject, Safe, Copied, LockBackedUnlessKilled, LockBacked,
           Whole, Entries, control
  <2>. QED
    BY <2>3, <2>4, <2>5, <2>6, <2>7, <2>8, <2>9, <2>10, <2>11 DEF Safe
<1>5. ASSUME TakeLifecycle(p) PROVE Safe(p)' /\ LockBackedUnlessKilled'
  <2>1. /\ job'[p].cmd = job[p].cmd
        /\ job'[p].uses = job[p].uses
        /\ job'[p].text = job[p].text
        /\ job'[p].prior = job[p].prior
        /\ job'[p].objs = job[p].objs
        /\ job'[p].lifecycle = IF job[p].uses THEN doc ELSE None
        /\ job'[p].todo = job[p].todo
        /\ job'[p].now = job[p].now
        /\ job'[p].added = job[p].added
    BY <1>0, <1>5 DEF TakeLifecycle, Jobs
  <2>3. Safe(p)'
    BY <1>0, <1>5, <2>1
       DEF TakeLifecycle, Safe, Building, Compared, Copied, Copying,
           DocCompared, Entries, Forward, FoundKept, IsStore, Lifecycle,
           LifecycleAllowed, Placed, PriorCurrent, Resolves, SignaturesKept,
           Traced, Unreachable, Updates, Whole, WrittenWhole, files, control
  <2>4. LockBackedUnlessKilled'
    BY <1>0, <1>5, <2>1
       DEF TakeLifecycle, Safe, Copied, Copying, Unreachable, Whole,
           WrittenWhole, Placed, Updates, Resolves, LockBackedUnlessKilled,
           LockBacked, Entries, control
  <2>. QED
    BY <2>3, <2>4
<1>6. ASSUME VerifyCandidate(p) PROVE Safe(p)' /\ LockBackedUnlessKilled'
  <2>1. /\ job'[p].cmd = job[p].cmd
        /\ job'[p].uses = job[p].uses
        /\ job'[p].text = job[p].text
        /\ job'[p].prior = job[p].prior
        /\ job'[p].objs = job[p].objs
        /\ job'[p].lifecycle = job[p].lifecycle
        /\ job'[p].todo = job[p].todo
        /\ job'[p].now = job[p].now
        /\ job'[p].added = job[p].added
    BY <1>0, <1>6 DEF VerifyCandidate, Jobs
  <2>3. Safe(p)'
    BY <1>0, <1>6, <2>1
       DEF VerifyCandidate, Safe, Building, Compared, Copied, Copying,
           DocCompared, Entries, Forward, FoundKept, IsStore, Lifecycle,
           LifecycleAllowed, Placed, PriorCurrent, Resolves, SignaturesKept,
           Traced, Unreachable, Updates, Whole, WrittenWhole, files, control
  <2>4. LockBackedUnlessKilled'
    BY <1>0, <1>6, <2>1
       DEF VerifyCandidate, Safe, Copied, Copying, Unreachable, Whole,
           WrittenWhole, Placed, Updates, Resolves, LockBackedUnlessKilled,
           LockBacked, Entries, control
  <2>. QED
    BY <2>3, <2>4
<1>7. ASSUME CheckIdentities(p) PROVE Safe(p)' /\ LockBackedUnlessKilled'
  <2>1. /\ job'[p].cmd = job[p].cmd
        /\ job'[p].uses = job[p].uses
        /\ job'[p].text = job[p].text
        /\ job'[p].prior = job[p].prior
        /\ job'[p].objs = job[p].objs
        /\ job'[p].lifecycle = job[p].lifecycle
        /\ job'[p].todo = IF job[p].cmd = "update" THEN job[p].objs ELSE {}
        /\ job'[p].now = job[p].now
        /\ job'[p].added = job[p].added
    BY <1>0, <1>7 DEF CheckIdentities, Jobs
  <2>b. Updates(p) => job[p].added = {}
    BY <1>7 DEF CheckIdentities, Safe, FoundKept, Building
  <2>3. Placed(p)'
    BY <1>0, <1>7, <2>1, <2>b
       DEF CheckIdentities, Safe, Placed, Copying, Updates, Resolves, files,
           control
  <2>4. PriorCurrent(p)'
    BY <1>0, <1>7, <2>1, <2>b
       DEF CheckIdentities, Safe, PriorCurrent, Placed, Copying, Building,
           Updates, Resolves, Lifecycle, files, control
  <2>5. DocCompared(p)'
    BY <1>0, <1>7, <2>1, <2>b
       DEF CheckIdentities, Safe, DocCompared, PriorCurrent, Placed, Copying,
           Updates, Resolves, Forward, LifecycleAllowed, Lifecycle, files, control
  <2>6. Compared(p)'
    BY <1>0, <1>7, <2>1, <2>b
       DEF CheckIdentities, Safe, Compared, Placed, Copying, Updates, Resolves,
           SignaturesKept, Entries, files, control
  <2>7. WrittenWhole(p)'
    BY <1>0, <1>7, <2>1, <2>b
       DEF CheckIdentities, Safe, WrittenWhole, Placed, Copying, Updates,
           Resolves, Whole, files, control
  <2>8. Copied(p)'
    BY <1>0, <1>7, <2>1, <2>b
       DEF CheckIdentities, Safe, Copied, Placed, Copying, Updates, Resolves,
           Whole, Entries, files, control
  <2>9. Unreachable(p)'
    BY <1>0, <1>7, <2>1, <2>b
       DEF CheckIdentities, Safe, Unreachable, Placed, Copying, Entries, files,
           control
  <2>10. FoundKept(p)'
    BY <1>0, <1>7, <2>1, <2>b
       DEF CheckIdentities, Safe, FoundKept, Placed, Copying, Building,
           Updates, Resolves, Traced, IsStore, files, control
  <2>11. LockBackedUnlessKilled'
    BY <1>0, <1>7, <2>1, <2>b
       DEF CheckIdentities, Safe, Copied, Copying, Unreachable, Whole,
           WrittenWhole, Placed, Updates, Resolves, LockBackedUnlessKilled,
           LockBacked, Entries, control
  <2>. QED
    BY <2>3, <2>4, <2>5, <2>6, <2>7, <2>8, <2>9, <2>10, <2>11 DEF Safe
<1>8. ASSUME ChooseCopy(p) PROVE Safe(p)' /\ LockBackedUnlessKilled'
  <2>1. pc[p] = "copy" /\ UNCHANGED <<files, lock, store, control, swapped>>
    BY <1>8 DEF ChooseCopy
  <2>2. PICK o \in job[p].todo :
            IF o \in DOMAIN store
            THEN job' = [job EXCEPT ![p].todo = @ \ {o}] /\ UNCHANGED pc
            ELSE /\ job' = [job EXCEPT ![p].now = o, ![p].added = @ \cup {o}]
                 /\ pc' = [pc EXCEPT ![p] = "create"]
    BY <1>8 DEF ChooseCopy
  <2>3. /\ UNCHANGED <<lock, store, found, kills, swapped>>
        /\ Updates(p) /\ job[p].todo \subseteq job[p].objs
    BY <2>1 DEF control, Safe, Placed, Copied, Copying
  <2>4. CASE o \in DOMAIN store
    <3>1. /\ pc'[p] = "copy"
          /\ job'[p].cmd = job[p].cmd
          /\ job'[p].prior = job[p].prior
          /\ job'[p].objs = job[p].objs
          /\ job'[p].lifecycle = job[p].lifecycle
          /\ job'[p].todo = job[p].todo \ {o}
          /\ job'[p].added = job[p].added
      BY <1>0, <2>1, <2>2, <2>4 DEF Jobs
    <3>2. kills = 0 => Whole(o)
      BY <1>0, <2>1, <2>4 DEF Safe, Copied, Whole, IsStore
    <3>. QED
      BY <2>1, <2>3, <3>1, <3>2
         DEF Safe, Copying, Building, Updates, Resolves, Lifecycle, Forward,
             LifecycleAllowed, SignaturesKept, Entries, Whole, Traced, IsStore,
             Placed, PriorCurrent, DocCompared, Compared, WrittenWhole, Copied,
             Unreachable, FoundKept, LockBackedUnlessKilled, LockBacked
  <2>5. CASE o \notin DOMAIN store
    <3>0. job'[p] = [job[p] EXCEPT !.now = o, !.added = @ \cup {o}]
      BY <1>0, <2>2, <2>5
    <3>a. pc'[p] = "create"
      BY <1>0, <2>2, <2>5
    <3>1. /\ pc'[p] = "create"
          /\ job'[p].cmd = job[p].cmd
          /\ job'[p].prior = job[p].prior
          /\ job'[p].objs = job[p].objs
          /\ job'[p].lifecycle = job[p].lifecycle
          /\ job'[p].todo = job[p].todo
          /\ job'[p].now = o
          /\ job'[p].added = job[p].added \cup {o}
      BY ONLY <1>0, <3>0, <3>a DEF Jobs
    <3>2. kills = 0 => o \notin Entries
      BY <2>5 DEF LockBackedUnlessKilled, LockBacked
    <3>3. Traced(p, job[p].added)'
      BY <2>1, <2>3, <2>5, <3>1 DEF Safe, FoundKept, Traced, Copying
    <3>. QED
      BY <2>1, <2>3, <3>1, <3>2, <3>3
         DEF Safe, Copying, Building, Updates, Resolves, Lifecycle, Forward,
             LifecycleAllowed, SignaturesKept, Entries, Whole, Traced, IsStore,
             Placed, PriorCurrent, DocCompared, Compared, WrittenWhole, Copied,
             Unreachable, FoundKept, LockBackedUnlessKilled, LockBacked
  <2>. QED
    BY <2>4, <2>5
<1>9. ASSUME CreateCopy(p) PROVE Safe(p)' /\ LockBackedUnlessKilled'
  <2>1. /\ job'[p].cmd = job[p].cmd
        /\ job'[p].uses = job[p].uses
        /\ job'[p].text = job[p].text
        /\ job'[p].prior = job[p].prior
        /\ job'[p].objs = job[p].objs
        /\ job'[p].lifecycle = job[p].lifecycle
        /\ job'[p].todo = job[p].todo
        /\ job'[p].now = job[p].now
        /\ job'[p].added = job[p].added
    BY <1>0, <1>9 DEF CreateCopy, Jobs
  <2>o. PICK o : o = job[p].now
    OBVIOUS
  <2>s. store' = Put(o, "torn")
    BY <1>9, <2>o DEF CreateCopy
  <2>b. /\ o = job[p].now
        /\ DOMAIN store' = DOMAIN store \cup {o}
        /\ store'[o] = "torn"
        /\ \A x \in DOMAIN store : x # o => store'[x] = store[x]
    BY <2>o, <2>s DEF Put
  <2>3. Placed(p)'
    BY <1>0, <1>9, <2>1, <2>b
       DEF CreateCopy, Safe, Placed, Copying, Updates, Resolves, files, control
  <2>4. PriorCurrent(p)'
    BY <1>0, <1>9, <2>1, <2>b
       DEF CreateCopy, Safe, PriorCurrent, Placed, Copying, Building, Updates,
           Resolves, Lifecycle, files, control
  <2>5. DocCompared(p)'
    BY <1>0, <1>9, <2>1, <2>b
       DEF CreateCopy, Safe, DocCompared, PriorCurrent, Placed, Copying,
           Updates, Resolves, Forward, LifecycleAllowed, Lifecycle, files, control
  <2>6. Compared(p)'
    BY <1>0, <1>9, <2>1, <2>b
       DEF CreateCopy, Safe, Compared, Placed, Copying, Updates, Resolves,
           SignaturesKept, Entries, files, control
  <2>7. WrittenWhole(p)'
    BY <1>0, <1>9, <2>1, <2>b
       DEF CreateCopy, Safe, WrittenWhole, Placed, Copying, Updates, Resolves,
           Whole, files, control
  <2>8. Copied(p)'
    BY <1>0, <1>9, <2>1, <2>b
       DEF CreateCopy, Safe, Copied, Placed, Copying, Updates, Resolves, Whole,
           Entries, files, control
  <2>9. Unreachable(p)'
    BY <1>0, <1>9, <2>1, <2>b
       DEF CreateCopy, Safe, Unreachable, Placed, Copying, Entries, files,
           control
  <2>10. FoundKept(p)'
    <3>1. pc[p] \in Copying /\ pc'[p] \in Copying
      BY <1>0, <1>9 DEF CreateCopy, Copying
    <3>2. Updates(p) /\ o \in job[p].added
      BY <1>9, <2>b, <3>1 DEF CreateCopy, Safe, Placed, Copied
    <3>3. Traced(p, job[p].added) /\ found[p].lock = lock /\ IsStore(found[p].store)
      BY <3>1, <3>2 DEF Safe, FoundKept, Copying
    <3>4. UNCHANGED <<found, lock>> /\ job'[p].added = job[p].added
      BY <1>9, <2>1 DEF CreateCopy, control
    <3>5. Traced(p, job[p].added)'
      BY <2>b, <3>2, <3>3, <3>4 DEF Traced
    <3>. QED
      BY <3>1, <3>3, <3>4, <3>5 DEF FoundKept, Copying, Building, IsStore
  <2>11. LockBackedUnlessKilled'
    BY <1>0, <1>9, <2>1, <2>b
       DEF CreateCopy, Safe, Copied, Copying, Unreachable, Whole, WrittenWhole,
           Placed, Updates, Resolves, LockBackedUnlessKilled, LockBacked, Entries,
           control
  <2>. QED
    BY <2>3, <2>4, <2>5, <2>6, <2>7, <2>8, <2>9, <2>10, <2>11 DEF Safe
<1>10. ASSUME FillCopy(p) PROVE Safe(p)' /\ LockBackedUnlessKilled'
  <2>1. /\ job'[p].cmd = job[p].cmd
        /\ job'[p].uses = job[p].uses
        /\ job'[p].text = job[p].text
        /\ job'[p].prior = job[p].prior
        /\ job'[p].objs = job[p].objs
        /\ job'[p].lifecycle = job[p].lifecycle
        /\ job'[p].todo = job[p].todo \ {job[p].now}
        /\ job'[p].now = None
        /\ job'[p].added = job[p].added
    BY <1>0, <1>10 DEF FillCopy, Jobs
  <2>o. PICK o : o = job[p].now
    OBVIOUS
  <2>s. store' = IF o \in DOMAIN store THEN Put(o, "whole") ELSE store
    BY <1>10, <2>o DEF FillCopy
  <2>b. /\ o = job[p].now
        /\ DOMAIN store' = DOMAIN store
        /\ o \in DOMAIN store => store'[o] = "whole"
        /\ \A x \in DOMAIN store : x # o => store'[x] = store[x]
    BY <2>o, <2>s DEF Put
  <2>3. Placed(p)'
    BY <1>0, <1>10, <2>1, <2>b
       DEF FillCopy, Safe, Placed, Copying, Updates, Resolves, files, control
  <2>4. PriorCurrent(p)'
    BY <1>0, <1>10, <2>1, <2>b
       DEF FillCopy, Safe, PriorCurrent, Placed, Copying, Building, Updates,
           Resolves, Lifecycle, files, control
  <2>5. DocCompared(p)'
    BY <1>0, <1>10, <2>1, <2>b
       DEF FillCopy, Safe, DocCompared, PriorCurrent, Placed, Copying, Updates,
           Resolves, Forward, LifecycleAllowed, Lifecycle, files, control
  <2>6. Compared(p)'
    BY <1>0, <1>10, <2>1, <2>b
       DEF FillCopy, Safe, Compared, Placed, Copying, Updates, Resolves,
           SignaturesKept, Entries, files, control
  <2>7. WrittenWhole(p)'
    BY <1>0, <1>10, <2>1, <2>b
       DEF FillCopy, Safe, WrittenWhole, Placed, Copying, Updates, Resolves,
           Whole, files, control
  <2>8. Copied(p)'
    BY <1>0, <1>10, <2>1, <2>b
       DEF FillCopy, Safe, Copied, Placed, Copying, Updates, Resolves, Whole,
           Entries, files, control
  <2>9. Unreachable(p)'
    BY <1>0, <1>10, <2>1, <2>b
       DEF FillCopy, Safe, Unreachable, Placed, Copying, Entries, files,
           control
  <2>10. FoundKept(p)'
    <3>1. pc[p] \in Copying /\ pc'[p] \in Copying
      BY <1>0, <1>10 DEF FillCopy, Copying
    <3>2. Updates(p) /\ o \in job[p].added
      BY <1>10, <2>b, <3>1 DEF FillCopy, Safe, Placed, Copied
    <3>3. Traced(p, job[p].added) /\ found[p].lock = lock /\ IsStore(found[p].store)
      BY <3>1, <3>2 DEF Safe, FoundKept, Copying
    <3>4. UNCHANGED <<found, lock>> /\ job'[p].added = job[p].added
      BY <1>10, <2>1 DEF FillCopy, control
    <3>5. Traced(p, job[p].added)'
      BY <2>b, <3>2, <3>3, <3>4 DEF Traced
    <3>. QED
      BY <3>1, <3>3, <3>4, <3>5 DEF FoundKept, Copying, Building, IsStore
  <2>11. LockBackedUnlessKilled'
    BY <1>0, <1>10, <2>1, <2>b
       DEF FillCopy, Safe, Copied, Copying, Unreachable, Whole, WrittenWhole,
           Placed, Updates, Resolves, LockBackedUnlessKilled, LockBacked, Entries,
           control
  <2>. QED
    BY <2>3, <2>4, <2>5, <2>6, <2>7, <2>8, <2>9, <2>10, <2>11 DEF Safe
<1>11. ASSUME Install(p) PROVE Safe(p)' /\ LockBackedUnlessKilled'
  <2>1. job'[p] = Blank /\ pc'[p] = "idle"
    BY <1>0, <1>11 DEF Install, End
  <2>2. UNCHANGED <<files, store, found, swapped>>
    BY <1>11 DEF Install, control
  <2>3. Safe(p)'
    BY <1>0, <1>11, <2>1, <2>2
       DEF Install, Safe, Building, Compared, Copied, Copying, DocCompared,
           Entries, Forward, FoundKept, IsStore, Lifecycle, LifecycleAllowed,
           Placed, PriorCurrent, Resolves, SignaturesKept, Traced, Unreachable,
           Updates, Whole, WrittenWhole, files, control, Blank
  <2>4. LockBackedUnlessKilled'
    BY <1>0, <1>11, <2>1
       DEF Install, Safe, Copied, Copying, Unreachable, Whole, WrittenWhole,
           Placed, Updates, Resolves, LockBackedUnlessKilled, LockBacked, Entries,
           control
  <2>. QED
    BY <2>3, <2>4
<1>12. ASSUME VerifySnapshot(p) PROVE Safe(p)' /\ LockBackedUnlessKilled'
  <2>1. /\ job'[p].cmd = job[p].cmd
        /\ job'[p].uses = job[p].uses
        /\ job'[p].text = job[p].text
        /\ job'[p].prior = job[p].prior
        /\ job'[p].objs = job[p].objs
        /\ job'[p].lifecycle = job[p].lifecycle
        /\ job'[p].todo = job[p].todo
        /\ job'[p].now = job[p].now
        /\ job'[p].added = job[p].added
    BY <1>0, <1>12 DEF VerifySnapshot, Jobs
  <2>3. Safe(p)'
    BY <1>0, <1>12, <2>1
       DEF VerifySnapshot, Safe, Building, Compared, Copied, Copying,
           DocCompared, Entries, Forward, FoundKept, IsStore, Lifecycle,
           LifecycleAllowed, Placed, PriorCurrent, Resolves, SignaturesKept,
           Traced, Unreachable, Updates, Whole, WrittenWhole, files, control
  <2>4. LockBackedUnlessKilled'
    BY <1>0, <1>12, <2>1
       DEF VerifySnapshot, Safe, Copied, Copying, Unreachable, Whole,
           WrittenWhole, Placed, Updates, Resolves, LockBackedUnlessKilled,
           LockBacked, Entries, control
  <2>. QED
    BY <2>3, <2>4
<1>13. ASSUME ListUnreachable(p) PROVE Safe(p)' /\ LockBackedUnlessKilled'
  <2>1. /\ job'[p].cmd = job[p].cmd
        /\ job'[p].uses = job[p].uses
        /\ job'[p].text = job[p].text
        /\ job'[p].prior = job[p].prior
        /\ job'[p].objs = job[p].objs
        /\ job'[p].lifecycle = job[p].lifecycle
        /\ job'[p].todo = DOMAIN store \ Entries
        /\ job'[p].now = job[p].now
        /\ job'[p].added = job[p].added
    BY <1>0, <1>13 DEF ListUnreachable, Jobs
  <2>3. Safe(p)'
    BY <1>0, <1>13, <2>1
       DEF ListUnreachable, Safe, Building, Compared, Copied, Copying,
           DocCompared, Entries, Forward, FoundKept, IsStore, Lifecycle,
           LifecycleAllowed, Placed, PriorCurrent, Resolves, SignaturesKept,
           Traced, Unreachable, Updates, Whole, WrittenWhole, files, control
  <2>4. LockBackedUnlessKilled'
    BY <1>0, <1>13, <2>1
       DEF ListUnreachable, Safe, Copied, Copying, Unreachable, Whole,
           WrittenWhole, Placed, Updates, Resolves, LockBackedUnlessKilled,
           LockBacked, Entries, control
  <2>. QED
    BY <2>3, <2>4
<1>14. ASSUME Unlink(p) PROVE Safe(p)' /\ LockBackedUnlessKilled'
  <2>a. PICK o \in job[p].todo \cap DOMAIN store :
            store' = Without(o) /\ job' = [job EXCEPT ![p].todo = @ \ {o}]
    BY <1>14 DEF Unlink
  <2>1. /\ job'[p].cmd = job[p].cmd
        /\ job'[p].uses = job[p].uses
        /\ job'[p].text = job[p].text
        /\ job'[p].prior = job[p].prior
        /\ job'[p].objs = job[p].objs
        /\ job'[p].lifecycle = job[p].lifecycle
        /\ job'[p].todo = job[p].todo \ {o}
        /\ job'[p].now = job[p].now
        /\ job'[p].added = job[p].added
    BY <1>0, <1>14, <2>a DEF Unlink, Jobs
  <2>b. /\ DOMAIN store' = DOMAIN store \ {o}
        /\ \A x \in DOMAIN store : x # o => store'[x] = store[x]
    BY <2>a, WithoutFacts
  <2>3. Safe(p)'
    BY <1>0, <1>14, <2>1, <2>a, <2>b
       DEF Unlink, Safe, Building, Compared, Copied, Copying, DocCompared,
           Entries, Forward, FoundKept, IsStore, Lifecycle, LifecycleAllowed,
           Placed, PriorCurrent, Resolves, SignaturesKept, Traced, Unreachable,
           Updates, Whole, WrittenWhole, files, control
  <2>4. LockBackedUnlessKilled'
    BY <1>0, <1>14, <2>1, <2>a, <2>b
       DEF Unlink, Safe, Copied, Copying, Unreachable, Whole, WrittenWhole,
           Placed, Updates, Resolves, LockBackedUnlessKilled, LockBacked, Entries,
           control
  <2>. QED
    BY <2>3, <2>4
<1>15. ASSUME Pruned(p) PROVE Safe(p)' /\ LockBackedUnlessKilled'
  <2>1. job'[p] = Blank /\ pc'[p] = "idle"
    BY <1>0, <1>15 DEF Pruned, End
  <2>2. UNCHANGED <<files, lock, store, found, swapped>>
    BY <1>15 DEF Pruned, control
  <2>3. Safe(p)'
    BY <1>0, <1>15, <2>1, <2>2
       DEF Pruned, Safe, Building, Compared, Copied, Copying, DocCompared,
           Entries, Forward, FoundKept, IsStore, Lifecycle, LifecycleAllowed,
           Placed, PriorCurrent, Resolves, SignaturesKept, Traced, Unreachable,
           Updates, Whole, WrittenWhole, files, control, Blank
  <2>4. LockBackedUnlessKilled'
    BY <1>0, <1>15, <2>1
       DEF Pruned, Safe, Copied, Copying, Unreachable, Whole, WrittenWhole,
           Placed, Updates, Resolves, LockBackedUnlessKilled, LockBacked, Entries,
           control
  <2>. QED
    BY <2>3, <2>4
<1>16. ASSUME Raise(p) PROVE Safe(p)' /\ LockBackedUnlessKilled'
  <2>1. job'[p] = Blank /\ pc'[p] = "idle"
    BY <1>0, <1>16 DEF Raise, End
  <2>2. UNCHANGED <<files, lock, store, found, swapped>>
    BY <1>16 DEF Raise, control
  <2>3. Safe(p)'
    BY <1>0, <1>16, <2>1, <2>2
       DEF Raise, Safe, Building, Compared, Copied, Copying, DocCompared,
           Entries, Forward, FoundKept, IsStore, Lifecycle, LifecycleAllowed,
           Placed, PriorCurrent, Resolves, SignaturesKept, Traced, Unreachable,
           Updates, Whole, WrittenWhole, files, control, Blank
  <2>4. LockBackedUnlessKilled'
    BY <1>0, <1>16, <2>1
       DEF Raise, Safe, Copied, Copying, Unreachable, Whole, WrittenWhole,
           Placed, Updates, Resolves, LockBackedUnlessKilled, LockBacked, Entries,
           control
  <2>. QED
    BY <2>3, <2>4
<1>17. ASSUME TakeBack(p) PROVE Safe(p)' /\ LockBackedUnlessKilled'
  <2>1. /\ job'[p].cmd = job[p].cmd
        /\ job'[p].uses = job[p].uses
        /\ job'[p].text = job[p].text
        /\ job'[p].prior = job[p].prior
        /\ job'[p].objs = job[p].objs
        /\ job'[p].lifecycle = job[p].lifecycle
        /\ job'[p].todo = job[p].added
        /\ job'[p].now = job[p].now
        /\ job'[p].added = job[p].added
    BY <1>0, <1>17 DEF TakeBack, Jobs, Copies
  <2>3. Safe(p)'
    BY <1>0, <1>17, <2>1
       DEF TakeBack, Safe, Building, Compared, Copied, Copying, DocCompared,
           Entries, Forward, FoundKept, IsStore, Lifecycle, LifecycleAllowed,
           Placed, PriorCurrent, Resolves, SignaturesKept, Traced, Unreachable,
           Updates, Whole, WrittenWhole, files, control
  <2>4. LockBackedUnlessKilled'
    BY <1>0, <1>17, <2>1
       DEF TakeBack, Safe, Copied, Copying, Unreachable, Whole, WrittenWhole,
           Placed, Updates, Resolves, LockBackedUnlessKilled, LockBacked, Entries,
           control
  <2>. QED
    BY <2>3, <2>4
<1>18. ASSUME UnlinkCopy(p) PROVE Safe(p)' /\ LockBackedUnlessKilled'
  <2>a. PICK o \in job[p].todo :
            store' = Without(o) /\ job' = [job EXCEPT ![p].todo = @ \ {o}]
    BY <1>18 DEF UnlinkCopy
  <2>1. /\ job'[p].cmd = job[p].cmd
        /\ job'[p].uses = job[p].uses
        /\ job'[p].text = job[p].text
        /\ job'[p].prior = job[p].prior
        /\ job'[p].objs = job[p].objs
        /\ job'[p].lifecycle = job[p].lifecycle
        /\ job'[p].todo = job[p].todo \ {o}
        /\ job'[p].now = job[p].now
        /\ job'[p].added = job[p].added
    BY <1>0, <1>18, <2>a DEF UnlinkCopy, Jobs
  <2>b. /\ DOMAIN store' = DOMAIN store \ {o}
        /\ \A x \in DOMAIN store : x # o => store'[x] = store[x]
    BY <2>a, WithoutFacts
  <2>3. Safe(p)'
    BY <1>0, <1>18, <2>1, <2>a, <2>b
       DEF UnlinkCopy, Safe, Building, Compared, Copied, Copying, DocCompared,
           Entries, Forward, FoundKept, IsStore, Lifecycle, LifecycleAllowed,
           Placed, PriorCurrent, Resolves, SignaturesKept, Traced, Unreachable,
           Updates, Whole, WrittenWhole, files, control
  <2>4. LockBackedUnlessKilled'
    BY <1>0, <1>18, <2>1, <2>a, <2>b
       DEF UnlinkCopy, Safe, Copied, Copying, Unreachable, Whole, WrittenWhole,
           Placed, Updates, Resolves, LockBackedUnlessKilled, LockBacked, Entries,
           control
  <2>. QED
    BY <2>3, <2>4
<1>19. ASSUME TakenBack(p) PROVE Safe(p)' /\ LockBackedUnlessKilled'
  <2>1. job'[p] = Blank /\ pc'[p] = "idle"
    BY <1>0, <1>19 DEF TakenBack, End
  <2>2. UNCHANGED <<files, lock, store, found, swapped>>
    BY <1>19 DEF TakenBack, control
  <2>3. Safe(p)'
    BY <1>0, <1>19, <2>1, <2>2
       DEF TakenBack, Safe, Building, Compared, Copied, Copying, DocCompared,
           Entries, Forward, FoundKept, IsStore, Lifecycle, LifecycleAllowed,
           Placed, PriorCurrent, Resolves, SignaturesKept, Traced, Unreachable,
           Updates, Whole, WrittenWhole, files, control, Blank
  <2>4. LockBackedUnlessKilled'
    BY <1>0, <1>19, <2>1
       DEF TakenBack, Safe, Copied, Copying, Unreachable, Whole, WrittenWhole,
           Placed, Updates, Resolves, LockBackedUnlessKilled, LockBacked, Entries,
           control
  <2>. QED
    BY <2>3, <2>4
<1>20. ASSUME Kill(p) PROVE Safe(p)' /\ LockBackedUnlessKilled'
  <2>1. job'[p] = Blank /\ pc'[p] = "idle"
    BY <1>0, <1>20 DEF Kill, End
  <2>2. UNCHANGED <<files, lock, store, found, swapped>>
    BY <1>20 DEF Kill, control
  <2>3. Safe(p)'
    BY <1>0, <1>20, <2>1, <2>2
       DEF Kill, Safe, Building, Compared, Copied, Copying, DocCompared,
           Entries, Forward, FoundKept, IsStore, Lifecycle, LifecycleAllowed,
           Placed, PriorCurrent, Resolves, SignaturesKept, Traced, Unreachable,
           Updates, Whole, WrittenWhole, files, control, Blank
  <2>4. LockBackedUnlessKilled'
    BY <1>0, <1>20, <2>1
       DEF Kill, Safe, Copied, Copying, Unreachable, Whole, WrittenWhole,
           Placed, Updates, Resolves, LockBackedUnlessKilled, LockBacked, Entries,
           control
  <2>. QED
    BY <2>3, <2>4
<1>21. CASE EditText
  BY <1>0, <1>21
     DEF EditText, Safe, Building, Compared, Copied, Copying, DocCompared,
         Entries, Forward, FoundKept, IsStore, Lifecycle, LifecycleAllowed, Placed,
         PriorCurrent, Resolves, SignaturesKept, Traced, Unreachable, Updates,
         Whole, WrittenWhole, control, LockBackedUnlessKilled, LockBacked
<1>22. CASE EditDoc
  <2>1. UNCHANGED <<text, lock, store, pc, job, control>>
    BY <1>22 DEF EditDoc
  <2>2. /\ Updates(p) /\ pc[p] \in {"write", "lifecycle"} => swapped'
        /\ swapped => swapped'
    BY <1>22 DEF EditDoc, Updates
  <2>3. DocCompared(p)'
    BY <2>1, <2>2 DEF Safe, DocCompared, Updates, Copying, Forward, control
  <2>. QED
    BY <1>0, <2>1, <2>3
       DEF Safe, Building, Compared, Copied, Copying, Entries, Forward,
           FoundKept, IsStore, Lifecycle, LifecycleAllowed, Placed, PriorCurrent,
           Resolves, SignaturesKept, Traced, Unreachable, Updates, Whole,
           WrittenWhole, control, LockBackedUnlessKilled, LockBacked
<1>23. CASE UNCHANGED vars
  BY <1>0, <1>23
     DEF vars, Safe, Building, Compared, Copied, Copying, DocCompared, Entries,
         Forward, FoundKept, IsStore, Lifecycle, LifecycleAllowed, Placed,
         PriorCurrent, Resolves, SignaturesKept, Traced, Unreachable, Updates,
         Whole, WrittenWhole, files, control, LockBackedUnlessKilled, LockBacked
<1>24. ASSUME InterruptedLate(p) PROVE Safe(p)' /\ LockBackedUnlessKilled'
  <2>1. job'[p].cmd = job[p].cmd /\ pc'[p] = "late"
    BY <1>0, <1>24 DEF InterruptedLate, Jobs
  <2>2. kills' # 0 /\ UNCHANGED <<files, store, found, swapped>>
    BY <1>0, <1>24 DEF InterruptedLate
  <2>3. Updates(p)
    BY <1>24 DEF InterruptedLate, Safe, Placed, Copying
  <2>4. Safe(p)'
    BY <1>0, <2>1, <2>2, <2>3
       DEF Safe, Building, Compared, Copied, Copying, DocCompared, FoundKept,
           IsStore, Placed, PriorCurrent, Resolves, Unreachable, Updates,
           WrittenWhole
  <2>. QED
    BY <2>2, <2>4 DEF LockBackedUnlessKilled
<1>. QED
  BY <1>0, <1>1, <1>2, <1>3, <1>4, <1>5, <1>6, <1>7, <1>8, <1>9, <1>10, <1>11,
     <1>12, <1>13, <1>14, <1>15, <1>16, <1>17, <1>18, <1>19, <1>20, <1>21, <1>22,
     <1>23, <1>24
     DEF Next

LEMMA IInvInit == OneProcess /\ Init => ITyped /\ IInv
<1> SUFFICES ASSUME OneProcess, Init PROVE IInv
  BY TypedInit
<1>1. LockBackedUnlessKilled
  BY DEF Init, LockBackedUnlessKilled, LockBacked, Entries
<1>2. ASSUME NEW p \in Procs PROVE Safe(p)
  <2>1. /\ pc[p] = "idle"
        /\ job[p] = Blank
        /\ found[p].store = store
    BY DEF Init
  <2>2. DOMAIN store = {} /\ IsStore(store) /\ kills = 0
    BY DEF Init, IsStore
  <2>. QED
    BY <2>1, <2>2
       DEF Safe, Placed, PriorCurrent, DocCompared, Compared, WrittenWhole,
                      Copied, Unreachable, FoundKept, Blank, Copying, Building, Updates, Resolves
<1>. QED
  BY <1>1, <1>2 DEF IInv

LEMMA IInvStep == OneProcess /\ ITyped /\ IInv /\ [Next]_vars => IInv'
<1> SUFFICES ASSUME OneProcess, ITyped, IInv, [Next]_vars PROVE IInv'
  OBVIOUS
<1>1. PICK p : Procs = {p}
  BY DEF OneProcess
<1>2. Safe(p) /\ LockBackedUnlessKilled
  BY <1>1 DEF IInv
<1>3. Safe(p)' /\ LockBackedUnlessKilled'
  BY <1>1, <1>2, SafeStep
<1>. QED
  BY <1>1, <1>3 DEF IInv

LEMMA Always == OneProcess => (Spec => [](ITyped /\ IInv))
<1> SUFFICES ASSUME OneProcess PROVE Spec => [](ITyped /\ IInv)
  OBVIOUS
<1>1. Init => ITyped /\ IInv
  BY IInvInit
<1>2. ITyped /\ IInv /\ [Next]_vars => (ITyped /\ IInv)'
  BY TypedStep, IInvStep
<1>. QED
  BY <1>1, <1>2, PTL DEF Spec

-----------------------------------------------------------------------------
(* The theorems.                                                           *)

\* While one command runs after the other, what the lock names is in the store
\* and complete, unless a command was killed, or an update interrupted as its
\* lock was in place.
THEOREM LockBackedAlways == OneProcess => (Spec => []LockBackedUnlessKilled)
<1> SUFFICES ASSUME OneProcess PROVE Spec => []LockBackedUnlessKilled
  OBVIOUS
<1>1. ITyped /\ IInv => LockBackedUnlessKilled
  BY DEF IInv, Safe
<1>. QED
  BY <1>1, Always, PTL

\* The lock is the candidate of p.
Installs(p) == Install(p) \/ InterruptedLate(p)

\* Only a command that installs its candidate changes the lock.
LEMMA LockSteps ==
  ASSUME [Next]_vars
  PROVE  lock' = lock \/ \E p \in Procs : Installs(p)
  BY DEF Installs, Next, vars, files, EditText, EditDoc, Start, Open, CheckInput,
     WriteObject,
         TakeLifecycle, VerifyCandidate, CheckIdentities, ChooseCopy, CreateCopy, FillCopy,
         VerifySnapshot, ListUnreachable, Unlink, Pruned, Raise, TakeBack, UnlinkCopy,
         TakenBack, Kill

\* The locked content of an identity is never replaced: the signatures were
\* compared with a lock that nobody has changed since.
THEOREM IdentityKeptAlways == OneProcess => (Spec => IdentityKept)
<1> SUFFICES ASSUME OneProcess PROVE Spec => IdentityKept
  OBVIOUS
<1> DEFINE Kept == \A old \in Entries, new \in Entries' : old.id = new.id => old.sig = new.sig
<1>1. ITyped /\ IInv /\ [Next]_vars => [Kept]_vars
  <2> SUFFICES ASSUME ITyped, IInv, [Next]_vars PROVE Kept
    OBVIOUS
  <2>1. CASE lock' = lock
    BY <2>1 DEF ITyped, TypeOK, Locks, Entries
  <2>2. ASSUME NEW p \in Procs, Installs(p) PROVE Kept
    <3>1. Entries' \subseteq job[p].objs
      BY <2>2 DEF Installs, Install, InterruptedLate, Entries
    <3>2. SignaturesKept(p)
      BY <2>2
         DEF Installs, Install, InterruptedLate, IInv, Safe, Placed, Compared, Copying, Resolves
    <3>. QED
      BY <3>1, <3>2 DEF SignaturesKept
  <2>. QED
    BY <2>1, <2>2, LockSteps
<1>. QED
  BY <1>1, Always, PTL DEF Spec, IdentityKept

\* Lifecycle states only move forward, one step at a time, unless the document
\* is changed between the two times an update reads it.
THEOREM LifecycleForwardAlways == OneProcess => (Spec => LifecycleForward)
<1> SUFFICES ASSUME OneProcess PROVE Spec => LifecycleForward
  OBVIOUS
<1> DEFINE Moves == LET old == Lifecycle
                       new == Lifecycle'
                    IN  old # None /\ new # None /\ ~swapped' =>
                            /\ DOMAIN old \subseteq DOMAIN new
                            /\ \A id \in DOMAIN old : new[id] \in {old[id], old[id] + 1}
<1>1. ITyped /\ IInv /\ [Next]_vars => [Moves]_vars
  <2> SUFFICES ASSUME ITyped, IInv, [Next]_vars PROVE Moves
    OBVIOUS
  <2>1. CASE lock' = lock
    BY <2>1 DEF Lifecycle
  <2>2. ASSUME NEW p \in Procs, Installs(p) PROVE Moves
    <3>1. Lifecycle' = IF lock' = None THEN None ELSE job[p].lifecycle
      BY <2>2 DEF Installs, Install, InterruptedLate, Lifecycle
    <3>2. job[p].prior = Lifecycle
      BY <2>2
         DEF Installs, Install, InterruptedLate, IInv, Safe, Placed, PriorCurrent, Copying, Updates,
             Resolves
    <3>3. /\ job[p].prior # None
          /\ job[p].lifecycle # None
          /\ ~swapped
          => Forward(job[p].lifecycle, job[p].prior)
      BY <2>2
         DEF Installs, Install, InterruptedLate, IInv, Safe, Placed, DocCompared, Copying, Updates,
             Resolves
    <3>4. swapped' = swapped
      BY <2>2 DEF Installs, Install, InterruptedLate
    <3>. QED
      BY <3>1, <3>2, <3>3, <3>4 DEF Forward
  <2>. QED
    BY <2>1, <2>2, LockSteps
<1>. QED
  BY <1>1, Always, PTL DEF Spec, LifecycleForward

\* A lock that resolve installs names complete objects only, whatever a killed
\* command has left, and also when it is equal to the lock there was.
THEOREM ResolveRestoresAlways == OneProcess => (Spec => ResolveRestores)
<1> SUFFICES ASSUME OneProcess PROVE Spec => ResolveRestores
  OBVIOUS
<1> DEFINE Restored ==
        \A p \in Procs :
            /\ pc[p] = "install"
            /\ pc'[p] = "idle"
            /\ Entries' = job[p].objs
            => LockBacked'
<1>1. ITyped /\ IInv /\ [Next]_vars => [Restored]_vars
  <2> SUFFICES ASSUME ITyped, IInv, [Next]_vars, NEW p \in Procs,
                      pc[p] = "install", pc'[p] = "idle", Entries' = job[p].objs
               PROVE  LockBacked'
    OBVIOUS
  <2>1. \A q \in Procs : pc[q] = "install"
    BY DEF OneProcess
  <2>2. store' = store
    BY <2>1
       DEF Next, vars, files, EditText, EditDoc, Start, Open, CheckInput,
           WriteObject, TakeLifecycle, VerifyCandidate, CheckIdentities,
           ChooseCopy, CreateCopy, FillCopy, Install, InterruptedLate,
           VerifySnapshot, ListUnreachable, Unlink, Pruned, Raise, TakeBack,
           UnlinkCopy, TakenBack, Kill
  <2>3. \A o \in job[p].objs : Whole(o)
    BY DEF IInv, Safe, Placed, WrittenWhole
  <2>. QED
    BY <2>2, <2>3 DEF LockBacked, Whole
<1>. QED
  BY <1>1, Always, PTL DEF Spec, ResolveRestores

\* An update that fails leaves no trace in the lock and in the store, unless it
\* is killed, or interrupted when its lock is already in place.
THEOREM FailureLeavesNoTraceAlways == OneProcess => (Spec => FailureLeavesNoTrace)
<1> SUFFICES ASSUME OneProcess PROVE Spec => FailureLeavesNoTrace
  OBVIOUS
<1> DEFINE NoTrace ==
        \A p \in Procs :
            /\ job[p].cmd = "update"
            /\ pc[p] \notin {"idle", "copy", "late"}
            /\ pc'[p] = "idle"
            /\ kills' = kills
            => found[p] = [lock |-> lock', store |-> store']
<1>1. ITyped /\ IInv /\ [Next]_vars => [NoTrace]_vars
  <2> SUFFICES ASSUME ITyped, IInv, [Next]_vars,
                      NEW p \in Procs, job[p].cmd = "update",
                      pc[p] \notin {"idle", "copy", "late"}, pc'[p] = "idle", kills' = kills
               PROVE  found[p] = [lock |-> lock', store |-> store']
    OBVIOUS
  <2>0. /\ \A q \in Procs : q = p
        /\ p \in DOMAIN pc
        /\ kills \in Nat
        /\ IsStore(store)
        /\ found[p] = [lock |-> found[p].lock, store |-> found[p].store]
    BY ConstantsAssumption DEF OneProcess, ITyped, TypeOK
  <2>1. Raise(p) \/ TakenBack(p)
    <3>1. Next
      BY <2>0 DEF vars
    <3>2. Placed(p)
      BY DEF IInv, Safe
    <3>3. ~EditText /\ ~EditDoc
      BY <2>0 DEF EditText, EditDoc
    <3>4. ~Install(p) /\ ~Pruned(p) /\ ~Kill(p) /\ ~InterruptedLate(p)
      BY <2>0, <3>2
         DEF Install, Pruned, Kill, InterruptedLate, Placed, Updates, Resolves
    <3>5. ~(Start(p) \/ Open(p) \/ CheckInput(p) \/ TakeLifecycle(p) \/ VerifyCandidate(p))
      BY <2>0 DEF Start, Open, CheckInput, TakeLifecycle, VerifyCandidate
    <3>6. ~(WriteObject(p) \/ CheckIdentities(p) \/ ChooseCopy(p) \/ CreateCopy(p) \/ FillCopy(p))
      BY <2>0 DEF WriteObject, CheckIdentities, ChooseCopy, CreateCopy, FillCopy
    <3>7. ~(VerifySnapshot(p) \/ ListUnreachable(p) \/ Unlink(p) \/ TakeBack(p) \/ UnlinkCopy(p))
      BY <2>0 DEF VerifySnapshot, ListUnreachable, Unlink, TakeBack, UnlinkCopy
    <3>. QED
      BY <2>0, <3>1, <3>3, <3>4, <3>5, <3>6, <3>7 DEF Next
  <2>2. lock' = lock /\ store' = store
    BY <2>1 DEF Raise, TakenBack
  <2>3. found[p].lock = lock /\ IsStore(found[p].store)
    BY DEF IInv, Safe, FoundKept, Updates
  <2>4. found[p].store = store
    <3>1. CASE Raise(p)
      BY <3>1
         DEF Raise, IInv, Safe, Placed, FoundKept, Updates, Resolves, Building
    <3>2. CASE TakenBack(p)
      <4>1. Traced(p, {})
        BY <3>2 DEF TakenBack, IInv, Safe, FoundKept, Updates
      <4>. QED
        BY <2>0, <2>3, <4>1 DEF Traced, IsStore
    <3>. QED
      BY <2>1, <3>1, <3>2
  <2>. QED
    BY <2>0, <2>2, <2>3, <2>4
<1>. QED
  BY <1>1, Always, PTL DEF Spec, FailureLeavesNoTrace
=============================================================================
