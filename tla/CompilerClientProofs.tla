------------------------ MODULE CompilerClientProofs ------------------------
(***************************************************************************)
(* Proofs about CompilerClient, for any texts and any bounds.              *)
(***************************************************************************)
EXTENDS CompilerClient, SequenceTheorems, TLAPS

-----------------------------------------------------------------------------
(* The queue of calls.                                                     *)

\* What the page holds, and a call is about.
Revisions == [rev : 1..MaxRevision, text : Texts]

\* What the assistant's card asks for.
Edits == {"apply", "discard"}

Replied(c) == c.reply # None
Ok(c) == Replied(c) /\ c.reply.is = "ok"

\* A confirmed change of the compiler's text.
Change(c) == c.kind = "apply" /\ Ok(c) /\ c.arg.to # None

\* What each kind of call carries, and what its answer does.
WellFormed(c) ==
    /\ c.about \in Revisions
    /\ c.kind \in Edits => c.arg \in Actions
    /\ c.kind = "turn" /\ Ok(c) => c.reply.value \in Actions
    /\ Change(c) => /\ c.arg.at.rev < MaxRevision
                    /\ c.reply.value = [rev |-> c.arg.at.rev + 1, text |-> c.arg.to]

\* The first n calls of queue q are answered, and no other.
AnsweredUpTo(q, n) ==
    /\ n \in 0..Len(q)
    /\ \A i \in 1..Len(q) : Replied(q[i]) <=> i <= n

IsQueue(q) ==
    /\ q \in Seq(Calls)
    /\ \E n \in 0..Len(q) : AnsweredUpTo(q, n)
    /\ \A i \in 1..Len(q) : WellFormed(q[i])

AllReplied(q) == \A i \in 1..Len(q) : Replied(q[i])

\* Calls that are not in flight together.
Rivals(c, d) ==
    \/ c.kind = "open" /\ d.kind = "open"
    \/ {c.kind, d.kind} \subseteq Operations

NoRivals(q) == \A i, j \in 1..Len(q) : Rivals(q[i], q[j]) => i = j

\* The worker answers the first call that has no answer.
LEMMA FirstUnanswered ==
    ASSUME NEW n, calls \in Seq(Calls), AnsweredUpTo(calls, n)
    PROVE  First = IF n = Len(calls) THEN 0 ELSE n + 1
<1> DEFINE I == {i \in 1..Len(calls) : calls[i].reply = None}
<1>1. First = IF I # {} THEN Min(I) ELSE 0
  BY DEF First, SelectInSeq
<1>2. I = {i \in 1..Len(calls) : i > n}
  BY DEF AnsweredUpTo, Replied
<1>3. CASE n = Len(calls)
  BY <1>1, <1>2, <1>3 DEF AnsweredUpTo
<1>4. CASE n # Len(calls)
  <2>1. n + 1 \in I /\ \A i \in I : n + 1 <= i
    BY <1>2, <1>4 DEF AnsweredUpTo
  <2>2. \A x \in I : (\A y \in I : x <= y) => x = n + 1
    BY <1>2, <2>1 DEF AnsweredUpTo
  <2>. HIDE DEF I
  <2>3. Min(I) = n + 1
    BY <2>1, <2>2 DEF Min
  <2>. QED
    BY <1>1, <1>4, <2>1, <2>3
<1>. QED
  BY <1>3, <1>4

\* When the worker has something to answer, the calls before it are answered, and
\* neither it nor those after it are.
LEMMA FirstSplits ==
    ASSUME IsQueue(calls), First > 0
    PROVE  /\ First \in 1..Len(calls)
           /\ \A i \in 1..Len(calls) : Replied(calls[i]) <=> i < First
<1>1. PICK n \in 0..Len(calls) : AnsweredUpTo(calls, n)
  BY DEF IsQueue
<1>2. Len(calls) \in Nat
  BY LenProperties DEF IsQueue
<1>3. First = n + 1 /\ n # Len(calls)
  BY <1>1, FirstUnanswered DEF IsQueue
<1>. QED
  BY <1>1, <1>2, <1>3 DEF AnsweredUpTo

\* The length and the elements of a queue.
LEMMA QueueLength ==
    ASSUME NEW q, IsQueue(q)
    PROVE  /\ Len(q) \in Nat
           /\ DOMAIN q = 1..Len(q)
           /\ \A i \in 1..Len(q) : q[i] \in Calls
BY LenProperties, ElementOfSeq DEF IsQueue

\* What Append leaves of a queue.
LEMMA AppendElements ==
    ASSUME NEW q, IsQueue(q), NEW c \in Calls
    PROVE  /\ Append(q, c) \in Seq(Calls)
           /\ Len(Append(q, c)) = Len(q) + 1
           /\ \A i \in 1..Len(q) : Append(q, c)[i] = q[i]
           /\ Append(q, c)[Len(q) + 1] = c
BY AppendProperties DEF IsQueue

\* What Tail leaves of a queue.
LEMMA TailElements ==
    ASSUME NEW q, IsQueue(q), q # <<>>
    PROVE  /\ Tail(q) \in Seq(Calls)
           /\ Len(Tail(q)) = Len(q) - 1
           /\ Len(q) >= 1
           /\ \A i \in 1..Len(q) - 1 : Tail(q)[i] = q[i + 1]
<1>1. Len(q) \in Nat \ {0}
  BY EmptySeq DEF IsQueue
<1>. QED
  BY <1>1, HeadTailProperties DEF IsQueue

\* A call that is sent is appended, answered only when those before it are.
LEMMA QueueGrows ==
    ASSUME NEW q, IsQueue(q), NEW c \in Calls, WellFormed(c),
           Replied(c) => AllReplied(q)
    PROVE  IsQueue(Append(q, c))
<1> DEFINE r == Append(q, c)
<1>1. Len(q) \in Nat
  BY QueueLength
<1>2. /\ r \in Seq(Calls) /\ Len(r) = Len(q) + 1
      /\ \A i \in 1..Len(q) : r[i] = q[i]
      /\ r[Len(q) + 1] = c
  BY AppendElements
<1>. HIDE DEF r
<1>3. \A i \in 1..Len(r) : i \in 1..Len(q) \/ i = Len(q) + 1
  BY <1>1, <1>2
<1>4. \A i \in 1..Len(r) : WellFormed(r[i])
  BY <1>2, <1>3 DEF IsQueue
<1>5. \E n \in 0..Len(r) : AnsweredUpTo(r, n)
  <2>1. CASE Replied(c)
    <3>1. AnsweredUpTo(r, Len(r))
      BY <1>1, <1>2, <1>3, <2>1 DEF AnsweredUpTo, AllReplied
    <3>. QED
      BY <1>1, <1>2, <3>1
  <2>2. CASE ~Replied(c)
    <3>1. PICK n \in 0..Len(q) : AnsweredUpTo(q, n)
      BY DEF IsQueue
    <3>2. AnsweredUpTo(r, n)
      BY <1>1, <1>2, <1>3, <2>2, <3>1 DEF AnsweredUpTo
    <3>. QED
      BY <1>1, <1>2, <3>2
  <2>. QED
    BY <2>1, <2>2
<1>. QED
  BY <1>2, <1>4, <1>5 DEF IsQueue, r

\* The first call leaves the queue once it is answered.
LEMMA QueueShrinks ==
    ASSUME NEW q, IsQueue(q), q # <<>>, Replied(q[1])
    PROVE  IsQueue(Tail(q))
<1> DEFINE r == Tail(q)
<1>1. Len(q) \in Nat
  BY QueueLength
<1>2. /\ r \in Seq(Calls) /\ Len(r) = Len(q) - 1 /\ Len(q) >= 1
      /\ \A i \in 1..Len(q) - 1 : r[i] = q[i + 1]
  BY TailElements
<1>. HIDE DEF r
<1>3. \A i \in 1..Len(r) : i + 1 \in 1..Len(q) /\ r[i] = q[i + 1]
  BY <1>1, <1>2
<1>4. \A i \in 1..Len(r) : WellFormed(r[i])
  BY <1>3 DEF IsQueue
<1>5. PICK n \in 0..Len(q) : AnsweredUpTo(q, n)
  BY DEF IsQueue
<1>6. n >= 1
  BY <1>1, <1>2, <1>5 DEF AnsweredUpTo
<1>7. n - 1 \in 0..Len(r) /\ AnsweredUpTo(r, n - 1)
  BY <1>1, <1>2, <1>3, <1>5, <1>6 DEF AnsweredUpTo
<1>. QED
  BY <1>2, <1>4, <1>7 DEF IsQueue, r

\* A call once it has the answer r.
With(c, r) == [c EXCEPT !.reply = r]

LEMMA CallAnswered ==
    ASSUME NEW c \in Calls, NEW r \in Answers
    PROVE  /\ With(c, r) \in Calls
           /\ Replied(With(c, r))
           /\ With(c, r).kind = c.kind
           /\ With(c, r).about = c.about
           /\ With(c, r).arg = c.arg
           /\ With(c, r).reply = r
BY NoneAssumption DEF Calls, With, Replied

\* The elements of a queue when the call f is answered.
LEMMA AnsweredElements ==
    ASSUME NEW q, IsQueue(q), NEW f \in 1..Len(q), NEW r \in Answers
    PROVE  LET s == [q EXCEPT ![f].reply = r] IN
           /\ s \in Seq(Calls)
           /\ Len(s) = Len(q)
           /\ \A i \in 1..Len(q) : i # f => s[i] = q[i]
           /\ s[f] = With(q[f], r)
<1>1. [q EXCEPT ![f].reply = r] = [q EXCEPT ![f] = With(q[f], r)]
  BY DEF With
<1>2. With(q[f], r) \in Calls
  BY QueueLength, CallAnswered
<1>. QED
  BY <1>1, <1>2, ExceptSeq DEF IsQueue

\* The first call without an answer gets one.
LEMMA QueueAnswered ==
    ASSUME NEW q, IsQueue(q), NEW f \in 1..Len(q), NEW r \in Answers,
           \A i \in 1..Len(q) : Replied(q[i]) <=> i < f,
           WellFormed(With(q[f], r))
    PROVE  IsQueue([q EXCEPT ![f].reply = r])
<1> DEFINE s == [q EXCEPT ![f].reply = r]
<1>1. Len(q) \in Nat
  BY QueueLength
<1>2. /\ s \in Seq(Calls) /\ Len(s) = Len(q)
      /\ \A i \in 1..Len(q) : i # f => s[i] = q[i]
      /\ s[f] = With(q[f], r)
  BY AnsweredElements
<1>3. Replied(With(q[f], r))
  BY QueueLength, CallAnswered
<1>. HIDE DEF s
<1>4. \A i \in 1..Len(s) : WellFormed(s[i])
  BY <1>2 DEF IsQueue
<1>5. f \in 0..Len(s) /\ AnsweredUpTo(s, f)
  BY <1>1, <1>2, <1>3 DEF AnsweredUpTo
<1>. QED
  BY <1>2, <1>4, <1>5 DEF IsQueue, s

\* When the worker is gone, every call has an answer.
LEMMA RejectedElements ==
    ASSUME IsQueue(calls)
    PROVE  /\ Rejected \in Seq(Calls)
           /\ Len(Rejected) = Len(calls)
           /\ \A i \in 1..Len(calls) :
                /\ Rejected[i] = IF Replied(calls[i]) THEN calls[i]
                                 ELSE With(calls[i], Broken)
                /\ Rejected[i] \in Calls
                /\ Replied(Rejected[i])
                /\ Rejected[i].kind = calls[i].kind
                /\ Rejected[i].about = calls[i].about
                /\ Rejected[i].arg = calls[i].arg
                /\ Ok(Rejected[i]) => Rejected[i] = calls[i]
<1>1. Len(calls) \in Nat /\ DOMAIN calls = 1..Len(calls)
  BY QueueLength
<1>2. Broken \in Answers /\ Broken.is = "broken"
  BY DEF Broken, Reply, Answers
<1>3. \A i \in 1..Len(calls) : calls[i] \in Calls
  BY QueueLength
<1>4. \A i \in 1..Len(calls) :
          /\ Rejected[i] = IF Replied(calls[i]) THEN calls[i]
                           ELSE With(calls[i], Broken)
  BY <1>1 DEF Rejected, Replied, With
<1>5. \A i \in 1..Len(calls) :
          /\ Rejected[i] \in Calls
          /\ Replied(Rejected[i])
          /\ Rejected[i].kind = calls[i].kind
          /\ Rejected[i].about = calls[i].about
          /\ Rejected[i].arg = calls[i].arg
          /\ Ok(Rejected[i]) => Rejected[i] = calls[i]
  BY <1>2, <1>3, <1>4, CallAnswered DEF Ok
<1>6. Rejected \in [1..Len(calls) -> Calls]
  BY <1>1, <1>5 DEF Rejected
<1>7. Rejected \in Seq(Calls) /\ Len(Rejected) = Len(calls)
  BY <1>1, <1>6
<1>. QED
  BY <1>4, <1>5, <1>7

LEMMA QueueRejected ==
    ASSUME IsQueue(calls)
    PROVE  IsQueue(Rejected) /\ AllReplied(Rejected)
<1>1. Len(calls) \in Nat
  BY QueueLength
<1>2. \A i \in 1..Len(calls) : WellFormed(Rejected[i])
  BY RejectedElements DEF IsQueue, WellFormed, Change
<1>3. AnsweredUpTo(Rejected, Len(Rejected))
  BY <1>1, RejectedElements DEF AnsweredUpTo
<1>. QED
  BY <1>1, <1>2, <1>3, RejectedElements DEF IsQueue, AllReplied

LEMMA QueueEmpty ==
    IsQueue(<<>>) /\ AllReplied(<<>>) /\ NoRivals(<<>>)
<1>1. <<>> \in Seq(Calls) /\ Len(<<>>) = 0
  BY EmptySeq
<1>2. AnsweredUpTo(<<>>, 0)
  BY <1>1 DEF AnsweredUpTo
<1>. QED
  BY <1>1, <1>2 DEF IsQueue, AllReplied, NoRivals

-----------------------------------------------------------------------------
(* Calls that are not in flight together.                                  *)

LEMMA RivalsOfKind ==
    ASSUME NEW c, NEW d, NEW c1, NEW d1, c1.kind = c.kind, d1.kind = d.kind
    PROVE  Rivals(c1, d1) <=> Rivals(c, d)
BY DEF Rivals

LEMMA NoRivalAppended ==
    ASSUME NEW q, IsQueue(q), NoRivals(q), NEW c \in Calls,
           \A i \in 1..Len(q) : ~Rivals(q[i], c)
    PROVE  NoRivals(Append(q, c))
<1> DEFINE r == Append(q, c)
<1>1. Len(q) \in Nat
  BY QueueLength
<1>2. /\ Len(r) = Len(q) + 1
      /\ \A i \in 1..Len(q) : r[i] = q[i]
      /\ r[Len(q) + 1] = c
  BY AppendElements
<1>. HIDE DEF r
<1>3. \A i \in 1..Len(r) : i \in 1..Len(q) \/ i = Len(q) + 1
  BY <1>1, <1>2
<1>4. \A i \in 1..Len(q) : ~Rivals(c, q[i])
  BY DEF Rivals
<1>5. NoRivals(r)
  BY <1>2, <1>3, <1>4 DEF NoRivals
<1>. QED
  BY <1>5 DEF r

LEMMA NoRivalInTail ==
    ASSUME NEW q, IsQueue(q), NoRivals(q), q # <<>>
    PROVE  /\ NoRivals(Tail(q))
           /\ \A i \in 1..Len(Tail(q)) : ~Rivals(q[1], Tail(q)[i])
<1>1. Len(q) \in Nat
  BY QueueLength
<1>2. /\ Len(Tail(q)) = Len(q) - 1 /\ Len(q) >= 1
      /\ \A i \in 1..Len(q) - 1 : Tail(q)[i] = q[i + 1]
  BY TailElements
<1>3. \A i \in 1..Len(Tail(q)) : i + 1 \in 1..Len(q) /\ Tail(q)[i] = q[i + 1]
  BY <1>1, <1>2
<1>4. \A i, j \in 1..Len(Tail(q)) : Rivals(Tail(q)[i], Tail(q)[j]) => i + 1 = j + 1
  BY <1>3 DEF NoRivals
<1>5. NoRivals(Tail(q))
  BY <1>1, <1>2, <1>4 DEF NoRivals
<1>6. \A i \in 1..Len(Tail(q)) : ~Rivals(q[1], q[i + 1])
  BY <1>1, <1>2, <1>3 DEF NoRivals
<1>. QED
  BY <1>3, <1>5, <1>6

\* Whatever the answers, the calls are the same.
LEMMA NoRivalAmongSame ==
    ASSUME NEW q, NoRivals(q), NEW r, Len(r) = Len(q),
           \A i \in 1..Len(q) : r[i].kind = q[i].kind
    PROVE  NoRivals(r)
BY RivalsOfKind DEF NoRivals, Rivals

-----------------------------------------------------------------------------
(* The types.                                                              *)

\* The variables other than the calls.
Scalars ==
    /\ page \in Revisions
    /\ phase \in {"restoring", "recovery", "open"}
    /\ loading \in BOOLEAN
    /\ runtime \in {"loading", "ready", "working", "failed"}
    /\ shown \in Reports
    /\ artifacts \in Texts \cup {None}
    /\ card \in Actions \cup {None}
    /\ control \in Controllers
    /\ worker \in {"booting", "up", "down"}
    /\ comp \in Workspaces
    /\ pending \in Actions \cup {None}
    /\ failures \in 0..MaxFailures
    /\ reused \in BOOLEAN
    /\ late \in BOOLEAN

\* What is observed is a workspace of the page, and so is what the compiler has;
\* a pending preview was made from the latter.
Grounded ==
    /\ control.observed = Nothing \/ control.observed \in Revisions
    /\ comp = Nothing \/ comp \in Revisions
    /\ pending # None => /\ pending.at = comp
                         /\ pending.to # None => comp.rev < MaxRevision

\* An opening is in flight when the controller says so.
OpeningKnown == \A i \in 1..Len(calls) : calls[i].kind = "open" => control.inFlight

\* Before the page is observed by a new controller there is nothing but what the
\* assistant's card has asked for, and none of that succeeds.
Fresh ==
    /\ control = NewController
    /\ worker # "up"
    /\ runtime \notin {"ready", "working"}
    /\ comp = Nothing
    /\ pending = None
    /\ \A i \in 1..Len(calls) :
          /\ calls[i].kind \in Edits
          /\ ~Ok(calls[i])
          /\ calls[i].kind = "apply" /\ card # None => calls[i].arg = card

ITyped ==
    /\ Scalars
    /\ IsQueue(calls)
    /\ NoRivals(calls)
    /\ worker = "down" => AllReplied(calls)
    /\ Grounded
    /\ OpeningKnown
    /\ control.observed = Nothing => Fresh

LEMMA ITypedImpliesTypeOK == ITyped => TypeOK
<1>. SUFFICES ASSUME ITyped PROVE TypeOK
  OBVIOUS
<1>1. page \in Workspaces
  BY ConstantsAssumption DEF ITyped, Scalars, Revisions, Workspaces
<1>2. DOMAIN calls = 1..Len(calls) /\ calls \in Seq(Calls)
  BY QueueLength DEF ITyped, IsQueue
<1>3. \A i, j \in DOMAIN calls :
          \/ calls[i].kind = "open" /\ calls[j].kind = "open"
          \/ {calls[i].kind, calls[j].kind} \subseteq Operations
          => i = j
  BY <1>2 DEF ITyped, NoRivals, Rivals
<1>. QED
  BY <1>1, <1>2, <1>3 DEF ITyped, Scalars, TypeOK

\* Nothing is the workspace of no page.
LEMMA NothingIsNoRevision == Nothing \notin Revisions
BY DEF Nothing, Revisions

\* A workspace of the page is a workspace.
LEMMA RevisionIsWorkspace == Revisions \subseteq Workspaces
BY ConstantsAssumption DEF Revisions, Workspaces

LEMMA NothingIsWorkspace == Nothing \in Workspaces
BY ConstantsAssumption DEF Nothing, Workspaces

LEMMA NewControllerTyped ==
    NewController \in Controllers /\ NewController.observed = Nothing
BY NothingIsWorkspace, ConstantsAssumption DEF NewController, Controllers

\* Every report is one.
LEMMA ReportsTyped ==
    /\ NoReport \in Reports
    /\ \A t \in Texts : Full(t) \in Reports /\ Partial(t) \in Reports
    /\ Partial(None) \in Reports
BY DEF NoReport, Full, Partial, Reports

LEMMA InitTyped == Init => ITyped
<1>. SUFFICES ASSUME Init PROVE ITyped
  OBVIOUS
<1>1. IsQueue(calls) /\ AllReplied(calls) /\ NoRivals(calls)
  BY QueueEmpty DEF Init
<1>2. Len(calls) = 0
  BY EmptySeq DEF Init
<1>3. page \in Revisions
  BY ConstantsAssumption DEF Init, Revisions
<1>4. Scalars
  <2>1. failures \in 0..MaxFailures
    BY ConstantsAssumption DEF Init
  <2>2. control \in Controllers /\ comp \in Workspaces
    BY NewControllerTyped, NothingIsWorkspace DEF Init
  <2>. QED
    BY <1>3, <2>1, <2>2, ReportsTyped, Zenon DEF Init, Scalars
<1>5. Grounded /\ OpeningKnown /\ Fresh
  BY <1>2, NewControllerTyped DEF Init, Grounded, OpeningKnown, Fresh
<1>. QED
  BY <1>1, <1>4, <1>5 DEF ITyped

-----------------------------------------------------------------------------
(* The controller.                                                         *)

LEMMA AskedTyped ==
    ASSUME NEW k \in Controllers, NEW rev \in 0..MaxRevision
    PROVE  /\ Asked(k, rev) \in Controllers
           /\ Asked(k, rev).observed = k.observed
           /\ Asked(k, rev).accepted = k.accepted
           /\ k.inFlight => Asked(k, rev).inFlight
           /\ Asked(k, rev).inFlight /\ ~k.inFlight =>
                 k.observed.rev = rev /\ k.accepted # rev
BY DEF Asked, Controllers

LEMMA ObservedTyped ==
    ASSUME NEW k \in Controllers, NEW w \in Revisions
    PROVE  /\ Observed(k, w) \in Controllers
           /\ Observed(k, w).observed = w
           /\ Observed(k, w).accepted = k.accepted
           /\ Observed(k, w).inFlight = k.inFlight
           /\ Observed(k, w).waiting = k.waiting
           /\ Observed(k, w).refused = k.refused
BY RevisionIsWorkspace DEF Observed, Controllers

LEMMA FollowedTyped ==
    ASSUME NEW k \in Controllers, NEW w \in Revisions, NEW ph, NEW rt
    PROVE  /\ Followed(k, w, ph, rt) \in Controllers
           /\ Followed(k, w, ph, rt).observed \in {w, k.observed}
           /\ Followed(k, w, ph, rt).accepted = k.accepted
           /\ Followed(k, w, ph, rt).inFlight = k.inFlight
           /\ Followed(k, w, ph, rt).waiting = k.waiting
           /\ rt # "ready" => Followed(k, w, ph, rt) = k
BY ObservedTyped DEF Followed

\* What a controller opens is one more call.
OpenCall(w) == Call("open", w, None)

\* A call as it is made.
LEMMA CallMade ==
    ASSUME NEW kind \in {"open", "ask", "turn", "apply", "discard"} \cup Operations,
           NEW w \in Revisions, NEW arg \in Actions \cup {None},
           kind \in Edits => arg \in Actions
    PROVE  LET c == Call(kind, w, arg) IN
           /\ c \in Calls
           /\ c.kind = kind /\ c.about = w /\ c.arg = arg
           /\ c.reply = None
           /\ WellFormed(c)
BY RevisionIsWorkspace DEF Call, Calls, WellFormed, Ok, Replied, Change

\* A call as it is sent.
LEMMA CallSent ==
    ASSUME NEW c \in Calls, c.reply = None, WellFormed(c)
    PROVE  /\ Sent(c) \in Calls
           /\ WellFormed(Sent(c))
           /\ Sent(c).kind = c.kind
           /\ Sent(c).about = c.about
           /\ Sent(c).arg = c.arg
           /\ ~Ok(Sent(c))
           /\ Replied(Sent(c)) <=> worker = "down"
           /\ worker # "down" => Sent(c) = c
<1>1. Broken \in Answers /\ Broken.is = "broken"
  BY DEF Broken, Reply, Answers
<1>2. Sent(c) = IF worker = "down" THEN With(c, Broken) ELSE c
  BY DEF Sent, With
<1>3. ~Ok(c) /\ ~Replied(c)
  BY DEF Ok, Replied
<1>4. CASE worker = "down"
  BY <1>1, <1>2, <1>3, <1>4, CallAnswered DEF WellFormed, Ok, Replied, Change
<1>. QED
  BY <1>2, <1>3, <1>4

\* An opening that is sent: only when the controller goes from none to one.
LEMMA OpeningSent ==
    ASSUME NEW q, IsQueue(q), NoRivals(q), worker = "down" => AllReplied(q),
           NEW w \in Revisions, \A i \in 1..Len(q) : q[i].kind # "open"
    PROVE  LET r == Append(q, Sent(OpenCall(w))) IN
           /\ IsQueue(r)
           /\ NoRivals(r)
           /\ worker = "down" => AllReplied(r)
<1> DEFINE c == Sent(OpenCall(w))
<1>1. c \in Calls /\ WellFormed(c) /\ c.kind = "open" /\ (Replied(c) <=> worker = "down")
  BY CallMade, CallSent DEF OpenCall, Edits
<1>. HIDE DEF c
<1>2. IsQueue(Append(q, c))
  BY <1>1, QueueGrows
<1>3. \A i \in 1..Len(q) : ~Rivals(q[i], c)
  BY <1>1 DEF Rivals, Operations
<1>4. NoRivals(Append(q, c))
  BY <1>1, <1>3, NoRivalAppended
<1>5. worker = "down" => AllReplied(Append(q, c))
  BY <1>1, AppendElements, QueueLength DEF AllReplied
<1>. QED
  BY <1>2, <1>4, <1>5 DEF c

-----------------------------------------------------------------------------
(* The types are kept: what the page sends.                                *)

LEMMA SendingTyped ==
    ASSUME ITyped, NEW c \in Calls, c.reply = None, WellFormed(c), Send(c),
           c.kind # "open", \A i \in 1..Len(calls) : ~Rivals(calls[i], c),
           runtime' \in {"loading", "ready", "working", "failed"},
           card' \in {card, None},
           control.observed = Nothing =>
               /\ runtime' = runtime
               /\ c.kind \in Edits
               /\ c.kind = "apply" => c.arg = card',
           page' = page, phase' = phase, loading' = loading, shown' = shown,
           artifacts' = artifacts, control' = control, worker' = worker,
           comp' = comp, pending' = pending, failures' = failures,
           reused' = reused, late' = late
    PROVE  ITyped'
<1> DEFINE s == Sent(c)
<1>1. /\ s \in Calls /\ WellFormed(s) /\ s.kind = c.kind /\ s.arg = c.arg
      /\ ~Ok(s) /\ (Replied(s) <=> worker = "down")
  BY CallSent
<1>2. calls' = Append(calls, s)
  BY DEF Send
<1>. HIDE DEF s
<1>0. IsQueue(calls) /\ NoRivals(calls) /\ (worker = "down" => AllReplied(calls))
  BY DEF ITyped
<1>3. Len(calls) \in Nat
  BY <1>0, QueueLength
<1>4. /\ Len(calls') = Len(calls) + 1
      /\ \A i \in 1..Len(calls) : calls'[i] = calls[i]
      /\ calls'[Len(calls) + 1] = s
  BY <1>0, <1>1, <1>2, AppendElements
<1>5. \A i \in 1..Len(calls') : i \in 1..Len(calls) \/ i = Len(calls) + 1
  BY <1>3, <1>4
<1>6. IsQueue(calls')
  BY <1>0, <1>1, <1>2, QueueGrows
<1>7. NoRivals(calls')
  <2>1. \A i \in 1..Len(calls) : ~Rivals(calls[i], s)
    BY <1>1 DEF Rivals
  <2>. QED
    BY <1>0, <1>1, <1>2, <2>1, NoRivalAppended
<1>8. worker' = "down" => AllReplied(calls')
  BY <1>0, <1>1, <1>4, <1>5 DEF AllReplied
<1>9. Scalars'
  <2>1. card' \in Actions \cup {None}
    BY DEF ITyped, Scalars
  <2>. QED
    BY <2>1, Zenon DEF ITyped, Scalars
<1>10. Grounded'
  BY DEF ITyped, Grounded
<1>11. OpeningKnown'
  BY <1>1, <1>4, <1>5 DEF ITyped, OpeningKnown
<1>12. control'.observed = Nothing => Fresh'
  BY <1>1, <1>4, <1>5 DEF ITyped, Fresh
<1>. QED
  BY <1>6, <1>7, <1>8, <1>9, <1>10, <1>11, <1>12 DEF ITyped

\* A controller that has observed the page, wherever that shows.
LEMMA Observing ==
    ASSUME ITyped
    PROVE  /\ runtime \in {"ready", "working"} => control.observed \in Revisions
           /\ worker = "up" => control.observed \in Revisions
           /\ \A i \in 1..Len(calls) :
                  calls[i].kind \notin Edits \/ Ok(calls[i])
                  => control.observed \in Revisions
           /\ comp # Nothing => control.observed \in Revisions
           /\ control # NewController => control.observed \in Revisions
BY DEF ITyped, Fresh, Grounded

LEMMA OperateTyped == ITyped /\ Operate => ITyped'
<1>. SUFFICES ASSUME ITyped, Operate PROVE ITyped'
  OBVIOUS
<1>1. PICK kind \in Operations : Send(Call(kind, page, None))
  BY DEF Operate
<1>2. page \in Revisions /\ control.observed # Nothing
  BY Observing, NothingIsNoRevision DEF Operate, ITyped, Scalars
<1> DEFINE c == Call(kind, page, None)
<1>3. c \in Calls /\ c.reply = None /\ WellFormed(c) /\ c.kind = kind
  BY <1>2, CallMade DEF Edits, Operations
<1>4. Send(c)
  BY <1>1
<1>. HIDE DEF c
<1>5. DOMAIN calls = 1..Len(calls)
  BY QueueLength DEF ITyped
<1>6. \A i \in 1..Len(calls) : ~Rivals(calls[i], c)
  BY <1>3, <1>5 DEF Operate, OperationPending, Rivals, Operations
<1>7. c.kind # "open"
  BY <1>3 DEF Operations
<1>. QED
  BY <1>2, <1>3, <1>4, <1>6, <1>7, SendingTyped
     DEF Operate, pageVars, compilerVars, historyVars

LEMMA AskTyped == ITyped /\ Ask => ITyped'
<1>. SUFFICES ASSUME ITyped, Ask PROVE ITyped'
  OBVIOUS
<1>1. control.observed # Nothing /\ control.observed \in Revisions
  BY DEF Ask, ITyped, Grounded
<1> DEFINE c == Call("ask", control.observed, None)
<1>2. c \in Calls /\ c.reply = None /\ WellFormed(c) /\ c.kind = "ask"
  BY <1>1, CallMade DEF Edits
<1>3. Send(c)
  BY DEF Ask
<1>. HIDE DEF c
<1>4. \A i \in 1..Len(calls) : ~Rivals(calls[i], c)
  BY <1>2 DEF Rivals, Operations
<1>5. runtime' \in {"loading", "ready", "working", "failed"} /\ c.kind # "open"
  BY <1>2 DEF Ask, ITyped, Scalars
<1>. QED
  BY <1>1, <1>2, <1>3, <1>4, <1>5, SendingTyped
     DEF Ask, pageVars, compilerVars, historyVars

LEMMA TurnTyped == ITyped /\ Turn => ITyped'
<1>. SUFFICES ASSUME ITyped, Turn PROVE ITyped'
  OBVIOUS
<1>1. page \in Revisions /\ control.observed # Nothing
  BY Observing, NothingIsNoRevision DEF Turn, ITyped, Scalars
<1> DEFINE c == Call("turn", page, None)
<1>2. c \in Calls /\ c.reply = None /\ WellFormed(c) /\ c.kind = "turn"
  BY <1>1, CallMade DEF Edits
<1>3. Send(c)
  BY DEF Turn
<1>. HIDE DEF c
<1>4. \A i \in 1..Len(calls) : ~Rivals(calls[i], c)
  BY <1>2 DEF Rivals, Operations
<1>5. runtime' \in {"loading", "ready", "working", "failed"} /\ c.kind # "open"
  BY <1>2 DEF Turn
<1>. QED
  BY <1>1, <1>2, <1>3, <1>4, <1>5, SendingTyped
     DEF Turn, pageVars, compilerVars, historyVars

LEMMA AcceptTyped == ITyped /\ Accept => ITyped'
<1>. SUFFICES ASSUME ITyped, Accept PROVE ITyped'
  OBVIOUS
<1>1. page \in Revisions /\ card \in Actions
  BY DEF Accept, ITyped, Scalars
<1> DEFINE c == Call("apply", page, card)
<1>2. c \in Calls /\ c.reply = None /\ WellFormed(c) /\ c.kind = "apply" /\ c.arg = card
  BY <1>1, CallMade
<1>3. Send(c)
  BY DEF Accept
<1>. HIDE DEF c
<1>4. \A i \in 1..Len(calls) : ~Rivals(calls[i], c)
  BY <1>2 DEF Rivals, Operations
<1>5. runtime' = runtime /\ card' = card /\ c.kind # "open" /\ c.kind \in Edits
  BY <1>2 DEF Accept, pageVars, Edits
<1>6. runtime' \in {"loading", "ready", "working", "failed"}
  BY <1>5 DEF ITyped, Scalars
<1>. QED
  BY <1>2, <1>3, <1>4, <1>5, <1>6, SendingTyped
     DEF Accept, pageVars, compilerVars, historyVars

LEMMA DiscardTyped == ITyped /\ Discard => ITyped'
<1>. SUFFICES ASSUME ITyped, Discard PROVE ITyped'
  OBVIOUS
<1>1. page \in Revisions /\ card \in Actions
  BY DEF Discard, ITyped, Scalars
<1> DEFINE c == Call("discard", page, card)
<1>2. c \in Calls /\ c.reply = None /\ WellFormed(c) /\ c.kind = "discard"
  BY <1>1, CallMade
<1>3. Send(c)
  BY DEF Discard
<1>. HIDE DEF c
<1>4. \A i \in 1..Len(calls) : ~Rivals(calls[i], c)
  BY <1>2 DEF Rivals, Operations
<1>5. runtime' = runtime /\ card' = None /\ c.kind # "open" /\ c.kind \in Edits
      /\ c.kind # "apply"
  BY <1>2 DEF Discard, Edits
<1>6. runtime' \in {"loading", "ready", "working", "failed"}
  BY <1>5 DEF ITyped, Scalars
<1>. QED
  BY <1>2, <1>3, <1>4, <1>5, <1>6, SendingTyped
     DEF Discard, compilerVars, historyVars

-----------------------------------------------------------------------------
(* The types are kept: the workspace of the page.                          *)

LEMMA ReplacingTyped ==
    ASSUME ITyped,
           page' \in Revisions, phase' \in {"restoring", "recovery", "open"},
           loading' \in BOOLEAN, shown' \in Reports,
           artifacts' \in Texts \cup {None}, reused' \in BOOLEAN,
           control' = Followed(control, page', phase', runtime),
           card' = card, runtime' = runtime, worker' = worker, calls' = calls,
           comp' = comp, pending' = pending, failures' = failures, late' = late
    PROVE  ITyped'
<1>1. control \in Controllers
  BY DEF ITyped, Scalars
<1>2. /\ control' \in Controllers
      /\ control'.observed \in {page', control.observed}
      /\ control'.inFlight = control.inFlight
      /\ runtime # "ready" => control' = control
  BY <1>1, FollowedTyped
<1>3. Scalars'
  BY <1>2, Zenon DEF ITyped, Scalars
<1>4. Grounded'
  BY <1>2 DEF ITyped, Grounded
<1>5. OpeningKnown'
  BY <1>2 DEF ITyped, OpeningKnown
<1>6. control'.observed = Nothing => Fresh'
  <2>. SUFFICES ASSUME control'.observed = Nothing PROVE Fresh'
    OBVIOUS
  <2>1. control.observed = Nothing
    BY <1>2, NothingIsNoRevision
  <2>2. Fresh
    BY <2>1 DEF ITyped
  <2>3. control' = control
    BY <1>2, <2>2 DEF Fresh
  <2>. QED
    BY <2>2, <2>3 DEF Fresh
<1>7. IsQueue(calls)' /\ NoRivals(calls)' /\ (worker' = "down" => AllReplied(calls)')
  BY DEF ITyped, IsQueue, NoRivals, AllReplied, AnsweredUpTo
<1>. QED
  BY <1>3, <1>4, <1>5, <1>6, <1>7 DEF ITyped

\* What Replaced makes of the page.
LEMMA ReplacedTyped ==
    ASSUME ITyped, NEW w \in Revisions, Replaced(w)
    PROVE  /\ page' \in Revisions
           /\ shown' \in Reports
           /\ artifacts' \in Texts \cup {None}
           /\ reused' \in BOOLEAN
<1>1. page' \in Revisions /\ shown' = NoReport /\ artifacts' = None
  BY DEF Replaced
<1>2. reused' \in BOOLEAN
  BY Zenon DEF Replaced, ITyped, Scalars
<1>. QED
  BY <1>1, <1>2, ReportsTyped

LEMMA EditTyped == ITyped /\ Edit => ITyped'
<1>. SUFFICES ASSUME ITyped, Edit PROVE ITyped'
  OBVIOUS
<1>1. PICK t \in Texts \ {page.text} : Replaced([rev |-> page.rev + 1, text |-> t])
  BY DEF Edit
<1>2. [rev |-> page.rev + 1, text |-> t] \in Revisions
  BY ConstantsAssumption DEF Edit, ITyped, Scalars, Revisions
<1>3. /\ page' \in Revisions /\ shown' \in Reports
      /\ artifacts' \in Texts \cup {None} /\ reused' \in BOOLEAN
  BY <1>1, <1>2, ReplacedTyped
<1>4. loading' = loading /\ loading \in BOOLEAN
  BY DEF Edit, ITyped, Scalars
<1>5. phase' = "open" /\ control' = Followed(control, page', phase', runtime)
  BY DEF Edit
<1>. QED
  BY <1>3, <1>4, <1>5, ReplacingTyped DEF Edit, compilerVars

LEMMA AdoptTyped == ITyped /\ Adopt => ITyped'
<1>. SUFFICES ASSUME ITyped, Adopt PROVE ITyped'
  OBVIOUS
<1>1. PICK r \in page.rev + 1..MaxRevision, t \in Texts :
          Replaced([rev |-> r, text |-> t])
  BY DEF Adopt
<1>2. [rev |-> r, text |-> t] \in Revisions
  BY ConstantsAssumption DEF ITyped, Scalars, Revisions
<1>3. /\ page' \in Revisions /\ shown' \in Reports
      /\ artifacts' \in Texts \cup {None} /\ reused' \in BOOLEAN
  BY <1>1, <1>2, ReplacedTyped
<1>4. loading' = loading /\ loading \in BOOLEAN
  BY DEF Adopt, ITyped, Scalars
<1>5. phase' = "open" /\ control' = Followed(control, page', phase', runtime)
  BY DEF Adopt
<1>. QED
  BY <1>3, <1>4, <1>5, ReplacingTyped DEF Adopt, compilerVars

LEMMA RestoreTyped == ITyped /\ Restore => ITyped'
<1>. SUFFICES ASSUME ITyped, Restore PROVE ITyped'
  OBVIOUS
<1>1. /\ phase' \in {"restoring", "recovery", "open"}
      /\ page' \in Revisions /\ shown' \in Reports
      /\ artifacts' \in Texts \cup {None} /\ reused' \in BOOLEAN
  <2>1. CASE \E r \in 1..MaxRevision, t \in Texts : Replaced([rev |-> r, text |-> t])
    <3>1. PICK r \in 1..MaxRevision, t \in Texts : Replaced([rev |-> r, text |-> t])
      BY <2>1
    <3>2. [rev |-> r, text |-> t] \in Revisions
      BY DEF Revisions
    <3>. QED
      BY <3>1, <3>2, ReplacedTyped DEF Restore
  <2>2. CASE Replaced([rev |-> 1, text |-> Demo])
    <3>1. [rev |-> 1, text |-> Demo] \in Revisions
      BY ConstantsAssumption DEF Revisions
    <3>. QED
      BY <2>2, <3>1, ReplacedTyped DEF Restore
  <2>3. CASE page' = page /\ shown' = shown /\ artifacts' = artifacts /\ reused' = reused
    <3>1. reused' \in BOOLEAN
      BY <2>3, Zenon DEF ITyped, Scalars
    <3>. QED
      BY <2>3, <3>1 DEF Restore, ITyped, Scalars
  <2>. QED
    BY <2>1, <2>2, <2>3 DEF Restore
<1>2. loading' \in BOOLEAN
  BY Zenon DEF Restore
<1>3. control' = Followed(control, page', phase', runtime)
  BY DEF Restore
<1>. QED
  BY <1>1, <1>2, <1>3, ReplacingTyped DEF Restore, compilerVars

-----------------------------------------------------------------------------
(* The types are kept: the controller.                                     *)

\* The controller becomes k, and opens its workspace if it was not opening one.
LEMMA ControlTyped ==
    ASSUME ITyped, NEW k \in Controllers, NEW opens \in BOOLEAN,
           Control(k, opens, calls),
           k.observed \in Revisions,
           control.inFlight => k.inFlight,
           opens = (k.inFlight /\ ~control.inFlight),
           worker' \in {worker, "up"}, worker' = worker \/ worker = "booting",
           runtime' \in {"loading", "ready", "working", "failed"},
           page' = page, phase' = phase, loading' = loading, shown' = shown,
           artifacts' = artifacts, card' = card, comp' = comp,
           pending' = pending, failures' = failures, reused' = reused, late' = late
    PROVE  ITyped'
<1> DEFINE c == Sent(OpenCall(k.observed))
<1>0. IsQueue(calls) /\ NoRivals(calls) /\ (worker = "down" => AllReplied(calls))
  BY DEF ITyped
<1>1. /\ c \in Calls /\ WellFormed(c) /\ c.kind = "open"
      /\ (Replied(c) <=> worker = "down")
  BY CallMade, CallSent DEF OpenCall, Edits
<1>2. calls' = IF opens THEN Append(calls, c) ELSE calls
  BY DEF Control, OpenCall
<1>3. control' = k
  BY DEF Control
<1>4. worker' = "down" => worker = "down"
  OBVIOUS
<1>5. /\ IsQueue(calls') /\ NoRivals(calls')
      /\ worker = "down" => AllReplied(calls')
  <2>1. CASE opens
    <3>1. \A i \in 1..Len(calls) : calls[i].kind # "open"
      BY <2>1 DEF ITyped, OpeningKnown
    <3>. QED
      BY <1>0, <1>2, <2>1, <3>1, OpeningSent
  <2>2. CASE ~opens
    BY <1>0, <1>2, <2>2
  <2>. QED
    BY <2>1, <2>2
<1>. HIDE DEF c
<1>6. Scalars'
  <2>1. control' \in Controllers
    BY <1>3
  <2>2. worker' \in {"booting", "up", "down"}
    BY DEF ITyped, Scalars
  <2>. QED
    BY <2>1, <2>2, Zenon DEF ITyped, Scalars
<1>7. Grounded'
  BY <1>3 DEF ITyped, Grounded
<1>8. OpeningKnown'
  <2>1. CASE opens
    BY <1>3, <2>1 DEF OpeningKnown
  <2>2. CASE ~opens
    BY <1>2, <1>3, <2>2 DEF ITyped, OpeningKnown
  <2>. QED
    BY <2>1, <2>2
<1>9. control'.observed # Nothing
  BY <1>3, NothingIsNoRevision
<1>. QED
  BY <1>4, <1>5, <1>6, <1>7, <1>8, <1>9 DEF ITyped

\* synchronize, whatever for.
LEMMA SynchronizeTyped ==
    ASSUME ITyped, NEW k \in Controllers, Synchronize(k),
           k.observed = control.observed, k.inFlight = control.inFlight,
           control # NewController
    PROVE  ITyped'
<1>1. control.observed \in Revisions
  BY Observing
<1> DEFINE l == [k EXCEPT !.timer = FALSE]
           asked == Asked(l, k.observed.rev)
<1>2. /\ l \in Controllers /\ l.observed = k.observed
      /\ l.inFlight = k.inFlight
  BY DEF Controllers
<1>3. k.observed.rev \in 0..MaxRevision
  BY <1>1, ConstantsAssumption DEF Revisions
<1>4. /\ asked \in Controllers /\ asked.observed = control.observed
      /\ control.inFlight => asked.inFlight
  BY <1>2, <1>3, AskedTyped
<1>5. /\ Control(asked, asked.inFlight /\ ~k.inFlight, calls)
      /\ UNCHANGED <<pageVars, runtime, worker, compilerVars, failures, historyVars>>
  BY DEF Synchronize
<1>. HIDE DEF asked
<1> DEFINE opens == asked.inFlight /\ ~k.inFlight
<1>6. /\ Control(asked, opens, calls) /\ opens \in BOOLEAN
      /\ opens = (asked.inFlight /\ ~control.inFlight)
  BY <1>5
<1>. HIDE DEF opens
<1>7. runtime' \in {"loading", "ready", "working", "failed"}
  BY <1>5 DEF ITyped, Scalars
<1>. QED
  BY <1>1, <1>4, <1>5, <1>6, <1>7, ControlTyped
     DEF pageVars, compilerVars, historyVars

LEMMA TimerFiresTyped == ITyped /\ TimerFires => ITyped'
<1>. SUFFICES ASSUME ITyped, TimerFires PROVE ITyped'
  OBVIOUS
<1>1. control \in Controllers /\ control # NewController
  BY DEF ITyped, Scalars, TimerFires, NewController
<1>. QED
  BY <1>1, SynchronizeTyped DEF TimerFires

LEMMA EnsureRevisionTyped == ITyped /\ EnsureRevision => ITyped'
<1>. SUFFICES ASSUME ITyped, EnsureRevision PROVE ITyped'
  OBVIOUS
<1>1. control \in Controllers /\ page.rev > 0
  BY ConstantsAssumption DEF ITyped, Scalars, Revisions
<1>2. control # NewController
  BY <1>1, NewControllerTyped DEF EnsureRevision, Nothing
<1>. QED
  BY <1>1, <1>2, SynchronizeTyped DEF EnsureRevision

LEMMA RetryLanguageTyped == ITyped /\ RetryLanguage => ITyped'
<1>. SUFFICES ASSUME ITyped, RetryLanguage PROVE ITyped'
  OBVIOUS
<1>1. control \in Controllers /\ control # NewController
  BY DEF ITyped, Scalars, RetryLanguage, NewController
<1> DEFINE k == [control EXCEPT !.refused = 0]
<1>2. k \in Controllers /\ k.observed = control.observed /\ k.inFlight = control.inFlight
  BY <1>1, ConstantsAssumption DEF Controllers
<1>3. Synchronize(k)
  BY DEF RetryLanguage
<1>. HIDE DEF k
<1>. QED
  BY <1>1, <1>2, <1>3, SynchronizeTyped

-----------------------------------------------------------------------------
(* The types are kept: the compiler.                                       *)

LEMMA AnswerTyped ==
    ASSUME ITyped, worker = "up", First > 0, NEW r \in Answers,
           calls' = [calls EXCEPT ![First].reply = r],
           WellFormed(With(calls[First], r)),
           comp' = Nothing \/ comp' \in Revisions,
           pending' \in Actions \cup {None},
           pending' # None => /\ pending'.at = comp'
                              /\ pending'.to # None => comp'.rev < MaxRevision,
           failures' \in 0..MaxFailures, reused' \in BOOLEAN,
           page' = page, phase' = phase, loading' = loading, shown' = shown,
           artifacts' = artifacts, card' = card, runtime' = runtime,
           control' = control, worker' = worker, late' = late
    PROVE  ITyped'
<1>0. IsQueue(calls) /\ NoRivals(calls)
  BY DEF ITyped
<1>1. /\ First \in 1..Len(calls)
      /\ \A i \in 1..Len(calls) : Replied(calls[i]) <=> i < First
  BY <1>0, FirstSplits
<1>2. /\ Len(calls') = Len(calls)
      /\ \A i \in 1..Len(calls) : i # First => calls'[i] = calls[i]
      /\ calls'[First] = With(calls[First], r)
  BY <1>0, <1>1, AnsweredElements
<1>3. calls'[First].kind = calls[First].kind
  BY <1>0, <1>1, <1>2, QueueLength, CallAnswered
<1>4. IsQueue(calls')
  BY <1>0, <1>1, QueueAnswered
<1>5. NoRivals(calls')
  BY <1>0, <1>2, <1>3, NoRivalAmongSame
<1>6. OpeningKnown'
  BY <1>2, <1>3 DEF ITyped, OpeningKnown
<1>7. Scalars'
  <2>1. comp' \in Workspaces
    BY NothingIsWorkspace, RevisionIsWorkspace
  <2>. QED
    BY <2>1, Zenon DEF ITyped, Scalars
<1>8. Grounded'
  BY DEF ITyped, Grounded
<1>9. control'.observed # Nothing
  BY DEF ITyped, Fresh
<1>. QED
  BY <1>4, <1>5, <1>6, <1>7, <1>8, <1>9 DEF ITyped

\* What Replies leaves, when the compiler's workspace stays or moves on.
LEMMA RepliesTyped ==
    ASSUME ITyped, worker = "up", First > 0,
           NEW r \in Answers, NEW w, NEW a \in Actions \cup {None}, Replies(r, w, a),
           WellFormed(With(calls[First], r)),
           w = comp \/ (w \in Revisions /\ w.rev > comp.rev),
           a # None => /\ a.at = comp
                       /\ a.to # None => comp.rev < MaxRevision,
           reused' \in BOOLEAN
    PROVE  ITyped'
<1>1. comp' = w /\ calls' = [calls EXCEPT ![First].reply = r]
  BY DEF Replies
<1>2. comp' = Nothing \/ comp' \in Revisions
  BY <1>1 DEF ITyped, Grounded
<1>3. pending' = IF w.rev = comp.rev THEN a ELSE None
  BY DEF Replies
<1>4. comp.rev \in Nat
  BY ConstantsAssumption DEF ITyped, Scalars, Workspaces
<1>5. w.rev = comp.rev => w = comp
  BY <1>4 DEF Revisions
<1>6. /\ pending' \in Actions \cup {None}
      /\ pending' # None => /\ pending'.at = comp'
                            /\ pending'.to # None => comp'.rev < MaxRevision
  BY <1>1, <1>3, <1>5
<1>7. failures' = failures /\ failures \in 0..MaxFailures
  BY DEF Replies, ITyped, Scalars
<1>. QED
  BY <1>1, <1>2, <1>6, <1>7, AnswerTyped DEF Replies, pageVars

\* The call that the worker has before it.
LEMMA WorkedOn ==
    ASSUME ITyped, NEW kinds, Working(kinds)
    PROVE  /\ worker = "up" /\ First > 0 /\ First \in 1..Len(calls)
           /\ calls[First] \in Calls
           /\ calls[First].kind \in kinds
           /\ calls[First].about \in Revisions
           /\ WellFormed(calls[First])
           /\ ~Replied(calls[First])
           /\ \A i \in 1..First - 1 : Replied(calls[i])
           /\ reused \in BOOLEAN
           /\ pending \in Actions \cup {None}
           /\ pending # None => /\ pending.at = comp
                                /\ pending.to # None => comp.rev < MaxRevision
<1>1. worker = "up" /\ First > 0 /\ calls[First].kind \in kinds
  BY DEF Working
<1>2. IsQueue(calls)
  BY DEF ITyped
<1>3. /\ First \in 1..Len(calls)
      /\ \A i \in 1..Len(calls) : Replied(calls[i]) <=> i < First
  BY <1>1, <1>2, FirstSplits
<1>4. calls[First] \in Calls /\ WellFormed(calls[First])
  BY <1>2, <1>3, QueueLength DEF IsQueue
<1>5. \A i \in 1..First - 1 : Replied(calls[i])
  BY <1>2, <1>3, QueueLength
<1>6. reused \in BOOLEAN /\ pending \in Actions \cup {None}
  BY DEF ITyped, Scalars
<1>7. pending # None => /\ pending.at = comp
                        /\ pending.to # None => comp.rev < MaxRevision
  BY DEF ITyped, Grounded
<1>. QED
  BY <1>1, <1>3, <1>4, <1>5, <1>6, <1>7 DEF WellFormed

\* An answer to a call that neither previews nor changes anything.
LEMMA PlainAnswer ==
    ASSUME NEW c \in Calls, WellFormed(c), NEW r \in Answers,
           c.kind \notin {"turn", "apply"} \/ r.is # "ok"
    PROVE  WellFormed(With(c, r))
BY CallAnswered DEF WellFormed, Change, Ok

\* What an opening makes of the compiler's workspace.
LEMMA OpenedMovesOn ==
    ASSUME ITyped, NEW w \in Revisions, Opened(w) = "ok"
    PROVE  w = comp \/ w.rev > comp.rev
<1>1. comp \in Workspaces /\ comp.rev \in Nat /\ w.rev \in Nat
  BY ConstantsAssumption DEF ITyped, Scalars, Workspaces, Revisions
<1>2. ~(w.rev < comp.rev) /\ ~(w.rev = comp.rev /\ w.text # comp.text)
  BY DEF Opened
<1>3. w.rev = comp.rev /\ w.text = comp.text => w = comp
  BY <1>1 DEF Revisions, Workspaces
<1>. QED
  BY <1>1, <1>2, <1>3

LEMMA OpenTyped == ITyped /\ Open => ITyped'
<1>. SUFFICES ASSUME ITyped, Open PROVE ITyped'
  OBVIOUS
<1> DEFINE c == calls[First]
           r == Reply(Opened(c.about), None)
           w == IF Opened(c.about) = "ok" THEN c.about ELSE comp
<1>1. Working({"open", "validate"})
  BY DEF Open
<1>2. c.kind \in {"open", "validate"} /\ c.about \in Revisions
  BY <1>1, WorkedOn
<1>3. Replies(r, w, pending) /\ reused' = reused
  BY DEF Open, Answer
<1>4. r \in Answers
  BY DEF Reply, Answers, Opened
<1>5. w = comp \/ (w \in Revisions /\ w.rev > comp.rev)
  BY <1>2, OpenedMovesOn
<1>6. WellFormed(With(c, r))
  BY <1>1, <1>2, <1>4, WorkedOn, PlainAnswer
<1>. HIDE DEF r, w
<1>7. reused' \in BOOLEAN
  BY <1>1, <1>3, WorkedOn
<1>. QED
  BY <1>1, <1>3, <1>4, <1>5, <1>6, <1>7, WorkedOn, RepliesTyped

LEMMA CompileTyped == ITyped /\ Compile => ITyped'
<1>. SUFFICES ASSUME ITyped, Compile PROVE ITyped'
  OBVIOUS
<1> DEFINE r == Reply("ok", None)
<1>1. Working({"format", "generate"})
  BY DEF Compile
<1>2. Replies(r, comp, pending) /\ reused' = reused
  BY DEF Compile, Answer
<1>3. r \in Answers
  BY DEF Reply, Answers
<1>4. WellFormed(With(calls[First], r))
  BY <1>1, <1>3, WorkedOn, PlainAnswer
<1>. HIDE DEF r
<1>5. reused' \in BOOLEAN
  BY <1>1, <1>2, WorkedOn
<1>. QED
  BY <1>1, <1>2, <1>3, <1>4, <1>5, WorkedOn, RepliesTyped

LEMMA QuestionTyped == ITyped /\ Question => ITyped'
<1>. SUFFICES ASSUME ITyped, Question PROVE ITyped'
  OBVIOUS
<1> DEFINE r == IF calls[First].about.rev = comp.rev THEN Reply("ok", comp.text)
                ELSE Stale
<1>1. Working({"ask"})
  BY DEF Question
<1>2. Replies(r, comp, pending) /\ reused' = reused
  BY DEF Question, Answer
<1>3. r \in Answers
  BY DEF Reply, Answers, Stale, ITyped, Scalars, Workspaces
<1>4. WellFormed(With(calls[First], r))
  BY <1>1, <1>3, WorkedOn, PlainAnswer
<1>. HIDE DEF r
<1>5. reused' \in BOOLEAN
  BY <1>1, <1>2, WorkedOn
<1>. QED
  BY <1>1, <1>2, <1>3, <1>4, <1>5, WorkedOn, RepliesTyped

LEMMA StaleTyped == Stale \in Answers /\ Stale.is = "stale"
BY DEF Stale, Reply, Answers

LEMMA PreviewTyped == ITyped /\ Preview => ITyped'
<1>. SUFFICES ASSUME ITyped, Preview PROVE ITyped'
  OBVIOUS
<1>1. Working({"turn"})
  BY DEF Preview
<1>2. CASE Answer(Stale, comp, pending)
  <2>1. WellFormed(With(calls[First], Stale))
    BY <1>1, StaleTyped, WorkedOn, PlainAnswer
  <2>2. Replies(Stale, comp, pending) /\ reused' \in BOOLEAN
    BY <1>1, <1>2, WorkedOn DEF Answer
  <2>. QED
    BY <1>1, <2>1, <2>2, StaleTyped, WorkedOn, RepliesTyped
<1>3. ASSUME NEW to \in Texts \cup {None},
             to = None \/ comp.rev < MaxRevision,
             Answer(Reply("ok", [at |-> comp, to |-> to]), comp, [at |-> comp, to |-> to])
      PROVE  ITyped'
  <2> DEFINE a == [at |-> comp, to |-> to]
             r == Reply("ok", a)
  <2>1. a \in Actions /\ a.at = comp /\ (a.to # None => comp.rev < MaxRevision)
    BY <1>3 DEF Actions, ITyped, Scalars
  <2>2. Replies(r, comp, a) /\ reused' = reused
    BY <1>3 DEF Answer
  <2>. HIDE DEF a
  <2>3. r \in Answers /\ r.value = a
    BY <2>1 DEF Reply, Answers
  <2>4. WellFormed(With(calls[First], r))
    BY <1>1, <2>1, <2>3, WorkedOn, CallAnswered DEF WellFormed, Change
  <2>. HIDE DEF r
  <2>5. reused' \in BOOLEAN
    BY <1>1, <2>2, WorkedOn
  <2>. QED
    BY <1>1, <2>1, <2>2, <2>3, <2>4, <2>5, WorkedOn, RepliesTyped
<1>. QED
  BY <1>2, <1>3 DEF Preview

\* The text of a pending action, as the compiler's workspace.
LEMMA ConfirmedTyped ==
    ASSUME ITyped, pending # None, pending.to # None
    PROVE  /\ Confirmed(pending) \in Revisions
           /\ Confirmed(pending).rev = comp.rev + 1
           /\ Confirmed(pending).rev > comp.rev
<1>1. pending \in Actions /\ pending.at = comp /\ comp.rev < MaxRevision
  BY DEF ITyped, Scalars, Grounded
<1>2. comp.rev \in 0..MaxRevision /\ pending.to \in Texts
  BY <1>1 DEF ITyped, Scalars, Workspaces, Actions
<1>. QED
  BY <1>1, <1>2, ConstantsAssumption DEF Confirmed, Revisions

LEMMA TypedTyped == ITyped /\ Typed => ITyped'
<1>. SUFFICES ASSUME ITyped, Typed PROVE ITyped'
  OBVIOUS
<1>1. Working({"turn"})
  BY DEF Typed
<1>2. WellFormed(With(calls[First], Stale))
  BY <1>1, StaleTyped, WorkedOn, PlainAnswer
<1>3. CASE Answer(Stale, comp, None)
  <2>1. Replies(Stale, comp, None) /\ reused' \in BOOLEAN
    BY <1>1, <1>3, WorkedOn DEF Answer
  <2>. QED
    BY <1>1, <1>2, <2>1, StaleTyped, WorkedOn, RepliesTyped
<1>4. CASE /\ pending.to # None
           /\ Replies(Stale, Confirmed(pending), None)
           /\ reused' = TRUE
  <2>1. Confirmed(pending) \in Revisions /\ Confirmed(pending).rev > comp.rev
    BY <1>4, ConfirmedTyped DEF Typed
  <2>. QED
    BY <1>1, <1>2, <1>4, <2>1, StaleTyped, WorkedOn, RepliesTyped
<1>. QED
  BY <1>3, <1>4 DEF Typed

\* A confirmation that is carried out: the pending action, of the page's revision.
LEMMA ApplyCarriedOut ==
    ASSUME ITyped, Working({"apply"}), Current(calls[First])
    PROVE  /\ pending # None
           /\ calls[First].arg = pending
           /\ calls[First].arg.at = comp
           /\ calls[First].about.rev = comp.rev
<1>1. /\ calls[First].kind = "apply" /\ WellFormed(calls[First])
      /\ pending # None => pending.at = comp
  BY WorkedOn
<1>2. calls[First].arg \in Actions
  BY <1>1 DEF WellFormed, Edits
<1>3. pending # None
  BY <1>2, NoneAssumption DEF Current
<1>. QED
  BY <1>1, <1>3 DEF Current

LEMMA ApplyTyped == ITyped /\ Apply => ITyped'
<1>. SUFFICES ASSUME ITyped, Apply PROVE ITyped'
  OBVIOUS
<1> DEFINE c == calls[First]
<1>1. Working({"apply"})
  BY DEF Apply
<1>2. CASE ~Current(c)
  <2>1. WellFormed(With(c, Stale))
    BY <1>1, StaleTyped, WorkedOn, PlainAnswer
  <2>2. Replies(Stale, comp, pending) /\ reused' \in BOOLEAN
    BY <1>1, <1>2, WorkedOn DEF Apply, Answer
  <2>. QED
    BY <1>1, <2>1, <2>2, StaleTyped, WorkedOn, RepliesTyped
<1>3. CASE Current(c)
  <2> DEFINE w == IF c.arg.to = None THEN comp ELSE Confirmed(c.arg)
             r == Reply("ok", w)
  <2>1. /\ c.arg = pending /\ pending # None /\ pending.at = comp
        /\ pending.to # None => comp.rev < MaxRevision
    BY <1>1, <1>3, ApplyCarriedOut, WorkedOn
  <2>2. Replies(r, w, None) /\ reused' = reused
    BY <1>3 DEF Apply, Answer
  <2>3. w = comp \/ (w \in Revisions /\ w.rev > comp.rev)
    BY <2>1, ConfirmedTyped
  <2>4. w \in Workspaces
    BY <2>3, RevisionIsWorkspace DEF ITyped, Scalars
  <2>5. c.arg.to # None => w = [rev |-> c.arg.at.rev + 1, text |-> c.arg.to]
    BY <2>1 DEF Confirmed
  <2>. HIDE DEF w
  <2>6. r \in Answers /\ r.value = w
    BY <2>4 DEF Reply, Answers
  <2>. HIDE DEF r
  <2>7. c \in Calls /\ WellFormed(c) /\ c.kind = "apply"
    BY <1>1, WorkedOn
  <2>. HIDE DEF c
  <2>8. WellFormed(With(c, r))
    BY <2>1, <2>5, <2>6, <2>7, CallAnswered DEF WellFormed, Change
  <2>. USE DEF c
  <2>9. reused' \in BOOLEAN
    BY <1>1, <2>2, WorkedOn
  <2>. QED
    BY <1>1, <2>2, <2>3, <2>6, <2>8, <2>9, WorkedOn, RepliesTyped
<1>. QED
  BY <1>2, <1>3

LEMMA DismissTyped == ITyped /\ Dismiss => ITyped'
<1>. SUFFICES ASSUME ITyped, Dismiss PROVE ITyped'
  OBVIOUS
<1> DEFINE r == Reply("ok", None)
           a == IF Current(calls[First]) THEN None ELSE pending
<1>1. Working({"discard"})
  BY DEF Dismiss
<1>2. Replies(r, comp, a) /\ reused' = reused
  BY DEF Dismiss, Answer
<1>3. r \in Answers
  BY DEF Reply, Answers
<1>4. WellFormed(With(calls[First], r))
  BY <1>1, <1>3, WorkedOn, PlainAnswer
<1>. HIDE DEF r
<1>5. /\ a \in Actions \cup {None}
      /\ a # None => a.at = comp /\ (a.to # None => comp.rev < MaxRevision)
  BY <1>1, WorkedOn
<1>. HIDE DEF a
<1>6. reused' \in BOOLEAN
  BY <1>1, <1>2, WorkedOn
<1>. QED
  BY <1>1, <1>2, <1>3, <1>4, <1>5, <1>6, WorkedOn, RepliesTyped

LEMMA RaiseTyped == ITyped /\ Raise => ITyped'
<1>. SUFFICES ASSUME ITyped, Raise PROVE ITyped'
  OBVIOUS
<1>1. Working({"open", "validate", "format", "generate", "ask", "turn", "apply"})
  BY DEF Raise
<1>2. PICK is \in {"broken", "refused"} :
          calls' = [calls EXCEPT ![First].reply = Reply(is, None)]
  BY DEF Raise
<1> DEFINE r == Reply(is, None)
<1>3. r \in Answers /\ r.is # "ok"
  BY DEF Reply, Answers
<1>4. WellFormed(With(calls[First], r))
  BY <1>1, <1>3, WorkedOn, PlainAnswer
<1>5. calls' = [calls EXCEPT ![First].reply = r]
  BY <1>2
<1>. HIDE DEF r
<1>6. /\ comp' = comp /\ pending' = pending /\ reused' = reused
      /\ failures' \in 0..MaxFailures
  BY ConstantsAssumption DEF Raise, compilerVars, historyVars, ITyped, Scalars
<1>7. comp' = Nothing \/ comp' \in Revisions
  BY <1>6 DEF ITyped, Grounded
<1>8. /\ pending' \in Actions \cup {None}
      /\ pending' # None => /\ pending'.at = comp'
                            /\ pending'.to # None => comp'.rev < MaxRevision
  BY <1>1, <1>6, WorkedOn
<1>9. reused' \in BOOLEAN
  BY <1>1, <1>6, WorkedOn
<1>. QED
  BY <1>1, <1>3, <1>4, <1>5, <1>6, <1>7, <1>8, <1>9, WorkedOn, AnswerTyped
     DEF Raise, pageVars, historyVars

-----------------------------------------------------------------------------
(* The types are kept: the life of the worker.                             *)

LEMMA InitializedTyped == ITyped /\ Initialized => ITyped'
<1>. SUFFICES ASSUME ITyped, Initialized PROVE ITyped'
  OBVIOUS
<1> DEFINE o == [Observed(control, page) EXCEPT !.timer = FALSE]
           k == Asked(o, page.rev)
           f == Followed(k, page, phase, "ready")
<1>1. control \in Controllers /\ page \in Revisions /\ page.rev \in 0..MaxRevision
  BY ConstantsAssumption DEF ITyped, Scalars, Revisions
<1>2. /\ o \in Controllers /\ o.observed = page
      /\ o.inFlight = control.inFlight
  BY <1>1, ObservedTyped DEF Controllers
<1>. HIDE DEF o
<1>3. /\ k \in Controllers /\ k.observed = page
      /\ control.inFlight => k.inFlight
  BY <1>1, <1>2, AskedTyped
<1>. HIDE DEF k
<1>4. f \in Controllers /\ f.observed = page /\ f.inFlight = k.inFlight
  BY <1>1, <1>3, FollowedTyped
<1>5. Control(f, k.inFlight /\ ~control.inFlight, calls)
  BY DEF Initialized, k, o
<1>. HIDE DEF f
<1> DEFINE opens == f.inFlight /\ ~control.inFlight
<1>6. Control(f, opens, calls) /\ opens \in BOOLEAN
  BY <1>4, <1>5
<1>7. opens = (f.inFlight /\ ~control.inFlight)
  OBVIOUS
<1>. HIDE DEF opens
<1>8. worker' = "up" /\ worker = "booting" /\ runtime' = "ready"
  BY DEF Initialized
<1>. QED
  BY <1>1, <1>3, <1>4, <1>6, <1>7, <1>8, ControlTyped
     DEF Initialized, pageVars, compilerVars, historyVars

\* Every call in flight is rejected.
LEMMA RejectingTyped ==
    ASSUME ITyped, calls' = Rejected, worker' = "down",
           runtime' \in {"loading", "ready", "working", "failed"},
           runtime' \in {runtime, "failed"}, failures' \in 0..MaxFailures,
           page' = page, phase' = phase, loading' = loading, shown' = shown,
           artifacts' = artifacts, card' = card, control' = control,
           comp' = comp, pending' = pending, reused' = reused, late' = late
    PROVE  ITyped'
<1>0. IsQueue(calls) /\ NoRivals(calls)
  BY DEF ITyped
<1>1. /\ Len(calls') = Len(calls)
      /\ \A i \in 1..Len(calls) :
            /\ calls'[i].kind = calls[i].kind
            /\ calls'[i].arg = calls[i].arg
            /\ Ok(calls'[i]) => Ok(calls[i])
  BY <1>0, RejectedElements
<1>2. IsQueue(calls') /\ AllReplied(calls')
  BY <1>0, QueueRejected
<1>3. NoRivals(calls')
  BY <1>0, <1>1, NoRivalAmongSame
<1>4. Scalars'
  BY Zenon DEF ITyped, Scalars
<1>5. Grounded'
  BY DEF ITyped, Grounded
<1>6. OpeningKnown'
  BY <1>1 DEF ITyped, OpeningKnown
<1>7. control'.observed = Nothing => Fresh'
  BY <1>1 DEF ITyped, Fresh
<1>. QED
  BY <1>2, <1>3, <1>4, <1>5, <1>6, <1>7 DEF ITyped

LEMMA InitializationFailsTyped == ITyped /\ InitializationFails => ITyped'
<1>. SUFFICES ASSUME ITyped, InitializationFails PROVE ITyped'
  OBVIOUS
<1>1. failures' \in 0..MaxFailures
  BY ConstantsAssumption DEF InitializationFails, ITyped, Scalars
<1>. QED
  BY <1>1, RejectingTyped
     DEF InitializationFails, pageVars, compilerVars, historyVars

LEMMA WorkerFailsTyped == ITyped /\ WorkerFails => ITyped'
<1>. SUFFICES ASSUME ITyped, WorkerFails PROVE ITyped'
  OBVIOUS
<1>1. failures' \in 0..MaxFailures /\ runtime' = runtime
  BY ConstantsAssumption DEF WorkerFails, ITyped, Scalars
<1>2. runtime' \in {"loading", "ready", "working", "failed"}
  BY <1>1 DEF ITyped, Scalars
<1>. QED
  BY <1>1, <1>2, RejectingTyped DEF WorkerFails, pageVars, compilerVars, historyVars

\* Everything about the compiler begins anew.
LEMMA RecreatedTyped ==
    ASSUME ITyped, Recreated, runtime' \in {"loading", "failed"},
           failures' \in 0..MaxFailures
    PROVE  ITyped'
<1>1. calls' = <<>> /\ Len(calls') = 0
  BY EmptySeq DEF Recreated
<1>2. IsQueue(calls') /\ NoRivals(calls') /\ AllReplied(calls')
  BY <1>1, QueueEmpty
<1>3. control' \in Controllers /\ control' = NewController /\ comp' \in Workspaces
  BY NewControllerTyped, NothingIsWorkspace DEF Recreated
<1>4. /\ page' = page /\ phase' = phase /\ loading' = loading /\ shown' = shown
      /\ artifacts' = artifacts /\ card' = card /\ reused' = reused /\ late' = late
      /\ worker' = "booting" /\ comp' = Nothing /\ pending' = None
  BY DEF Recreated, pageVars, historyVars
<1>5. Scalars'
  BY <1>3, <1>4, Zenon DEF ITyped, Scalars
<1>6. Grounded' /\ OpeningKnown' /\ Fresh'
  BY <1>1, <1>3, <1>4, NewControllerTyped DEF Grounded, OpeningKnown, Fresh
<1>. QED
  BY <1>2, <1>5, <1>6 DEF ITyped

LEMMA RetryCompilerTyped == ITyped /\ RetryCompiler => ITyped'
<1>. SUFFICES ASSUME ITyped, RetryCompiler PROVE ITyped'
  OBVIOUS
<1>1. failures' \in 0..MaxFailures /\ runtime' \in {"loading", "failed"}
  BY DEF RetryCompiler, ITyped, Scalars
<1>. QED
  BY <1>1, RecreatedTyped DEF RetryCompiler

LEMMA ComeBackTyped == ITyped /\ ComeBack => ITyped'
<1>. SUFFICES ASSUME ITyped, ComeBack PROVE ITyped'
  OBVIOUS
<1>1. failures' \in 0..MaxFailures /\ runtime' \in {"loading", "failed"}
  BY ConstantsAssumption DEF ComeBack, ITyped, Scalars
<1>. QED
  BY <1>1, RecreatedTyped DEF ComeBack

-----------------------------------------------------------------------------
(* The types are kept: what the page does with an answer.                  *)

\* The first answer.
LEMMA AnsweredFirst ==
    ASSUME ITyped, NEW kinds, Answered(kinds)
    PROVE  /\ calls # <<>> /\ 1 \in 1..Len(calls)
           /\ calls[1] \in Calls /\ WellFormed(calls[1]) /\ Replied(calls[1])
           /\ calls[1].kind \in kinds
           /\ calls[1].about \in Revisions
           /\ calls[1].reply \in Answers
           /\ IsQueue(Tail(calls)) /\ NoRivals(Tail(calls))
           /\ Len(Tail(calls)) = Len(calls) - 1
           /\ Len(calls) \in Nat
           /\ \A i \in 1..Len(Tail(calls)) :
                 i + 1 \in 1..Len(calls) /\ Tail(calls)[i] = calls[i + 1]
<1>1. /\ calls # <<>> /\ Replied(calls[1]) /\ calls[1].kind \in kinds
      /\ IsQueue(calls) /\ NoRivals(calls)
  BY DEF Answered, Replied, ITyped
<1>2. /\ Len(calls) \in Nat /\ Len(calls) >= 1 /\ Len(Tail(calls)) = Len(calls) - 1
      /\ \A i \in 1..Len(calls) - 1 : Tail(calls)[i] = calls[i + 1]
  BY <1>1, QueueLength, TailElements
<1>3. 1 \in 1..Len(calls)
  BY <1>2
<1>4. calls[1] \in Calls /\ WellFormed(calls[1])
  BY <1>1, <1>3, QueueLength DEF IsQueue
<1>5. calls[1].about \in Revisions /\ calls[1].reply \in Answers
  BY <1>1, <1>4 DEF WellFormed, Calls, Replied
<1>6. IsQueue(Tail(calls)) /\ NoRivals(Tail(calls))
  BY <1>1, QueueShrinks, NoRivalInTail
<1>7. \A i \in 1..Len(Tail(calls)) :
          i + 1 \in 1..Len(calls) /\ Tail(calls)[i] = calls[i + 1]
  BY <1>2
<1>. QED
  BY <1>1, <1>2, <1>3, <1>4, <1>5, <1>6, <1>7

LEMMA ReceivingTyped ==
    ASSUME ITyped, NEW kinds, Answered(kinds), calls' = Tail(calls),
           page' \in Revisions, phase' \in {"restoring", "recovery", "open"},
           runtime' \in {"loading", "ready", "working", "failed"},
           shown' \in Reports, artifacts' \in Texts \cup {None},
           card' \in Actions \cup {None},
           control' \in Controllers, control'.inFlight = control.inFlight,
           control'.observed = Nothing \/ control'.observed \in Revisions,
           control'.observed = Nothing =>
               /\ control' = control
               /\ runtime' \in {runtime, "failed"}
               /\ card' = card,
           reused' \in BOOLEAN, late' \in BOOLEAN, loading' = loading,
           worker' = worker, comp' = comp, pending' = pending, failures' = failures
    PROVE  ITyped'
<1>1. /\ IsQueue(calls') /\ NoRivals(calls')
      /\ \A i \in 1..Len(calls') : i + 1 \in 1..Len(calls) /\ calls'[i] = calls[i + 1]
  BY AnsweredFirst
<1>2. worker' = "down" => AllReplied(calls')
  BY <1>1 DEF ITyped, AllReplied
<1>3. Scalars'
  BY Zenon DEF ITyped, Scalars
<1>4. Grounded'
  BY DEF ITyped, Grounded
<1>5. OpeningKnown'
  BY <1>1 DEF ITyped, OpeningKnown
<1>6. control'.observed = Nothing => Fresh'
  BY <1>1 DEF ITyped, Fresh
<1>. QED
  BY <1>1, <1>2, <1>3, <1>4, <1>5, <1>6 DEF ITyped

LEMMA ReceiveAnswerTyped == ITyped /\ ReceiveAnswer => ITyped'
<1>. SUFFICES ASSUME ITyped, ReceiveAnswer PROVE ITyped'
  OBVIOUS
<1>1. Answered({"ask"}) /\ calls' = Tail(calls)
  BY DEF ReceiveAnswer
<1>2. /\ page' = page /\ phase' = phase /\ shown' = shown /\ artifacts' = artifacts
      /\ card' = card /\ control' = control /\ reused' = reused /\ late' = late
  BY DEF ReceiveAnswer, pageVars, historyVars
<1>3. /\ page' \in Revisions /\ phase' \in {"restoring", "recovery", "open"}
      /\ shown' \in Reports /\ artifacts' \in Texts \cup {None}
      /\ card' \in Actions \cup {None} /\ control' \in Controllers
      /\ reused' \in BOOLEAN /\ late' \in BOOLEAN
  BY <1>2, Zenon DEF ITyped, Scalars
<1>4. control'.observed = Nothing \/ control'.observed \in Revisions
  BY <1>2 DEF ITyped, Grounded
<1>5. runtime' \in {runtime, "failed"}
  BY DEF ReceiveAnswer
<1>6. runtime' \in {"loading", "ready", "working", "failed"}
  BY <1>5 DEF ITyped, Scalars
<1>. QED
  BY <1>1, <1>2, <1>3, <1>4, <1>5, <1>6, ReceivingTyped
     DEF ReceiveAnswer, pageVars, compilerVars

LEMMA ReceiveDiscardTyped == ITyped /\ ReceiveDiscard => ITyped'
<1>. SUFFICES ASSUME ITyped, ReceiveDiscard PROVE ITyped'
  OBVIOUS
<1>1. Answered({"discard"}) /\ calls' = Tail(calls)
  BY DEF ReceiveDiscard
<1>2. /\ page' = page /\ phase' = phase /\ shown' = shown /\ artifacts' = artifacts
      /\ card' = card /\ control' = control /\ reused' = reused /\ late' = late
      /\ runtime' = runtime
  BY DEF ReceiveDiscard, pageVars, historyVars
<1>3. /\ page' \in Revisions /\ phase' \in {"restoring", "recovery", "open"}
      /\ shown' \in Reports /\ artifacts' \in Texts \cup {None}
      /\ card' \in Actions \cup {None} /\ control' \in Controllers
      /\ reused' \in BOOLEAN /\ late' \in BOOLEAN
      /\ runtime' \in {"loading", "ready", "working", "failed"}
  BY <1>2, Zenon DEF ITyped, Scalars
<1>4. control'.observed = Nothing \/ control'.observed \in Revisions
  BY <1>2 DEF ITyped, Grounded
<1>. QED
  BY <1>1, <1>2, <1>3, <1>4, ReceivingTyped DEF ReceiveDiscard, pageVars, compilerVars

LEMMA ReceiveTurnTyped == ITyped /\ ReceiveTurn => ITyped'
<1>. SUFFICES ASSUME ITyped, ReceiveTurn PROVE ITyped'
  OBVIOUS
<1>1. Answered({"turn"}) /\ calls' = Tail(calls)
  BY DEF ReceiveTurn
<1>2. /\ page' = page /\ phase' = phase /\ shown' = shown /\ artifacts' = artifacts
      /\ control' = control /\ reused' = reused /\ late' = late /\ runtime' = runtime
  BY DEF ReceiveTurn, historyVars
<1>3. /\ page' \in Revisions /\ phase' \in {"restoring", "recovery", "open"}
      /\ shown' \in Reports /\ artifacts' \in Texts \cup {None}
      /\ control' \in Controllers /\ reused' \in BOOLEAN /\ late' \in BOOLEAN
      /\ runtime' \in {"loading", "ready", "working", "failed"}
  BY <1>2, Zenon DEF ITyped, Scalars
<1>4. calls[1].kind = "turn" /\ WellFormed(calls[1]) /\ Replied(calls[1])
  BY <1>1, AnsweredFirst
<1>5. card' \in Actions \cup {None}
  BY <1>4 DEF ReceiveTurn, WellFormed, Ok, ITyped, Scalars
<1>6. control'.observed \in Revisions
  BY <1>1, <1>2, <1>4, AnsweredFirst, Observing DEF Edits
<1>. QED
  BY <1>1, <1>2, <1>3, <1>5, <1>6, NothingIsNoRevision, ReceivingTyped
     DEF ReceiveTurn, compilerVars

\* The controller after an answer that changes the runtime.
LEMMA ReturnsTyped ==
    ASSUME ITyped, NEW rt, Returns(rt), page' \in Revisions
    PROVE  /\ runtime' = rt /\ calls' = Tail(calls)
           /\ control' \in Controllers
           /\ control'.observed \in {page', control.observed}
           /\ control'.accepted = control.accepted
           /\ control'.inFlight = control.inFlight
<1>1. control \in Controllers
  BY DEF ITyped, Scalars
<1>. QED
  BY <1>1, FollowedTyped DEF Returns

\* The end of an operation that does not change the text.
OperationReported ==
    /\ page' = page /\ reused' = reused
    /\ shown' \in {shown} \cup
          (IF Latest THEN {Full(calls[1].about.text), Partial(calls[1].about.text)}
           ELSE {})
    /\ \/ artifacts' \in {None, artifacts}
       \/ Latest /\ artifacts' = calls[1].about.text

LEMMA OperationEnds ==
    ASSUME ReceiveOperation
    PROVE  \/ \E t \in Texts \ {page.text} :
                  Replaced([rev |-> page.rev + 1, text |-> t]) /\ page.rev < MaxRevision
           \/ OperationReported
BY DEF ReceiveOperation, OperationReported

LEMMA ReceiveOperationTyped == ITyped /\ ReceiveOperation => ITyped'
<1>. SUFFICES ASSUME ITyped, ReceiveOperation PROVE ITyped'
  OBVIOUS
<1>1. Answered(Operations)
  BY DEF ReceiveOperation
<1>2. calls[1].about \in Revisions /\ calls[1].kind \in Operations /\ 1 \in 1..Len(calls)
  BY <1>1, AnsweredFirst
<1>3. control.observed \in Revisions
  BY <1>2, Observing DEF Operations, Edits
<1>4. /\ page' \in Revisions
      /\ shown' \in Reports
      /\ artifacts' \in Texts \cup {None}
      /\ reused' \in BOOLEAN
  <2>1. CASE \E t \in Texts \ {page.text} :
                 Replaced([rev |-> page.rev + 1, text |-> t]) /\ page.rev < MaxRevision
    <3>1. PICK t \in Texts \ {page.text} :
              Replaced([rev |-> page.rev + 1, text |-> t]) /\ page.rev < MaxRevision
      BY <2>1
    <3>2. [rev |-> page.rev + 1, text |-> t] \in Revisions
      BY <3>1, ConstantsAssumption DEF ITyped, Scalars, Revisions
    <3>. QED
      BY <3>1, <3>2, ReplacedTyped
  <2>2. CASE OperationReported
    <3>1. reused' \in BOOLEAN
      BY <2>2, Zenon DEF OperationReported, ITyped, Scalars
    <3>2. page' \in Revisions /\ calls[1].about.text \in Texts
      BY <1>2, <2>2 DEF OperationReported, ITyped, Scalars, Revisions
    <3>3. shown' \in Reports /\ artifacts' \in Texts \cup {None}
      BY <2>2, <3>2, ReportsTyped DEF OperationReported, ITyped, Scalars
    <3>. QED
      BY <3>1, <3>2, <3>3
  <2>. QED
    BY <2>1, <2>2, OperationEnds
<1> DEFINE rt == IF calls[1].reply.is = "broken" THEN "failed" ELSE "ready"
<1>5. Returns(rt) /\ rt \in {"ready", "failed"}
  BY DEF ReceiveOperation
<1>. HIDE DEF rt
<1>6. /\ runtime' = rt /\ calls' = Tail(calls)
      /\ control' \in Controllers
      /\ control'.observed \in {page', control.observed}
      /\ control'.inFlight = control.inFlight
  BY <1>4, <1>5, ReturnsTyped
<1>7. control'.observed \in Revisions
  BY <1>3, <1>4, <1>6
<1>8. phase' \in {"restoring", "recovery", "open"} /\ card' \in Actions \cup {None}
  BY DEF ReceiveOperation, ITyped, Scalars
<1>9. late' \in BOOLEAN
  BY Zenon DEF ReceiveOperation, ITyped, Scalars
<1>10. runtime' \in {"loading", "ready", "working", "failed"}
  BY <1>5, <1>6
<1>. QED
  BY <1>1, <1>4, <1>6, <1>7, <1>8, <1>9, <1>10, NothingIsNoRevision, ReceivingTyped
     DEF ReceiveOperation, compilerVars

\* The three ends of a confirmation.
ApplyFails == calls[1].reply.is # "ok"
CompilationEnds ==
    /\ calls[1].reply.is = "ok" /\ calls[1].arg.to = None
    /\ artifacts' = calls[1].arg.at.text /\ shown' = Partial(None)
    /\ card' = None
    /\ late' = (late \/ page # calls[1].about)
    /\ UNCHANGED <<page, phase, loading, reused>>
    /\ Returns("ready")
ChangeEnds ==
    /\ calls[1].reply.is = "ok" /\ calls[1].arg.to # None
    /\ Replaced(calls[1].reply.value)
    /\ phase' = "open" /\ card' = None
    /\ control' = Followed(control, page', phase', runtime)
    /\ calls' = Tail(calls)
    /\ UNCHANGED <<loading, runtime, late>>

LEMMA ReceiveApplyCases ==
    ASSUME ReceiveApply
    PROVE  \/ /\ ApplyFails
              /\ calls' = Tail(calls)
              /\ UNCHANGED <<pageVars, runtime, control, reused, late>>
           \/ CompilationEnds
           \/ ChangeEnds
BY DEF ReceiveApply, ApplyFails, CompilationEnds, ChangeEnds

\* The workspace that the page takes over is one of its own kind.
LEMMA ChangeTyped ==
    ASSUME NEW c \in Calls, WellFormed(c), Change(c)
    PROVE  /\ c.reply.value \in Revisions
           /\ c.reply.value.rev = c.arg.at.rev + 1
           /\ c.arg.at.rev \in Nat
<1>1. c.arg \in Actions
  BY DEF WellFormed, Change, Edits
<1>2. /\ c.arg.at.rev \in 0..MaxRevision /\ c.arg.to \in Texts
      /\ c.arg.at.rev < MaxRevision
  BY <1>1 DEF Actions, Workspaces, Change, WellFormed
<1>3. c.reply.value = [rev |-> c.arg.at.rev + 1, text |-> c.arg.to]
  BY DEF WellFormed
<1>. QED
  BY <1>2, <1>3, ConstantsAssumption DEF Revisions

LEMMA ReceiveApplyTyped == ITyped /\ ReceiveApply => ITyped'
<1>. SUFFICES ASSUME ITyped, ReceiveApply PROVE ITyped'
  OBVIOUS
<1>1. Answered({"apply"})
  BY DEF ReceiveApply
<1>2. /\ calls[1] \in Calls /\ WellFormed(calls[1]) /\ Replied(calls[1])
      /\ calls[1].kind = "apply" /\ 1 \in 1..Len(calls)
  BY <1>1, AnsweredFirst
<1>3. worker' = worker /\ comp' = comp /\ pending' = pending /\ failures' = failures
  BY DEF ReceiveApply, compilerVars
<1>4. control \in Controllers /\ page \in Revisions
  BY DEF ITyped, Scalars
<1>5. CASE /\ calls' = Tail(calls)
           /\ UNCHANGED <<pageVars, runtime, control, reused, late>>
  <2>1. /\ page' = page /\ phase' = phase /\ shown' = shown /\ artifacts' = artifacts
        /\ card' = card /\ control' = control /\ reused' = reused /\ late' = late
        /\ runtime' = runtime /\ loading' = loading
    BY <1>5 DEF pageVars
  <2>2. /\ page' \in Revisions /\ phase' \in {"restoring", "recovery", "open"}
        /\ shown' \in Reports /\ artifacts' \in Texts \cup {None}
        /\ card' \in Actions \cup {None} /\ control' \in Controllers
        /\ reused' \in BOOLEAN /\ late' \in BOOLEAN
        /\ runtime' \in {"loading", "ready", "working", "failed"}
    BY <2>1, Zenon DEF ITyped, Scalars
  <2>3. control'.observed = Nothing \/ control'.observed \in Revisions
    BY <2>1 DEF ITyped, Grounded
  <2>. QED
    BY <1>1, <1>3, <1>5, <2>1, <2>2, <2>3, ReceivingTyped
<1>6. CASE CompilationEnds
  <2>1. Ok(calls[1])
    BY <1>2, <1>6 DEF CompilationEnds, Ok
  <2>2. control.observed \in Revisions
    BY <1>2, <2>1, Observing
  <2>3. /\ page' \in Revisions /\ phase' \in {"restoring", "recovery", "open"}
        /\ card' \in Actions \cup {None} /\ loading' = loading
    BY <1>6 DEF CompilationEnds, ITyped, Scalars
  <2>4. reused' \in BOOLEAN /\ late' \in BOOLEAN
    BY <1>6, Zenon DEF CompilationEnds, ITyped, Scalars
  <2>5. calls[1].arg \in Actions
    BY <1>2 DEF WellFormed, Edits
  <2>6. shown' \in Reports /\ artifacts' \in Texts \cup {None}
    BY <1>6, <2>5, ReportsTyped DEF CompilationEnds, Actions, Workspaces
  <2>7. /\ runtime' = "ready" /\ calls' = Tail(calls)
        /\ control' \in Controllers
        /\ control'.observed \in {page', control.observed}
        /\ control'.inFlight = control.inFlight
    BY <1>6, <2>3, ReturnsTyped DEF CompilationEnds
  <2>8. control'.observed \in Revisions
    BY <2>2, <2>3, <2>7
  <2>. QED
    BY <1>1, <1>3, <2>3, <2>4, <2>6, <2>7, <2>8, NothingIsNoRevision, ReceivingTyped
<1>7. CASE ChangeEnds
  <2>1. Ok(calls[1]) /\ Change(calls[1])
    BY <1>2, <1>7 DEF ChangeEnds, Ok, Change
  <2>2. control.observed \in Revisions
    BY <1>2, <2>1, Observing
  <2>3. calls[1].reply.value \in Revisions
    BY <1>2, <2>1, ChangeTyped
  <2>4. /\ page' \in Revisions /\ shown' \in Reports
        /\ artifacts' \in Texts \cup {None} /\ reused' \in BOOLEAN
    BY <1>7, <2>3, ReplacedTyped DEF ChangeEnds
  <2>5. late' \in BOOLEAN
    BY <1>7, Zenon DEF ChangeEnds, ITyped, Scalars
  <2>6. /\ phase' \in {"restoring", "recovery", "open"} /\ card' \in Actions \cup {None}
        /\ runtime' \in {"loading", "ready", "working", "failed"} /\ loading' = loading
    BY <1>7 DEF ChangeEnds, ITyped, Scalars
  <2>7. /\ control' \in Controllers /\ control'.inFlight = control.inFlight
        /\ control'.observed \in {page', control.observed}
    BY <1>4, <1>7, <2>4, FollowedTyped DEF ChangeEnds
  <2>8. control'.observed \in Revisions /\ calls' = Tail(calls)
    BY <1>7, <2>2, <2>4, <2>7 DEF ChangeEnds
  <2>. QED
    BY <1>1, <1>3, <2>4, <2>5, <2>6, <2>7, <2>8, NothingIsNoRevision, ReceivingTyped
<1>. QED
  BY <1>5, <1>6, <1>7, ReceiveApplyCases

\* The controller once the opening of revision rev has ended.
Ended(rev, is, latest) ==
    [control EXCEPT
        !.inFlight = FALSE,
        !.accepted = IF is = "ok" THEN rev ELSE @,
        !.refused = IF control.observed.rev # rev THEN @
                    ELSE CASE is = "refused" -> rev
                           [] is = "stale"   -> @
                           [] is = "broken"  -> 0
                           [] is = "ok"      -> IF latest THEN 0 ELSE @,
        !.waiting = {}]

LEMMA EndedTyped ==
    ASSUME control \in Controllers, NEW rev \in 0..MaxRevision,
           NEW is \in {"ok", "stale", "refused", "broken"}, NEW latest \in BOOLEAN
    PROVE  /\ Ended(rev, is, latest) \in Controllers
           /\ Ended(rev, is, latest).observed = control.observed
           /\ Ended(rev, is, latest).inFlight = FALSE
           /\ Ended(rev, is, latest).accepted = IF is = "ok" THEN rev
                                                ELSE control.accepted
<1> DEFINE f == IF control.observed.rev # rev THEN control.refused
                ELSE CASE is = "refused" -> rev
                       [] is = "stale"   -> control.refused
                       [] is = "broken"  -> 0
                       [] is = "ok"      -> IF latest THEN 0 ELSE control.refused
<1>1. f \in 0..MaxRevision
  BY ConstantsAssumption DEF Controllers
<1>2. Ended(rev, is, latest) =
          [control EXCEPT !.inFlight = FALSE,
                          !.accepted = IF is = "ok" THEN rev ELSE control.accepted,
                          !.refused = f, !.waiting = {}]
  BY DEF Ended, Controllers
<1>. HIDE DEF f
<1>. QED
  BY <1>1, <1>2 DEF Controllers

\* What ReceiveOpening makes of the controller and the calls.
LEMMA OpeningReceived ==
    ASSUME ITyped, ReceiveOpening
    PROVE  /\ Answered({"open"})
           /\ control' \in Controllers
           /\ control'.observed = control.observed
           /\ control'.accepted = IF calls[1].reply.is = "ok" THEN calls[1].about.rev
                                  ELSE control.accepted
           /\ calls' = IF control'.inFlight
                       THEN Append(Tail(calls), Sent(OpenCall(control.observed)))
                       ELSE Tail(calls)
<1>1. Answered({"open"})
  BY DEF ReceiveOpening
<1>2. /\ calls[1].about \in Revisions /\ calls[1].reply \in Answers
      /\ calls[1].kind = "open" /\ 1 \in 1..Len(calls)
  BY <1>1, AnsweredFirst
<1>3. control \in Controllers /\ control.observed \in Revisions
  BY <1>2, Observing DEF ITyped, Scalars, Edits
<1>4. /\ calls[1].about.rev \in 0..MaxRevision
      /\ calls[1].reply.is \in {"ok", "stale", "refused", "broken"}
      /\ control.observed.rev \in 0..MaxRevision /\ Latest \in BOOLEAN
  BY <1>2, <1>3, ConstantsAssumption DEF Revisions, Answers, Latest
<1> DEFINE free == Ended(calls[1].about.rev, calls[1].reply.is, Latest)
           k == IF control.observed.rev \in control.waiting
                THEN Asked(free, control.observed.rev) ELSE free
<1>5. /\ free \in Controllers /\ free.observed = control.observed
      /\ free.accepted = IF calls[1].reply.is = "ok" THEN calls[1].about.rev
                         ELSE control.accepted
  BY <1>3, <1>4, EndedTyped
<1>6. PICK w \in {{}, {control.observed.rev} \cap control.waiting} :
          Control([k EXCEPT !.waiting = IF k.inFlight THEN w ELSE {}],
                  k.inFlight, Tail(calls))
  BY Zenon DEF ReceiveOpening, Ended
<1>. HIDE DEF free
<1>7. k \in Controllers /\ k.observed = control.observed /\ k.accepted = free.accepted
  BY <1>4, <1>5, AskedTyped
<1>. HIDE DEF k
<1>8. w \subseteq 0..MaxRevision
  BY <1>3, <1>6 DEF Controllers
<1> DEFINE l == [k EXCEPT !.waiting = IF k.inFlight THEN w ELSE {}]
<1>9. /\ l \in Controllers /\ l.observed = k.observed /\ l.accepted = k.accepted
      /\ l.inFlight = k.inFlight
  BY <1>7, <1>8 DEF Controllers
<1>10. Control(l, k.inFlight, Tail(calls))
  BY <1>6
<1>. HIDE DEF l
<1>. QED
  BY <1>1, <1>5, <1>7, <1>9, <1>10 DEF Control, OpenCall

LEMMA ReceiveOpeningTyped == ITyped /\ ReceiveOpening => ITyped'
<1>. SUFFICES ASSUME ITyped, ReceiveOpening PROVE ITyped'
  OBVIOUS
<1>1. /\ Answered({"open"})
      /\ control' \in Controllers
      /\ control'.observed = control.observed
      /\ calls' = IF control'.inFlight
                  THEN Append(Tail(calls), Sent(OpenCall(control.observed)))
                  ELSE Tail(calls)
  BY OpeningReceived
<1>2. /\ IsQueue(Tail(calls)) /\ NoRivals(Tail(calls))
      /\ calls[1].about \in Revisions
      /\ calls[1].kind = "open" /\ 1 \in 1..Len(calls)
      /\ \A i \in 1..Len(Tail(calls)) :
            i + 1 \in 1..Len(calls) /\ Tail(calls)[i] = calls[i + 1]
  BY <1>1, AnsweredFirst
<1>3. control.observed \in Revisions
  BY <1>2, Observing DEF Edits
<1>4. \A i \in 1..Len(Tail(calls)) : Tail(calls)[i].kind # "open"
  <2>1. IsQueue(calls) /\ NoRivals(calls) /\ calls # <<>>
    BY <1>1 DEF ITyped, Answered
  <2>2. \A i \in 1..Len(Tail(calls)) : ~Rivals(calls[1], Tail(calls)[i])
    BY <2>1, NoRivalInTail
  <2>. QED
    BY <1>2, <2>2 DEF Rivals
<1>5. worker = "down" => AllReplied(Tail(calls))
  BY <1>2 DEF ITyped, AllReplied
<1>6. worker' = worker /\ comp' = comp /\ pending' = pending /\ failures' = failures
  BY DEF ReceiveOpening, compilerVars
<1>7. IsQueue(calls') /\ NoRivals(calls') /\ (worker' = "down" => AllReplied(calls'))
  BY <1>1, <1>2, <1>3, <1>4, <1>5, <1>6, OpeningSent
<1>8. OpeningKnown'
  BY <1>1, <1>4 DEF OpeningKnown
<1>9. Grounded'
  BY <1>1, <1>6 DEF ITyped, Grounded
<1>10. Scalars'
  <2>1. shown' \in Reports
    BY <1>2, ReportsTyped DEF ReceiveOpening, ITyped, Scalars, Revisions
  <2>2. runtime' \in {"loading", "ready", "working", "failed"}
    BY DEF ReceiveOpening, ITyped, Scalars
  <2>3. /\ page' = page /\ phase' = phase /\ loading' = loading
        /\ artifacts' = artifacts /\ card' = card /\ reused' = reused /\ late' = late
    BY DEF ReceiveOpening, historyVars
  <2>. QED
    BY <1>1, <1>6, <2>1, <2>2, <2>3, Zenon DEF ITyped, Scalars
<1>11. control'.observed # Nothing
  BY <1>1, <1>3, NothingIsNoRevision
<1>. QED
  BY <1>7, <1>8, <1>9, <1>10, <1>11 DEF ITyped

LEMMA StutterTyped == ITyped /\ UNCHANGED vars => ITyped'
<1>. SUFFICES ASSUME ITyped, UNCHANGED vars PROVE ITyped'
  OBVIOUS
<1>1. /\ page' = page /\ phase' = phase /\ loading' = loading /\ shown' = shown
      /\ artifacts' = artifacts /\ card' = card /\ control' = control
      /\ reused' = reused /\ late' = late /\ runtime' = runtime /\ worker' = worker
      /\ calls' = calls /\ comp' = comp /\ pending' = pending /\ failures' = failures
  BY DEF vars, pageVars, compilerVars, historyVars
<1>2. Scalars'
  <2>1. loading' \in BOOLEAN /\ reused' \in BOOLEAN /\ late' \in BOOLEAN
    BY <1>1, Zenon DEF ITyped, Scalars
  <2>2. /\ page' \in Revisions /\ control' \in Controllers /\ comp' \in Workspaces
        /\ card' \in Actions \cup {None} /\ pending' \in Actions \cup {None}
        /\ shown' \in Reports /\ artifacts' \in Texts \cup {None}
    BY <1>1 DEF ITyped, Scalars
  <2>3. /\ phase' \in {"restoring", "recovery", "open"}
        /\ runtime' \in {"loading", "ready", "working", "failed"}
        /\ worker' \in {"booting", "up", "down"}
        /\ failures' \in 0..MaxFailures
    BY <1>1 DEF ITyped, Scalars
  <2>. QED
    BY <2>1, <2>2, <2>3, Zenon DEF Scalars
<1>3. /\ IsQueue(calls') /\ NoRivals(calls')
      /\ worker' = "down" => AllReplied(calls')
  <2>1. /\ IsQueue(calls) /\ NoRivals(calls)
        /\ worker = "down" => AllReplied(calls)
    BY DEF ITyped
  <2>. QED
    BY <1>1, <2>1
<1>4. Grounded' /\ OpeningKnown'
  BY <1>1 DEF ITyped, Grounded, OpeningKnown
<1>5. control'.observed = Nothing => Fresh'
  BY <1>1 DEF ITyped, Fresh
<1>. QED
  BY <1>2, <1>3, <1>4, <1>5 DEF ITyped

LEMMA TypedStep == ITyped /\ [Next]_vars => ITyped'
BY EditTyped, OperateTyped, AskTyped, EnsureRevisionTyped, TurnTyped, AcceptTyped,
   DiscardTyped, RetryLanguageTyped, RetryCompilerTyped, ReceiveOpeningTyped,
   ReceiveOperationTyped, ReceiveAnswerTyped, ReceiveTurnTyped, ReceiveApplyTyped,
   ReceiveDiscardTyped, OpenTyped, CompileTyped, QuestionTyped, PreviewTyped,
   TypedTyped, ApplyTyped, DismissTyped, RaiseTyped, TimerFiresTyped,
   InitializedTyped, RestoreTyped, AdoptTyped, InitializationFailsTyped,
   WorkerFailsTyped, ComeBackTyped, StutterTyped
   DEF Next, User, Page, Compiler

\* Whatever the worker does with the calls and the user with the page, and however
\* many calls are in flight, every variable keeps its type, and of openings and of
\* operations there is one at a time (BrowserLanguageServiceController.ts, inFlight;
\* App.tsx, operationPendingRef).
THEOREM TypeCorrect == Spec => []TypeOK
<1>1. Spec => []ITyped
  BY InitTyped, TypedStep, PTL DEF Spec
<1>. QED
  BY <1>1, ITypedImpliesTypeOK, PTL

-----------------------------------------------------------------------------
(* The order of calls and revisions.                                       *)

\* Workspace u is w, or of an earlier revision.
UpTo(u, w) == u.rev < w.rev \/ u = w

\* One of the first n calls of q is a change that makes the text w, and the page
\* has not taken it over yet.
Ahead(w, q, n) == \E j \in 1..n : Change(q[j]) /\ q[j].reply.value = w

\* A call on the assistant's card from before anything was opened in a compiler
\* whose workspace is w.
Early(q, i, w) ==
    /\ w = Nothing
    /\ ~Replied(q[i])
    /\ \A j \in 1..i : q[j].kind \in Edits

\* A card was accepted over another text of the revision it was made from.
Bad(c) == c.about.rev = c.arg.at.rev /\ c.about # c.arg.at

\* That such a call comes too late: the compiler, at w, does not have the
\* workspace it was made from, and no call before it can bring it there.
Hopeless(q, i, w) ==
    /\ w # q[i].arg.at
    /\ \A j \in 1..i - 1 :
          ~Replied(q[j]) =>
             /\ q[j].kind \in {"open", "validate"} => q[j].about # q[i].arg.at
             /\ q[j].kind = "apply" => q[j].arg = q[i].arg

\* What holds of the i-th call in queue q, when the page is p, the card cd and
\* the compiler's workspace w.
InOrder(q, i, p, cd, w) ==
    LET c == q[i] IN
    /\ c.kind \notin Edits => UpTo(c.about, p)
    /\ c.kind = "apply" /\ (~Replied(c) \/ Ok(c)) => UpTo(c.about, p) \/ Early(q, i, w)
    /\ c.kind = "apply" /\ Ok(c) => c.about = c.arg.at
    /\ c.kind = "turn" /\ Ok(c) =>
          UpTo(c.reply.value.at, p) \/ Ahead(c.reply.value.at, q, i - 1)
    /\ c.kind = "apply" /\ ~Replied(c) /\ Bad(c) => Hopeless(q, i, w)
    /\ c.kind = "apply" /\ cd # None /\ ~UpTo(cd.at, p) => c.arg = cd
    /\ c.kind = "open" /\ Ok(c) => UpTo(c.about, w)
    /\ c.kind = "ask" /\ c.about.rev = p.rev =>
          UpTo(c.about, w) /\ (Ok(c) => c.reply.value = c.about.text)

CallsInOrder(q, p, cd, w) == \A i \in 1..Len(q) : InOrder(q, i, p, cd, w)

\* The compiler has a workspace of the page, or one that the page will hear of.
Heard(q, p, w) == UpTo(w, p) \/ Ahead(w, q, Len(q))

\* What the controller observed is the page's or older, and so is what it knows
\* to be open in the compiler.
Followers(k, p, w) ==
    /\ k.observed = Nothing \/ UpTo(k.observed, p)
    /\ k.accepted <= p.rev
    /\ k.accepted = p.rev => UpTo(p, w)

Ordered ==
    /\ CallsInOrder(calls, page, card, comp)
    /\ Heard(calls, page, comp)
    /\ Followers(control, page, comp)

LEMMA UpToTransitive ==
    ASSUME NEW u \in Workspaces, NEW v \in Workspaces, NEW w \in Workspaces,
           UpTo(u, v), UpTo(v, w)
    PROVE  UpTo(u, w)
BY ConstantsAssumption DEF UpTo, Workspaces

\* The calls stay in order when the page moves on.
LEMMA PageMovesOn ==
    ASSUME NEW q, IsQueue(q), NEW p \in Revisions, NEW p2 \in Revisions, UpTo(p, p2),
           NEW cd \in Actions \cup {None}, NEW w,
           CallsInOrder(q, p, cd, w)
    PROVE  CallsInOrder(q, p2, cd, w)
<1>1. \A u \in Workspaces : UpTo(u, p) => UpTo(u, p2)
  BY RevisionIsWorkspace, UpToTransitive
<1>2. \A i \in 1..Len(q) : q[i] \in Calls /\ WellFormed(q[i])
  BY QueueLength DEF IsQueue
<1>3. \A i \in 1..Len(q) : /\ q[i].about \in Workspaces
                           /\ q[i].kind = "turn" /\ Ok(q[i]) => q[i].reply.value.at \in Workspaces
  BY <1>2, RevisionIsWorkspace DEF WellFormed, Actions
<1>4. cd # None => cd.at \in Workspaces
  BY DEF Actions
<1>5. \A u \in Workspaces : UpTo(u, p) /\ u.rev = p2.rev => u.rev = p.rev
  BY ConstantsAssumption DEF UpTo, Workspaces, Revisions
<1>6. ASSUME NEW i \in 1..Len(q) PROVE InOrder(q, i, p2, cd, w)
  <2>1. InOrder(q, i, p, cd, w)
    BY DEF CallsInOrder
  <2>2. q[i].kind = "ask" /\ q[i].about.rev = p2.rev => q[i].about.rev = p.rev
    BY <1>3, <1>5, <2>1 DEF InOrder, Edits
  <2>. QED
    BY <1>1, <1>3, <1>4, <2>1, <2>2 DEF InOrder
<1>. QED
  BY <1>6 DEF CallsInOrder

\* The calls stay in order when the card is discarded or replaced by one of the
\* page's revision, or an earlier one.
LEMMA CardChanges ==
    ASSUME NEW q, NEW p, NEW cd, NEW w, NEW cd2, CallsInOrder(q, p, cd, w),
           cd2 \in {cd, None} \/ UpTo(cd2.at, p)
    PROVE  CallsInOrder(q, p, cd2, w)
BY DEF CallsInOrder, InOrder

\* The calls stay in order when one is sent.
LEMMA SendingInOrder ==
    ASSUME NEW q, IsQueue(q), NEW c \in Calls, NEW p, NEW cd, NEW w,
           CallsInOrder(q, p, cd, w), InOrder(Append(q, c), Len(q) + 1, p, cd, w)
    PROVE  CallsInOrder(Append(q, c), p, cd, w)
<1> DEFINE r == Append(q, c)
<1>1. Len(q) \in Nat
  BY QueueLength
<1>2. Len(r) = Len(q) + 1 /\ \A i \in 1..Len(q) : r[i] = q[i]
  BY AppendElements
<1>. HIDE DEF r
<1>3. ASSUME NEW i \in 1..Len(q) PROVE InOrder(r, i, p, cd, w)
  <2>1. r[i] = q[i] /\ \A j \in 1..i : r[j] = q[j] /\ j \in 1..Len(q)
    BY <1>1, <1>2
  <2>2. i \in Nat /\ \A j \in 1..i - 1 : j \in 1..i
    BY <1>1
  <2>3. InOrder(q, i, p, cd, w)
    BY DEF CallsInOrder
  <2>4. \A u : Ahead(u, q, i - 1) => Ahead(u, r, i - 1)
    BY <2>1, <2>2 DEF Ahead
  <2>5. Early(q, i, w) => Early(r, i, w)
    BY <2>1 DEF Early
  <2>6. Hopeless(q, i, w) => Hopeless(r, i, w)
    BY <2>1, <2>2 DEF Hopeless
  <2>. QED
    BY <2>1, <2>3, <2>4, <2>5, <2>6 DEF InOrder
<1>4. \A i \in 1..Len(r) : i \in 1..Len(q) \/ i = Len(q) + 1
  BY <1>1, <1>2
<1>5. InOrder(r, Len(q) + 1, p, cd, w)
  BY DEF r
<1>6. CallsInOrder(r, p, cd, w)
  BY <1>3, <1>4, <1>5 DEF CallsInOrder
<1>. QED
  BY <1>6 DEF r

LEMMA SendingHeard ==
    ASSUME NEW q, IsQueue(q), NEW c \in Calls, NEW p, NEW w, Heard(q, p, w)
    PROVE  Heard(Append(q, c), p, w)
<1>1. Len(q) \in Nat
  BY QueueLength
<1>2. /\ Len(Append(q, c)) = Len(q) + 1
      /\ \A i \in 1..Len(q) : Append(q, c)[i] = q[i]
  BY AppendElements
<1>3. Ahead(w, q, Len(q)) => Ahead(w, Append(q, c), Len(q) + 1)
  BY <1>1, <1>2 DEF Ahead
<1>. QED
  BY <1>2, <1>3 DEF Heard

\* What is ahead in a queue is ahead in its tail, unless its first call is it.
LEMMA AheadInTail ==
    ASSUME NEW q, IsQueue(q), q # <<>>, NEW u, NEW n \in 0..Len(q), Ahead(u, q, n)
    PROVE  \/ Change(q[1]) /\ q[1].reply.value = u
           \/ Ahead(u, Tail(q), n - 1)
<1>1. PICK j \in 1..n : Change(q[j]) /\ q[j].reply.value = u
  BY DEF Ahead
<1>2. /\ Len(q) \in Nat
      /\ \A i \in 1..Len(q) - 1 : Tail(q)[i] = q[i + 1]
  BY QueueLength, TailElements
<1>3. CASE j = 1
  BY <1>1, <1>3
<1>4. CASE j # 1
  <2>1. j - 1 \in 1..n - 1 /\ j - 1 \in 1..Len(q) - 1 /\ (j - 1) + 1 = j
    BY <1>2, <1>4
  <2>2. Tail(q)[j - 1] = q[j]
    BY <1>2, <2>1
  <2>. QED
    BY <1>1, <2>1, <2>2 DEF Ahead
<1>. QED
  BY <1>3, <1>4

\* When the first call leaves, the page is as before, or has moved on; and when
\* that call is a change, to what it made.
PageAfter(c, p, p2) ==
    \/ ~Change(c) /\ p2 = p
    \/ p.rev < p2.rev /\ (Change(c) => c.reply.value = p2)

LEMMA ReceivingInOrder ==
    ASSUME NEW q, IsQueue(q), q # <<>>, NEW p \in Revisions, NEW p2 \in Revisions,
           PageAfter(q[1], p, p2), NEW cd \in Actions \cup {None}, NEW w,
           CallsInOrder(q, p, cd, w)
    PROVE  CallsInOrder(Tail(q), p2, cd, w)
<1> DEFINE r == Tail(q)
<1>0. UpTo(p, p2)
  BY DEF PageAfter, UpTo
<1>1. CallsInOrder(q, p2, cd, w)
  BY <1>0, PageMovesOn
<1>2. /\ Len(q) \in Nat /\ Len(r) = Len(q) - 1
      /\ \A i \in 1..Len(q) - 1 : r[i] = q[i + 1]
  BY QueueLength, TailElements
<1>3. ASSUME NEW i \in 1..Len(r) PROVE InOrder(r, i, p2, cd, w)
  <2>1. /\ i \in Nat /\ i + 1 \in 1..Len(q) /\ r[i] = q[i + 1]
        /\ \A j \in 1..i : j + 1 \in 1..i + 1 /\ r[j] = q[j + 1]
        /\ (i + 1) - 1 = i
    BY <1>2
  <2>2. InOrder(q, i + 1, p2, cd, w)
    BY <1>1, <2>1 DEF CallsInOrder
  <2>3. \A u : Ahead(u, q, (i + 1) - 1) => UpTo(u, p2) \/ Ahead(u, r, i - 1)
    <3>. TAKE u
    <3>. HAVE Ahead(u, q, (i + 1) - 1)
    <3>1. CASE Change(q[1]) /\ q[1].reply.value = u
      BY <3>1 DEF PageAfter, UpTo
    <3>2. CASE Ahead(u, r, i - 1)
      BY <3>2
    <3>3. i \in 0..Len(q) /\ Ahead(u, q, i)
      BY <1>2, <2>1
    <3>. QED
      BY <3>1, <3>2, <3>3, AheadInTail
  <2>4. Early(q, i + 1, w) => Early(r, i, w)
    BY <2>1 DEF Early
  <2>5. Hopeless(q, i + 1, w) => Hopeless(r, i, w)
    <3>1. \A j \in 1..i - 1 : j \in 1..i /\ j + 1 \in 1..(i + 1) - 1
      BY <2>1
    <3>. QED
      BY <2>1, <3>1 DEF Hopeless
  <2>. HIDE DEF r
  <2>. QED
    BY <2>1, <2>2, <2>3, <2>4, <2>5 DEF InOrder
<1>. QED
  BY <1>3 DEF CallsInOrder

LEMMA ReceivingHeard ==
    ASSUME NEW q, IsQueue(q), q # <<>>, NEW p \in Revisions, NEW p2 \in Revisions,
           PageAfter(q[1], p, p2), NEW w \in Workspaces, Heard(q, p, w)
    PROVE  Heard(Tail(q), p2, w)
<1>1. UpTo(p, p2)
  BY DEF PageAfter, UpTo
<1>2. UpTo(w, p) => UpTo(w, p2)
  BY <1>1, RevisionIsWorkspace, UpToTransitive
<1>3. Len(q) \in 0..Len(q) /\ Len(Tail(q)) = Len(q) - 1
  BY QueueLength, TailElements
<1>4. Ahead(w, q, Len(q)) =>
          \/ Change(q[1]) /\ q[1].reply.value = w
          \/ Ahead(w, Tail(q), Len(q) - 1)
  BY <1>3, AheadInTail
<1>5. Change(q[1]) /\ q[1].reply.value = w => UpTo(w, p2)
  BY DEF PageAfter, UpTo
<1>. QED
  BY <1>2, <1>3, <1>4, <1>5 DEF Heard

-----------------------------------------------------------------------------
(* The order is kept: what the page sends.                                 *)

\* A call that has just been appended.
LEMMA SentInOrder ==
    ASSUME NEW q, IsQueue(q), NEW c \in Calls, ~Ok(c), NEW p, NEW cd, NEW w,
           CallsInOrder(q, p, cd, w), UpTo(c.about, p),
           c.kind = "apply" /\ cd # None => c.arg = cd,
           c.kind = "apply" /\ ~Replied(c) /\ Bad(c) =>
               /\ w # c.arg.at
               /\ \A j \in 1..Len(q) :
                     /\ q[j].kind \in {"open", "validate"} => q[j].about # c.arg.at
                     /\ q[j].kind = "apply" => q[j].arg = c.arg,
           c.kind = "ask" /\ c.about.rev = p.rev => UpTo(c.about, w)
    PROVE  CallsInOrder(Append(q, c), p, cd, w)
<1> DEFINE r == Append(q, c)
           n == Len(q) + 1
<1>1. Len(q) \in Nat
  BY QueueLength
<1>2. r[n] = c /\ \A i \in 1..Len(q) : r[i] = q[i]
  BY AppendElements
<1>3. n - 1 = Len(q)
  BY <1>1
<1>. HIDE DEF r, n
<1>4. c.kind = "apply" /\ ~Replied(c) /\ Bad(c) => Hopeless(r, n, w)
  BY <1>2, <1>3 DEF Hopeless
<1>5. InOrder(r, n, p, cd, w)
  BY <1>2, <1>4 DEF InOrder
<1>. QED
  BY <1>5, SendingInOrder DEF r, n

\* A card of another text of the page's revision is that of every confirmation in
\* flight, and none of the calls brings the compiler to that text.
LEMMA BadCard ==
    ASSUME ITyped, Ordered, card # None, card.at.rev = page.rev, card.at # page
    PROVE  /\ comp # card.at
           /\ \A j \in 1..Len(calls) :
                 /\ calls[j].kind \in {"open", "validate"} => calls[j].about # card.at
                 /\ calls[j].kind = "apply" => calls[j].arg = card
<1>1. page.rev \in Nat
  BY ConstantsAssumption DEF ITyped, Scalars, Revisions
<1>2. ~UpTo(card.at, page)
  BY <1>1 DEF UpTo
<1>3. \A j \in 1..Len(calls) :
          /\ calls[j].kind \in {"open", "validate"} => calls[j].about # card.at
          /\ calls[j].kind = "apply" => calls[j].arg = card
  BY <1>2 DEF Ordered, CallsInOrder, InOrder, Edits
<1>4. ASSUME comp = card.at PROVE FALSE
  <2>1. PICK j \in 1..Len(calls) : Change(calls[j]) /\ calls[j].reply.value = card.at
    BY <1>2, <1>4 DEF Ordered, Heard, Ahead
  <2>2. calls[j] \in Calls /\ WellFormed(calls[j])
    BY QueueLength DEF ITyped, IsQueue
  <2>3. calls[j].arg = card
    BY <1>3, <2>1 DEF Change
  <2>. QED
    BY <2>1, <2>2, <2>3, ChangeTyped
<1>. QED
  BY <1>3, <1>4

LEMMA SendingOrdered ==
    ASSUME ITyped, Ordered, NEW c \in Calls, c.reply = None, WellFormed(c), Send(c),
           UpTo(c.about, page), page' = page, comp' = comp, control' = control,
           card' \in {card, None},
           c.kind = "apply" =>
               card' = card /\ card # None /\ c.arg = card /\ c.about = page,
           c.kind = "ask" /\ c.about.rev = page.rev => UpTo(c.about, comp)
    PROVE  Ordered'
<1> DEFINE s == Sent(c)
<1>1. /\ s \in Calls /\ ~Ok(s) /\ s.kind = c.kind /\ s.arg = c.arg
      /\ s.about = c.about
  BY CallSent
<1>2. calls' = Append(calls, s)
  BY DEF Send
<1>. HIDE DEF s
<1>3. IsQueue(calls)
  BY DEF ITyped
<1>4. CallsInOrder(calls, page, card', comp)
  BY CardChanges DEF Ordered
<1>5. UpTo(s.about, page)
  BY <1>1 DEF UpTo
<1>6. s.kind = "apply" /\ ~Replied(s) /\ Bad(s) =>
          /\ comp # s.arg.at
          /\ \A j \in 1..Len(calls) :
                /\ calls[j].kind \in {"open", "validate"} => calls[j].about # s.arg.at
                /\ calls[j].kind = "apply" => calls[j].arg = s.arg
  BY <1>1, BadCard DEF Bad
<1>7. CallsInOrder(calls', page, card', comp)
  BY <1>1, <1>2, <1>3, <1>4, <1>5, <1>6, SentInOrder
<1>8. Heard(calls', page, comp)
  BY <1>1, <1>2, <1>3, SendingHeard DEF Ordered
<1>. QED
  BY <1>7, <1>8 DEF Ordered

LEMMA OperateOrdered == ITyped /\ Ordered /\ Operate => Ordered'
<1>. SUFFICES ASSUME ITyped, Ordered, Operate PROVE Ordered'
  OBVIOUS
<1>1. PICK kind \in Operations : Send(Call(kind, page, None))
  BY DEF Operate
<1>2. page \in Revisions
  BY DEF ITyped, Scalars
<1> DEFINE c == Call(kind, page, None)
<1>3. /\ c \in Calls /\ c.reply = None /\ WellFormed(c) /\ c.kind = kind
      /\ c.about = page
  BY <1>2, CallMade DEF Edits, Operations
<1>4. Send(c)
  BY <1>1
<1>. HIDE DEF c
<1>5. c.kind \notin {"apply", "ask"}
  BY <1>3 DEF Operations
<1>. QED
  BY <1>3, <1>4, <1>5, SendingOrdered DEF Operate, UpTo, pageVars, compilerVars

LEMMA AskOrdered == ITyped /\ Ordered /\ Ask => Ordered'
<1>. SUFFICES ASSUME ITyped, Ordered, Ask PROVE Ordered'
  OBVIOUS
<1>1. control.observed # Nothing /\ control.observed \in Revisions /\ page \in Revisions
  BY DEF Ask, ITyped, Scalars, Grounded
<1> DEFINE c == Call("ask", control.observed, None)
<1>2. /\ c \in Calls /\ c.reply = None /\ WellFormed(c) /\ c.kind = "ask"
      /\ c.about = control.observed
  BY <1>1, CallMade DEF Edits
<1>3. Send(c)
  BY DEF Ask
<1>. HIDE DEF c
<1>4. UpTo(control.observed, page)
  BY <1>1 DEF Ordered, Followers
<1>5. control.observed.rev = page.rev => UpTo(control.observed, comp)
  <2>. SUFFICES ASSUME control.observed.rev = page.rev PROVE UpTo(control.observed, comp)
    OBVIOUS
  <2>1. control.observed = page
    BY <1>1, <1>4, ConstantsAssumption DEF UpTo, Revisions
  <2>. QED
    BY <2>1 DEF Ask, Ordered, Followers
<1>. QED
  BY <1>2, <1>3, <1>4, <1>5, SendingOrdered DEF Ask, pageVars, compilerVars

LEMMA TurnOrdered == ITyped /\ Ordered /\ Turn => Ordered'
<1>. SUFFICES ASSUME ITyped, Ordered, Turn PROVE Ordered'
  OBVIOUS
<1>1. page \in Revisions
  BY DEF ITyped, Scalars
<1> DEFINE c == Call("turn", page, None)
<1>2. /\ c \in Calls /\ c.reply = None /\ WellFormed(c) /\ c.kind = "turn"
      /\ c.about = page
  BY <1>1, CallMade DEF Edits
<1>3. Send(c)
  BY DEF Turn
<1>. HIDE DEF c
<1>. QED
  BY <1>2, <1>3, SendingOrdered DEF Turn, UpTo, pageVars, compilerVars

LEMMA AcceptOrdered == ITyped /\ Ordered /\ Accept => Ordered'
<1>. SUFFICES ASSUME ITyped, Ordered, Accept PROVE Ordered'
  OBVIOUS
<1>1. page \in Revisions /\ card \in Actions
  BY DEF Accept, ITyped, Scalars
<1> DEFINE c == Call("apply", page, card)
<1>2. /\ c \in Calls /\ c.reply = None /\ WellFormed(c) /\ c.kind = "apply"
      /\ c.about = page /\ c.arg = card
  BY <1>1, CallMade DEF Edits
<1>3. Send(c)
  BY DEF Accept
<1>. HIDE DEF c
<1>. QED
  BY <1>2, <1>3, SendingOrdered DEF Accept, UpTo, pageVars, compilerVars

LEMMA DiscardOrdered == ITyped /\ Ordered /\ Discard => Ordered'
<1>. SUFFICES ASSUME ITyped, Ordered, Discard PROVE Ordered'
  OBVIOUS
<1>1. page \in Revisions /\ card \in Actions
  BY DEF Discard, ITyped, Scalars
<1> DEFINE c == Call("discard", page, card)
<1>2. /\ c \in Calls /\ c.reply = None /\ WellFormed(c) /\ c.kind = "discard"
      /\ c.about = page
  BY <1>1, CallMade DEF Edits
<1>3. Send(c)
  BY DEF Discard
<1>. HIDE DEF c
<1>. QED
  BY <1>2, <1>3, SendingOrdered DEF Discard, UpTo, compilerVars

-----------------------------------------------------------------------------
(* The order is kept: the workspace of the page and the controller.        *)

\* What is left of an earlier controller is in order, whatever the page.
LEMMA FreshInOrder ==
    ASSUME ITyped, Ordered, Fresh, NEW p \in Revisions
    PROVE  CallsInOrder(calls, p, card, comp) /\ Heard(calls, p, comp)
<1>1. \A i \in 1..Len(calls) : /\ calls[i].kind \in Edits /\ ~Ok(calls[i])
                               /\ calls[i].kind = "apply" /\ card # None
                                     => calls[i].arg = card
  BY DEF Fresh
<1>2. Len(calls) \in Nat
  BY QueueLength DEF ITyped
<1>3. comp = Nothing /\ UpTo(comp, p)
  BY ConstantsAssumption DEF Fresh, UpTo, Nothing, Revisions
<1>4. ASSUME NEW i \in 1..Len(calls) PROVE InOrder(calls, i, p, card, comp)
  <2>1. InOrder(calls, i, page, card, comp)
    BY DEF Ordered, CallsInOrder
  <2>2. \A j \in 1..i : calls[j].kind \in Edits
    BY <1>1, <1>2
  <2>3. ~Replied(calls[i]) => Early(calls, i, comp)
    BY <1>3, <2>2 DEF Early
  <2>. QED
    BY <1>1, <2>1, <2>3 DEF InOrder, Edits
<1>. QED
  BY <1>3, <1>4 DEF CallsInOrder, Heard

\* The page takes a greater revision, or no controller has observed it yet.
LEMMA ReplacedOrdered ==
    ASSUME ITyped, Ordered, NEW w \in Revisions, Replaced(w), ~reused',
           control'.observed \in {page', control.observed},
           control'.accepted = control.accepted,
           calls' = calls, card' = card, comp' = comp
    PROVE  Ordered'
<1>1. page' = w /\ page \in Revisions /\ comp \in Workspaces /\ control \in Controllers
      /\ card \in Actions \cup {None} /\ IsQueue(calls)
  BY DEF Replaced, ITyped, Scalars
<1>2. page.rev \in Nat /\ w.rev \in Nat /\ w.rev > 0 /\ control.accepted \in Nat
  BY <1>1, ConstantsAssumption DEF Revisions, Controllers
<1>3. UpTo(w, w)
  BY DEF UpTo
<1>4. CASE control.observed = Nothing
  <2>1. Fresh
    BY <1>4 DEF ITyped
  <2>2. CallsInOrder(calls, w, card, comp) /\ Heard(calls, w, comp)
    BY <2>1, FreshInOrder
  <2>3. control.accepted = 0
    BY <2>1 DEF Fresh, NewController
  <2>4. Followers(control', w, comp)
    BY <1>1, <1>2, <1>3, <1>4, <2>3 DEF Followers
  <2>. QED
    BY <1>1, <2>2, <2>4 DEF Ordered
<1>5. CASE control.observed # Nothing
  <2>0. ~(w.rev <= page.rev)
    BY <1>5, Zenon DEF Replaced
  <2>1. page.rev < w.rev
    BY <1>2, <2>0
  <2>2. UpTo(page, w)
    BY <2>1 DEF UpTo
  <2>3. CallsInOrder(calls, w, card, comp)
    BY <1>1, <2>2, PageMovesOn DEF Ordered
  <2>4. \A u \in Workspaces : UpTo(u, page) => UpTo(u, w)
    BY <1>1, <2>2, RevisionIsWorkspace, UpToTransitive
  <2>5. Heard(calls, w, comp)
    BY <1>1, <2>4 DEF Ordered, Heard
  <2>6. control.observed \in Workspaces
    BY <1>1 DEF Controllers
  <2>7. Followers(control', w, comp)
    BY <1>1, <1>2, <1>3, <2>1, <2>4, <2>6 DEF Ordered, Followers
  <2>. QED
    BY <1>1, <2>3, <2>5, <2>7 DEF Ordered
<1>. QED
  BY <1>4, <1>5

LEMMA EditOrdered == ITyped /\ Ordered /\ Edit => reused' \/ Ordered'
<1>. SUFFICES ASSUME ITyped, Ordered, Edit, ~reused' PROVE Ordered'
  OBVIOUS
<1>1. PICK t \in Texts \ {page.text} : Replaced([rev |-> page.rev + 1, text |-> t])
  BY DEF Edit
<1> DEFINE w == [rev |-> page.rev + 1, text |-> t]
<1>2. w \in Revisions
  BY ConstantsAssumption DEF Edit, ITyped, Scalars, Revisions
<1>3. Replaced(w)
  BY <1>1
<1>. HIDE DEF w
<1>4. control \in Controllers /\ page' \in Revisions
  BY <1>2, <1>3 DEF Replaced, ITyped, Scalars
<1>5. /\ control'.observed \in {page', control.observed}
      /\ control'.accepted = control.accepted
  BY <1>4, FollowedTyped DEF Edit
<1>. QED
  BY <1>2, <1>3, <1>5, ReplacedOrdered DEF Edit, compilerVars

LEMMA AdoptOrdered == ITyped /\ Ordered /\ Adopt => reused' \/ Ordered'
<1>. SUFFICES ASSUME ITyped, Ordered, Adopt, ~reused' PROVE Ordered'
  OBVIOUS
<1>1. PICK r \in page.rev + 1..MaxRevision, t \in Texts :
          Replaced([rev |-> r, text |-> t])
  BY DEF Adopt
<1> DEFINE w == [rev |-> r, text |-> t]
<1>2. w \in Revisions
  BY ConstantsAssumption DEF ITyped, Scalars, Revisions
<1>3. Replaced(w)
  BY <1>1
<1>. HIDE DEF w
<1>4. control \in Controllers /\ page' \in Revisions
  BY <1>2, <1>3 DEF Replaced, ITyped, Scalars
<1>5. /\ control'.observed \in {page', control.observed}
      /\ control'.accepted = control.accepted
  BY <1>4, FollowedTyped DEF Adopt
<1>. QED
  BY <1>2, <1>3, <1>5, ReplacedOrdered DEF Adopt, compilerVars

\* The controller follows a page that stays as it is.
LEMMA SamePageOrdered ==
    ASSUME ITyped, Ordered, page' = page, calls' = calls, card' = card, comp' = comp,
           control'.observed \in {page, control.observed},
           control'.accepted = control.accepted
    PROVE  Ordered'
<1>1. UpTo(page, page)
  BY DEF UpTo
<1>2. Followers(control', page, comp)
  BY <1>1 DEF Ordered, Followers
<1>. QED
  BY <1>2 DEF Ordered

LEMMA RestoreOrdered == ITyped /\ Ordered /\ Restore => reused' \/ Ordered'
<1>. SUFFICES ASSUME ITyped, Ordered, Restore, ~reused' PROVE Ordered'
  OBVIOUS
<1>1. calls' = calls /\ card' = card /\ comp' = comp
  BY DEF Restore, compilerVars
<1>2. CASE \E w \in Revisions : Replaced(w)
  <2>1. PICK w \in Revisions : Replaced(w)
    BY <1>2
  <2>2. control \in Controllers /\ page' \in Revisions
    BY <2>1 DEF Replaced, ITyped, Scalars
  <2>3. /\ control'.observed \in {page', control.observed}
        /\ control'.accepted = control.accepted
    BY <2>2, FollowedTyped DEF Restore
  <2>. QED
    BY <1>1, <2>1, <2>3, ReplacedOrdered
<1>3. CASE page' = page
  <2>1. control \in Controllers /\ page' \in Revisions
    BY <1>3 DEF ITyped, Scalars
  <2>2. /\ control'.observed \in {page, control.observed}
        /\ control'.accepted = control.accepted
    BY <1>3, <2>1, FollowedTyped DEF Restore
  <2>. QED
    BY <1>1, <1>3, <2>2, SamePageOrdered
<1>4. \A r \in 1..MaxRevision, t \in Texts : [rev |-> r, text |-> t] \in Revisions
  BY DEF Revisions
<1>5. [rev |-> 1, text |-> Demo] \in Revisions
  BY ConstantsAssumption DEF Revisions
<1>. QED
  BY <1>2, <1>3, <1>4, <1>5 DEF Restore

\* The controller opens what it has observed.
LEMMA ControlOrdered ==
    ASSUME ITyped, Ordered, NEW k, NEW opens \in BOOLEAN, Control(k, opens, calls),
           k.observed \in Revisions, UpTo(k.observed, page),
           k.accepted = control.accepted,
           page' = page, card' = card, comp' = comp
    PROVE  Ordered'
<1> DEFINE c == OpenCall(k.observed)
           s == Sent(c)
<1>1. /\ s \in Calls /\ ~Ok(s) /\ s.kind = "open" /\ s.about = k.observed
  BY CallMade, CallSent DEF OpenCall, Edits
<1>2. calls' = (IF opens THEN Append(calls, s) ELSE calls) /\ control' = k
  BY DEF Control, OpenCall
<1>. HIDE DEF s
<1>3. IsQueue(calls)
  BY DEF ITyped
<1>4. CallsInOrder(Append(calls, s), page, card, comp)
  BY <1>1, <1>3, SentInOrder DEF Ordered
<1>5. Heard(Append(calls, s), page, comp)
  BY <1>1, <1>3, SendingHeard DEF Ordered
<1>6. Followers(k, page, comp)
  BY DEF Ordered, Followers
<1>. QED
  BY <1>2, <1>4, <1>5, <1>6 DEF Ordered

LEMMA SynchronizeOrdered ==
    ASSUME ITyped, Ordered, NEW k \in Controllers, Synchronize(k),
           k.observed = control.observed, k.accepted = control.accepted,
           control # NewController
    PROVE  Ordered'
<1>1. control.observed \in Revisions /\ UpTo(control.observed, page)
  BY Observing, NothingIsNoRevision DEF Ordered, Followers
<1> DEFINE l == [k EXCEPT !.timer = FALSE]
           asked == Asked(l, k.observed.rev)
           opens == asked.inFlight /\ ~k.inFlight
<1>2. /\ l \in Controllers /\ l.observed = k.observed /\ l.accepted = k.accepted
  BY DEF Controllers
<1>. HIDE DEF l
<1>3. k.observed.rev \in 0..MaxRevision
  BY <1>1, ConstantsAssumption DEF Revisions
<1>4. /\ asked.observed = control.observed /\ asked.accepted = control.accepted
  BY <1>2, <1>3, AskedTyped
<1>5. Control(asked, opens, calls) /\ opens \in BOOLEAN
  <2>1. Control(asked, asked.inFlight /\ ~k.inFlight, calls)
    BY Zenon DEF Synchronize, l
  <2>. QED
    BY <2>1
<1>6. page' = page /\ card' = card /\ comp' = comp
  BY DEF Synchronize, pageVars, compilerVars
<1>. HIDE DEF asked, opens
<1>. QED
  BY <1>1, <1>4, <1>5, <1>6, ControlOrdered

LEMMA TimerFiresOrdered == ITyped /\ Ordered /\ TimerFires => Ordered'
<1>. SUFFICES ASSUME ITyped, Ordered, TimerFires PROVE Ordered'
  OBVIOUS
<1>1. control \in Controllers /\ control # NewController
  BY DEF ITyped, Scalars, TimerFires, NewController
<1>. QED
  BY <1>1, SynchronizeOrdered DEF TimerFires

LEMMA EnsureRevisionOrdered == ITyped /\ Ordered /\ EnsureRevision => Ordered'
<1>. SUFFICES ASSUME ITyped, Ordered, EnsureRevision PROVE Ordered'
  OBVIOUS
<1>1. control \in Controllers /\ page.rev > 0
  BY ConstantsAssumption DEF ITyped, Scalars, Revisions
<1>2. control # NewController
  BY <1>1, NewControllerTyped DEF EnsureRevision, Nothing
<1>. QED
  BY <1>1, <1>2, SynchronizeOrdered DEF EnsureRevision

LEMMA RetryLanguageOrdered == ITyped /\ Ordered /\ RetryLanguage => Ordered'
<1>. SUFFICES ASSUME ITyped, Ordered, RetryLanguage PROVE Ordered'
  OBVIOUS
<1>1. control \in Controllers /\ control # NewController
  BY DEF ITyped, Scalars, RetryLanguage, NewController
<1> DEFINE k == [control EXCEPT !.refused = 0]
<1>2. k \in Controllers /\ k.observed = control.observed /\ k.accepted = control.accepted
  BY <1>1, ConstantsAssumption DEF Controllers
<1>3. Synchronize(k)
  BY DEF RetryLanguage
<1>. HIDE DEF k
<1>. QED
  BY <1>1, <1>2, <1>3, SynchronizeOrdered

LEMMA InitializedOrdered == ITyped /\ Ordered /\ Initialized => Ordered'
<1>. SUFFICES ASSUME ITyped, Ordered, Initialized PROVE Ordered'
  OBVIOUS
<1> DEFINE o == [Observed(control, page) EXCEPT !.timer = FALSE]
           k == Asked(o, page.rev)
           f == Followed(k, page, phase, "ready")
           opens == k.inFlight /\ ~control.inFlight
<1>1. control \in Controllers /\ page \in Revisions /\ page.rev \in 0..MaxRevision
  BY ConstantsAssumption DEF ITyped, Scalars, Revisions
<1>2. o \in Controllers /\ o.observed = page /\ o.accepted = control.accepted
  BY <1>1, ObservedTyped DEF Controllers
<1>. HIDE DEF o
<1>3. k \in Controllers /\ k.observed = page /\ k.accepted = control.accepted
  BY <1>1, <1>2, AskedTyped
<1>4. f.observed = page /\ f.accepted = control.accepted
  BY <1>1, <1>3, FollowedTyped
<1>5. Control(f, opens, calls) /\ opens \in BOOLEAN
  BY DEF Initialized, o
<1>6. page' = page /\ card' = card /\ comp' = comp
  BY DEF Initialized, pageVars, compilerVars
<1>. HIDE DEF f, opens
<1>7. UpTo(page, page)
  BY DEF UpTo
<1>. QED
  BY <1>1, <1>4, <1>5, <1>6, <1>7, ControlOrdered

-----------------------------------------------------------------------------
(* The order is kept: the compiler.                                        *)

\* The compiler answers its first call, and stays where it is or moves on.
LEMMA AnswerOrdered ==
    ASSUME ITyped, Ordered, worker = "up", First > 0, NEW r \in Answers,
           calls' = [calls EXCEPT ![First].reply = r],
           page' = page, card' = card, control' = control,
           comp' \in Workspaces, UpTo(comp, comp'),
           NEW c, c = calls[First],
           r.is = "ok" =>
               /\ c.kind = "apply" => UpTo(c.about, page) /\ c.about = c.arg.at
               /\ c.kind = "turn" => \/ UpTo(r.value.at, page)
                                     \/ Ahead(r.value.at, calls, First - 1)
               /\ c.kind = "open" => UpTo(c.about, comp')
               /\ c.kind = "ask" /\ c.about.rev = page.rev => r.value = c.about.text,
           comp' # comp =>
               /\ comp = Nothing => c.kind \notin Edits
               /\ \A i \in First + 1..Len(calls) :
                     Hopeless(calls, i, comp) => comp' # calls[i].arg.at
               /\ UpTo(comp', page) \/ (Change(With(c, r)) /\ r.value = comp')
    PROVE  Ordered'
<1>0. IsQueue(calls) /\ Len(calls) \in Nat
  BY QueueLength DEF ITyped
<1>1. /\ First \in 1..Len(calls)
      /\ \A i \in 1..Len(calls) : Replied(calls[i]) <=> i < First
  BY <1>0, FirstSplits
<1>2. /\ Len(calls') = Len(calls)
      /\ \A i \in 1..Len(calls) : i # First => calls'[i] = calls[i]
      /\ calls'[First] = With(c, r)
  BY <1>0, <1>1, AnsweredElements
<1>3. /\ c \in Calls
      /\ With(c, r).kind = c.kind /\ With(c, r).about = c.about
      /\ With(c, r).arg = c.arg /\ With(c, r).reply = r /\ Replied(With(c, r))
  BY <1>0, <1>1, QueueLength, CallAnswered
<1>4. \A i \in 1..Len(calls) :
          /\ calls'[i].kind = calls[i].kind /\ calls'[i].arg = calls[i].arg
          /\ calls'[i].about = calls[i].about
          /\ Replied(calls[i]) => calls'[i] = calls[i]
  BY <1>1, <1>2, <1>3
<1>5. ASSUME NEW u, NEW n \in 0..Len(calls), Ahead(u, calls, n)
      PROVE  Ahead(u, calls', n)
  <2>1. PICK j \in 1..n : Change(calls[j]) /\ calls[j].reply.value = u
    BY <1>5 DEF Ahead
  <2>2. j \in 1..Len(calls) /\ Replied(calls[j])
    BY <1>0, <2>1 DEF Change, Ok
  <2>3. calls'[j] = calls[j]
    BY <1>4, <2>2
  <2>. QED
    BY <2>1, <2>3 DEF Ahead
<1>6. \A i \in 1..Len(calls) : calls[i].about \in Workspaces
  BY <1>0, RevisionIsWorkspace DEF IsQueue, WellFormed
<1>7. \A u \in Workspaces : UpTo(u, comp) => UpTo(u, comp')
  BY UpToTransitive DEF ITyped, Scalars
<1>8. InOrder(calls', First, page, card, comp')
  <2>1. InOrder(calls, First, page, card, comp)
    BY <1>1 DEF Ordered, CallsInOrder
  <2>2. c.kind = "ask" /\ c.about.rev = page.rev => UpTo(c.about, comp')
    BY <1>1, <1>6, <1>7, <2>1 DEF InOrder
  <2>3. Ok(With(c, r)) <=> r.is = "ok"
    BY <1>3 DEF Ok
  <2>4. First - 1 \in 0..Len(calls)
    BY <1>0, <1>1
  <2>5. c.kind = "turn" /\ r.is = "ok" =>
            UpTo(r.value.at, page) \/ Ahead(r.value.at, calls', First - 1)
    BY <1>5, <2>4
  <2>. QED
    BY <1>2, <1>3, <2>1, <2>2, <2>3, <2>5 DEF InOrder
<1>9. ASSUME NEW i \in 1..Len(calls), i # First
      PROVE  InOrder(calls', i, page, card, comp')
  <2>1. InOrder(calls, i, page, card, comp) /\ calls'[i] = calls[i]
    BY <1>2, <1>9 DEF Ordered, CallsInOrder
  <2>2. i - 1 \in 0..Len(calls) /\ \A j \in 1..i : j \in 1..Len(calls)
    BY <1>0
  <2>3. ~Replied(calls[i]) => i > First /\ i \in First + 1..Len(calls) /\ First \in 1..i
    BY <1>1, <1>9
  <2>4. Early(calls, i, comp) => Early(calls', i, comp')
    <3>. SUFFICES ASSUME Early(calls, i, comp) PROVE Early(calls', i, comp')
      OBVIOUS
    <3>1. c.kind \in Edits
      BY <2>3 DEF Early
    <3>2. comp' = comp
      BY <3>1 DEF Early
    <3>. QED
      BY <1>4, <2>1, <2>2, <3>2 DEF Early
  <2>5. ~Replied(calls[i]) /\ Hopeless(calls, i, comp) => Hopeless(calls', i, comp')
    <3>. SUFFICES ASSUME ~Replied(calls[i]), Hopeless(calls, i, comp)
                  PROVE  Hopeless(calls', i, comp')
      OBVIOUS
    <3>1. comp' # calls[i].arg.at
      BY <2>3 DEF Hopeless
    <3>2. \A j \in 1..i - 1 : j \in 1..Len(calls)
      BY <1>0
    <3>. QED
      BY <1>4, <2>1, <3>1, <3>2 DEF Hopeless
  <2>6. \A u : Ahead(u, calls, i - 1) => Ahead(u, calls', i - 1)
    BY <1>5, <2>2
  <2>7. UpTo(calls[i].about, comp) => UpTo(calls[i].about, comp')
    BY <1>6, <1>7
  <2>. QED
    BY <2>1, <2>4, <2>5, <2>6, <2>7 DEF InOrder
<1>10. CallsInOrder(calls', page, card, comp')
  BY <1>2, <1>8, <1>9 DEF CallsInOrder
<1>11. Heard(calls', page, comp')
  <2>1. CASE comp' = comp
    <3>1. Len(calls) \in 0..Len(calls)
      BY <1>0
    <3>2. Ahead(comp, calls, Len(calls)) => Ahead(comp, calls', Len(calls))
      BY <1>5, <3>1
    <3>. QED
      BY <1>2, <2>1, <3>2 DEF Ordered, Heard
  <2>2. CASE UpTo(comp', page)
    BY <2>2 DEF Heard
  <2>3. CASE Change(With(c, r)) /\ r.value = comp'
    BY <1>1, <1>2, <1>3, <2>3 DEF Heard, Ahead
  <2>. QED
    BY <2>1, <2>2, <2>3
<1>12. Followers(control, page, comp')
  BY <1>7, RevisionIsWorkspace DEF Ordered, Followers, ITyped, Scalars
<1>. QED
  BY <1>10, <1>11, <1>12 DEF Ordered

\* An answer that leaves the compiler where it is.
LEMMA AnsweredInPlace ==
    ASSUME ITyped, Ordered, worker = "up", First > 0, NEW r \in Answers,
           calls' = [calls EXCEPT ![First].reply = r],
           page' = page, card' = card, control' = control, comp' = comp,
           r.is # "ok" \/ calls[First].kind \notin {"apply", "turn", "open", "ask"}
    PROVE  Ordered'
<1>1. comp' \in Workspaces /\ UpTo(comp, comp')
  BY DEF ITyped, Scalars, UpTo
<1>. QED
  BY <1>1, AnswerOrdered

\* What Replies leaves alone.
LEMMA RepliesKeeps ==
    ASSUME NEW r, NEW w, NEW a, Replies(r, w, a)
    PROVE  /\ calls' = [calls EXCEPT ![First].reply = r]
           /\ comp' = w
           /\ page' = page /\ card' = card /\ control' = control
BY DEF Replies, pageVars

LEMMA OpenOrdered == ITyped /\ Ordered /\ Open => Ordered'
<1>. SUFFICES ASSUME ITyped, Ordered, Open PROVE Ordered'
  OBVIOUS
<1> DEFINE c == calls[First]
           r == Reply(Opened(c.about), None)
           w == IF Opened(c.about) = "ok" THEN c.about ELSE comp
<1>1. Working({"open", "validate"})
  BY DEF Open
<1>2. /\ c.kind \in {"open", "validate"} /\ c.about \in Revisions
      /\ worker = "up" /\ First > 0 /\ First \in 1..Len(calls) /\ ~Replied(c)
  BY <1>1, WorkedOn
<1>3. Replies(r, w, pending)
  BY DEF Open, Answer
<1>4. r \in Answers /\ (r.is = "ok" <=> Opened(c.about) = "ok")
  BY DEF Reply, Answers, Opened
<1>5. w = comp \/ (w = c.about /\ w.rev > comp.rev)
  BY <1>2, OpenedMovesOn
<1>6. w \in Workspaces /\ comp.rev \in Nat /\ c.about.rev \in Nat
  BY <1>2, <1>5, RevisionIsWorkspace, ConstantsAssumption
     DEF ITyped, Scalars, Workspaces, Revisions
<1>7. UpTo(comp, w)
  BY <1>5, <1>6 DEF UpTo
<1>8. UpTo(c.about, page)
  BY <1>2 DEF Ordered, CallsInOrder, InOrder, Edits
<1>9. r.is = "ok" => w = c.about /\ UpTo(c.about, w)
  BY <1>4 DEF UpTo
<1>10. \A i \in First + 1..Len(calls) :
           Hopeless(calls, i, comp) => c.about # calls[i].arg.at
  <2>1. \A i \in First + 1..Len(calls) : First \in 1..i - 1
    BY <1>2
  <2>. QED
    BY <1>2, <2>1 DEF Hopeless
<1>11. c.kind \notin {"apply", "turn", "ask"} /\ c.kind \notin Edits
  BY <1>2 DEF Edits
<1>. HIDE DEF r, w, c
<1>12. c = calls[First]
  BY DEF c
<1>. QED
  BY <1>2, <1>3, <1>4, <1>5, <1>6, <1>7, <1>8, <1>9, <1>10, <1>11, <1>12, RepliesKeeps,
     AnswerOrdered

LEMMA CompileOrdered == ITyped /\ Ordered /\ Compile => Ordered'
<1>. SUFFICES ASSUME ITyped, Ordered, Compile PROVE Ordered'
  OBVIOUS
<1> DEFINE r == Reply("ok", None)
<1>1. Working({"format", "generate"})
  BY DEF Compile
<1>2. Replies(r, comp, pending)
  BY DEF Compile, Answer
<1>3. r \in Answers
  BY DEF Reply, Answers
<1>. HIDE DEF r
<1>4. worker = "up" /\ First > 0 /\ calls[First].kind \in {"format", "generate"}
  BY <1>1, WorkedOn
<1>. QED
  BY <1>2, <1>3, <1>4, RepliesKeeps, AnsweredInPlace

LEMMA QuestionOrdered == ITyped /\ Ordered /\ Question => Ordered'
<1>. SUFFICES ASSUME ITyped, Ordered, Question PROVE Ordered'
  OBVIOUS
<1> DEFINE c == calls[First]
           r == IF c.about.rev = comp.rev THEN Reply("ok", comp.text) ELSE Stale
<1>1. Working({"ask"})
  BY DEF Question
<1>2. Replies(r, comp, pending)
  BY DEF Question, Answer
<1>3. r \in Answers
  BY DEF Reply, Answers, Stale, ITyped, Scalars, Workspaces
<1>4. /\ worker = "up" /\ First > 0 /\ First \in 1..Len(calls) /\ c.kind = "ask"
      /\ c.about \in Revisions
  BY <1>1, WorkedOn
<1>5. c.about.rev = page.rev => UpTo(c.about, comp)
  BY <1>4 DEF Ordered, CallsInOrder, InOrder
<1>6. comp \in Workspaces /\ UpTo(comp, comp) /\ comp.rev \in Nat
  BY ConstantsAssumption DEF UpTo, ITyped, Scalars, Workspaces
<1>7. r.is = "ok" /\ c.about.rev = page.rev => r.value = c.about.text
  <2>1. CASE c.about.rev = comp.rev
    BY <1>5, <1>6, <2>1 DEF UpTo, Reply
  <2>2. CASE c.about.rev # comp.rev
    BY <2>2 DEF Stale, Reply
  <2>. QED
    BY <2>1, <2>2
<1>. HIDE DEF r, c
<1>8. c = calls[First]
  BY DEF c
<1>. QED
  BY <1>2, <1>3, <1>4, <1>6, <1>7, <1>8, RepliesKeeps, AnswerOrdered

LEMMA PreviewOrdered == ITyped /\ Ordered /\ Preview => Ordered'
<1>. SUFFICES ASSUME ITyped, Ordered, Preview PROVE Ordered'
  OBVIOUS
<1>1. Working({"turn"})
  BY DEF Preview
<1>2. /\ worker = "up" /\ First > 0 /\ First \in 1..Len(calls)
      /\ calls[First].kind = "turn"
  BY <1>1, WorkedOn
<1>3. CASE Answer(Stale, comp, pending)
  <2>1. Replies(Stale, comp, pending)
    BY <1>3 DEF Answer
  <2>. QED
    BY <1>2, <2>1, RepliesKeeps, StaleTyped, AnsweredInPlace
<1>4. ASSUME NEW to \in Texts \cup {None},
             Answer(Reply("ok", [at |-> comp, to |-> to]), comp, [at |-> comp, to |-> to])
      PROVE  Ordered'
  <2> DEFINE a == [at |-> comp, to |-> to]
             r == Reply("ok", a)
  <2>1. a \in Actions /\ a.at = comp
    BY <1>4 DEF Actions, ITyped, Scalars
  <2>2. Replies(r, comp, a)
    BY <1>4 DEF Answer
  <2>. HIDE DEF a
  <2>3. r \in Answers /\ r.value = a
    BY <2>1 DEF Reply, Answers
  <2>4. comp \in Workspaces /\ UpTo(comp, comp)
    BY DEF UpTo, ITyped, Scalars
  <2>5. UpTo(comp, page) \/ Ahead(comp, calls, First - 1)
    <3>1. CASE Ahead(comp, calls, Len(calls))
      <4>1. PICK j \in 1..Len(calls) : Change(calls[j]) /\ calls[j].reply.value = comp
        BY <3>1 DEF Ahead
      <4>2. j < First /\ Len(calls) \in Nat
        BY <1>2, <4>1, FirstSplits, QueueLength DEF ITyped, Change, Ok
      <4>. QED
        BY <1>2, <4>1, <4>2 DEF Ahead
    <3>. QED
      BY <3>1 DEF Ordered, Heard
  <2>. HIDE DEF r
  <2>. QED
    BY <1>2, <2>1, <2>2, <2>3, <2>4, <2>5, RepliesKeeps, AnswerOrdered
<1>. QED
  BY <1>3, <1>4 DEF Preview

LEMMA TypedOrdered == ITyped /\ Ordered /\ Typed => reused' \/ Ordered'
<1>. SUFFICES ASSUME ITyped, Ordered, Typed, ~reused' PROVE Ordered'
  OBVIOUS
<1>1. Working({"turn"}) /\ Replies(Stale, comp, None)
  BY DEF Typed, Answer
<1>2. worker = "up" /\ First > 0
  BY <1>1, WorkedOn
<1>. QED
  BY <1>1, <1>2, RepliesKeeps, StaleTyped, AnsweredInPlace

\* A confirmation that is carried out has found the compiler, and the page, at the
\* workspace that the preview was made from.
LEMMA CurrentIsPreviewed ==
    ASSUME ITyped, Ordered, Working({"apply"}), Current(calls[First])
    PROVE  /\ UpTo(calls[First].about, page)
           /\ calls[First].about = calls[First].arg.at
<1>1. /\ First \in 1..Len(calls) /\ ~Replied(calls[First])
      /\ calls[First].kind = "apply" /\ calls[First].about \in Revisions
  BY WorkedOn
<1>2. calls[First].arg.at = comp /\ calls[First].about.rev = comp.rev
  BY ApplyCarriedOut
<1>3. comp # Nothing
  BY <1>1, <1>2 DEF Revisions, Nothing
<1>4. InOrder(calls, First, page, card, comp)
  BY <1>1 DEF Ordered, CallsInOrder
<1>5. UpTo(calls[First].about, page)
  BY <1>1, <1>3, <1>4 DEF InOrder, Early
<1>6. ~Bad(calls[First])
  BY <1>1, <1>2, <1>4 DEF InOrder, Hopeless
<1>. QED
  BY <1>2, <1>5, <1>6 DEF Bad

LEMMA ApplyOrdered == ITyped /\ Ordered /\ Apply => Ordered'
<1>. SUFFICES ASSUME ITyped, Ordered, Apply PROVE Ordered'
  OBVIOUS
<1> DEFINE c == calls[First]
<1>1. Working({"apply"})
  BY DEF Apply
<1>2. /\ worker = "up" /\ First > 0 /\ First \in 1..Len(calls) /\ ~Replied(c)
      /\ c \in Calls /\ c.kind = "apply" /\ c.about \in Revisions
  BY <1>1, WorkedOn
<1>3. CASE ~Current(c)
  <2>1. Replies(Stale, comp, pending)
    BY <1>3 DEF Apply, Answer
  <2>. QED
    BY <1>2, <2>1, RepliesKeeps, StaleTyped, AnsweredInPlace
<1>4. CASE Current(c)
  <2> DEFINE w == IF c.arg.to = None THEN comp ELSE Confirmed(c.arg)
             r == Reply("ok", w)
  <2>1. /\ c.arg = pending /\ pending # None /\ c.arg.at = comp
        /\ c.about.rev = comp.rev
    BY <1>1, <1>4, ApplyCarriedOut
  <2>2. Replies(r, w, None)
    BY <1>4 DEF Apply, Answer
  <2>3. w = comp \/ (w \in Revisions /\ w.rev > comp.rev /\ c.arg.to # None)
    BY <2>1, ConfirmedTyped
  <2>4. w \in Workspaces /\ UpTo(comp, w)
    BY <2>3, RevisionIsWorkspace DEF UpTo, ITyped, Scalars
  <2>. HIDE DEF w
  <2>5. r \in Answers /\ r.value = w /\ r.is = "ok"
    BY <2>4 DEF Reply, Answers
  <2>. HIDE DEF r
  <2>6. comp # Nothing
    BY <1>2, <2>1 DEF Revisions, Nothing
  <2>8. UpTo(c.about, page) /\ c.about = c.arg.at
    BY <1>1, <1>4, CurrentIsPreviewed
  <2>11. \A i \in First + 1..Len(calls) : ~Hopeless(calls, i, comp)
    <3>. SUFFICES ASSUME NEW i \in First + 1..Len(calls), Hopeless(calls, i, comp)
                  PROVE  FALSE
      OBVIOUS
    <3>1. First \in 1..i - 1
      BY <1>2
    <3>2. calls[First].arg = calls[i].arg
      BY <1>2, <3>1 DEF Hopeless
    <3>. QED
      BY <2>1, <3>2 DEF Hopeless
  <2>12. w # comp => Change(With(c, r))
    BY <1>2, <2>3, <2>5, CallAnswered DEF Change, Ok
  <2>. HIDE DEF c
  <2>13. c = calls[First]
    BY DEF c
  <2>. QED
    BY <1>2, <2>2, <2>4, <2>5, <2>6, <2>8, <2>11, <2>12, <2>13, RepliesKeeps,
       AnswerOrdered
<1>. QED
  BY <1>3, <1>4

LEMMA DismissOrdered == ITyped /\ Ordered /\ Dismiss => Ordered'
<1>. SUFFICES ASSUME ITyped, Ordered, Dismiss PROVE Ordered'
  OBVIOUS
<1> DEFINE r == Reply("ok", None)
           a == IF Current(calls[First]) THEN None ELSE pending
<1>1. Working({"discard"})
  BY DEF Dismiss
<1>2. Replies(r, comp, a)
  BY DEF Dismiss, Answer
<1>3. r \in Answers
  BY DEF Reply, Answers
<1>. HIDE DEF r, a
<1>4. worker = "up" /\ First > 0 /\ calls[First].kind = "discard"
  BY <1>1, WorkedOn
<1>. QED
  BY <1>2, <1>3, <1>4, RepliesKeeps, AnsweredInPlace

LEMMA RaiseOrdered == ITyped /\ Ordered /\ Raise => Ordered'
<1>. SUFFICES ASSUME ITyped, Ordered, Raise PROVE Ordered'
  OBVIOUS
<1>1. Working({"open", "validate", "format", "generate", "ask", "turn", "apply"})
  BY DEF Raise
<1>2. PICK is \in {"broken", "refused"} :
          calls' = [calls EXCEPT ![First].reply = Reply(is, None)]
  BY DEF Raise
<1> DEFINE r == Reply(is, None)
<1>3. r \in Answers /\ r.is # "ok"
  BY DEF Reply, Answers
<1>4. calls' = [calls EXCEPT ![First].reply = r]
  BY <1>2
<1>. HIDE DEF r
<1>5. worker = "up" /\ First > 0
  BY <1>1, WorkedOn
<1>6. page' = page /\ card' = card /\ control' = control /\ comp' = comp
  BY DEF Raise, pageVars, compilerVars
<1>. QED
  BY <1>3, <1>4, <1>5, <1>6, AnsweredInPlace

-----------------------------------------------------------------------------
(* The order is kept: the life of the worker.                              *)

LEMMA RejectingOrdered ==
    ASSUME ITyped, Ordered, calls' = Rejected, page' = page, card' = card,
           control' = control, comp' = comp
    PROVE  Ordered'
<1>1. IsQueue(calls) /\ Len(calls) \in Nat
  BY QueueLength DEF ITyped
<1>2. /\ Len(calls') = Len(calls)
      /\ \A i \in 1..Len(calls) :
            /\ Replied(calls'[i])
            /\ calls'[i].kind = calls[i].kind
            /\ calls'[i].about = calls[i].about
            /\ calls'[i].arg = calls[i].arg
            /\ Replied(calls[i]) => calls'[i] = calls[i]
            /\ Ok(calls'[i]) => calls'[i] = calls[i]
  BY <1>1, RejectedElements
<1>3. ASSUME NEW u, NEW n \in 0..Len(calls), Ahead(u, calls, n)
      PROVE  Ahead(u, calls', n)
  <2>1. PICK j \in 1..n : Change(calls[j]) /\ calls[j].reply.value = u
    BY <1>3 DEF Ahead
  <2>2. j \in 1..Len(calls) /\ Replied(calls[j])
    BY <1>1, <2>1 DEF Change, Ok
  <2>3. calls'[j] = calls[j]
    BY <1>2, <2>2
  <2>. QED
    BY <2>1, <2>3 DEF Ahead
<1>4. ASSUME NEW i \in 1..Len(calls) PROVE InOrder(calls', i, page, card, comp)
  <2>1. InOrder(calls, i, page, card, comp)
    BY DEF Ordered, CallsInOrder
  <2>2. i - 1 \in 0..Len(calls)
    BY <1>1
  <2>3. \A u : Ahead(u, calls, i - 1) => Ahead(u, calls', i - 1)
    BY <1>3, <2>2
  <2>4. Ok(calls[i]) => ~Early(calls, i, comp)
    BY DEF Ok, Early
  <2>. QED
    BY <1>2, <2>1, <2>3, <2>4 DEF InOrder
<1>5. Heard(calls', page, comp)
  <2>1. Len(calls) \in 0..Len(calls)
    BY <1>1
  <2>2. Ahead(comp, calls, Len(calls)) => Ahead(comp, calls', Len(calls))
    BY <1>3, <2>1
  <2>. QED
    BY <1>2, <2>2 DEF Ordered, Heard
<1>. QED
  BY <1>2, <1>4, <1>5 DEF Ordered, CallsInOrder

LEMMA InitializationFailsOrdered == ITyped /\ Ordered /\ InitializationFails => Ordered'
BY RejectingOrdered DEF InitializationFails, pageVars, compilerVars

LEMMA WorkerFailsOrdered == ITyped /\ Ordered /\ WorkerFails => Ordered'
BY RejectingOrdered DEF WorkerFails, pageVars, compilerVars

\* Nothing is in flight, and the compiler has nothing.
LEMMA NothingOrdered ==
    ASSUME NEW p \in Revisions, NEW cd
    PROVE  /\ CallsInOrder(<<>>, p, cd, Nothing)
           /\ Heard(<<>>, p, Nothing)
           /\ Followers(NewController, p, Nothing)
<1>1. p.rev \in Nat /\ p.rev > 0 /\ Len(<<>>) = 0
  BY ConstantsAssumption DEF Revisions
<1>2. CallsInOrder(<<>>, p, cd, Nothing)
  BY <1>1 DEF CallsInOrder
<1>. QED
  BY <1>1, <1>2 DEF Heard, UpTo, Nothing, Followers, NewController

LEMMA RecreatedOrdered == ITyped /\ Recreated => Ordered'
<1>. SUFFICES ASSUME ITyped, Recreated PROVE Ordered'
  OBVIOUS
<1>1. /\ page' = page /\ page \in Revisions
      /\ calls' = <<>> /\ comp' = Nothing /\ control' = NewController
  BY DEF Recreated, pageVars, ITyped, Scalars
<1>. QED
  BY <1>1, NothingOrdered DEF Ordered

LEMMA InitOrdered == Init => Ordered
<1>. SUFFICES ASSUME Init PROVE Ordered
  OBVIOUS
<1>1. page \in Revisions
  BY ConstantsAssumption DEF Init, Revisions
<1>. QED
  BY <1>1, NothingOrdered DEF Init, Ordered

-----------------------------------------------------------------------------
(* The order is kept: what the page does with an answer.                   *)

\* The first call leaves; the page stays, or takes a greater revision.
LEMMA ReceivingOrdered ==
    ASSUME ITyped, Ordered, NEW kinds, Answered(kinds), calls' = Tail(calls),
           page' \in Revisions, PageAfter(calls[1], page, page'),
           card' \in {card, None} \/ UpTo(card'.at, page'), comp' = comp,
           control'.observed \in {page', control.observed},
           control'.accepted = control.accepted
    PROVE  Ordered'
<1>1. IsQueue(calls) /\ calls # <<>>
  BY DEF ITyped, Answered
<1>2. /\ page \in Revisions /\ card \in Actions \cup {None} /\ comp \in Workspaces
      /\ control \in Controllers
  BY DEF ITyped, Scalars
<1>3. CallsInOrder(calls', page', card, comp)
  BY <1>1, <1>2, ReceivingInOrder DEF Ordered
<1>4. CallsInOrder(calls', page', card', comp)
  BY <1>3, CardChanges
<1>5. Heard(calls', page', comp)
  BY <1>1, <1>2, ReceivingHeard DEF Ordered
<1>6. Followers(control', page', comp)
  <2>1. UpTo(page, page') /\ UpTo(page', page')
    BY DEF PageAfter, UpTo
  <2>2. control.observed \in Workspaces /\ page \in Workspaces /\ page' \in Workspaces
    BY <1>2, RevisionIsWorkspace DEF Controllers
  <2>3. control'.observed = Nothing \/ UpTo(control'.observed, page')
    BY <2>1, <2>2, UpToTransitive DEF Ordered, Followers
  <2>4. page.rev \in Nat /\ page'.rev \in Nat /\ control.accepted \in Nat
    BY <1>2, ConstantsAssumption DEF Revisions, Controllers
  <2>5. page' = page \/ page.rev < page'.rev
    BY DEF PageAfter
  <2>6. control'.accepted <= page'.rev
    BY <2>4, <2>5 DEF Ordered, Followers
  <2>7. control'.accepted = page'.rev => UpTo(page', comp)
    BY <2>4, <2>5 DEF Ordered, Followers
  <2>. QED
    BY <2>3, <2>6, <2>7 DEF Followers
<1>. QED
  BY <1>4, <1>5, <1>6 DEF Ordered

LEMMA ReceiveAnswerOrdered == ITyped /\ Ordered /\ ReceiveAnswer => Ordered'
<1>. SUFFICES ASSUME ITyped, Ordered, ReceiveAnswer PROVE Ordered'
  OBVIOUS
<1>1. Answered({"ask"}) /\ calls' = Tail(calls)
  BY DEF ReceiveAnswer
<1>2. page' = page /\ card' = card /\ control' = control /\ comp' = comp
  BY DEF ReceiveAnswer, pageVars, compilerVars
<1>3. page' \in Revisions /\ PageAfter(calls[1], page, page')
  BY <1>1, <1>2 DEF ITyped, Scalars, PageAfter, Change, Answered
<1>. QED
  BY <1>1, <1>2, <1>3, ReceivingOrdered

LEMMA ReceiveDiscardOrdered == ITyped /\ Ordered /\ ReceiveDiscard => Ordered'
<1>. SUFFICES ASSUME ITyped, Ordered, ReceiveDiscard PROVE Ordered'
  OBVIOUS
<1>1. Answered({"discard"}) /\ calls' = Tail(calls)
  BY DEF ReceiveDiscard
<1>2. page' = page /\ card' = card /\ control' = control /\ comp' = comp
  BY DEF ReceiveDiscard, pageVars, compilerVars
<1>3. page' \in Revisions /\ PageAfter(calls[1], page, page')
  BY <1>1, <1>2 DEF ITyped, Scalars, PageAfter, Change, Answered
<1>. QED
  BY <1>1, <1>2, <1>3, ReceivingOrdered

LEMMA ReceiveTurnOrdered == ITyped /\ Ordered /\ ReceiveTurn => Ordered'
<1>. SUFFICES ASSUME ITyped, Ordered, ReceiveTurn PROVE Ordered'
  OBVIOUS
<1>1. Answered({"turn"}) /\ calls' = Tail(calls)
  BY DEF ReceiveTurn
<1>2. page' = page /\ control' = control /\ comp' = comp
  BY DEF ReceiveTurn, compilerVars
<1>3. page' \in Revisions /\ PageAfter(calls[1], page, page')
  BY <1>1, <1>2 DEF ITyped, Scalars, PageAfter, Change, Answered
<1>4. card' = card \/ UpTo(card'.at, page')
  <2>1. 1 \in 1..Len(calls) /\ calls[1].kind = "turn" /\ Replied(calls[1])
    BY <1>1, AnsweredFirst
  <2>2. InOrder(calls, 1, page, card, comp)
    BY <2>1 DEF Ordered, CallsInOrder
  <2>3. \A u : ~Ahead(u, calls, 1 - 1)
    BY DEF Ahead
  <2>4. Ok(calls[1]) => UpTo(calls[1].reply.value.at, page)
    BY <2>1, <2>2, <2>3 DEF InOrder
  <2>. QED
    BY <1>2, <2>1, <2>4 DEF ReceiveTurn, Ok
<1>. QED
  BY <1>1, <1>2, <1>3, <1>4, ReceivingOrdered

\* A replaced workspace that the model's history lets pass is of a greater revision.
LEMMA ReplacedIsGreater ==
    ASSUME ITyped, NEW w \in Revisions, Replaced(w), ~reused',
           control.observed \in Revisions
    PROVE  page' = w /\ page.rev < w.rev
<1>1. page' = w
  BY DEF Replaced
<1>2. control.observed # Nothing
  BY NothingIsNoRevision
<1>3. ~(w.rev <= page.rev)
  BY <1>2, Zenon DEF Replaced
<1>4. page.rev \in Nat /\ w.rev \in Nat
  BY ConstantsAssumption DEF ITyped, Scalars, Revisions
<1>. QED
  BY <1>1, <1>3, <1>4

LEMMA ReceiveOperationOrdered ==
    ITyped /\ Ordered /\ ReceiveOperation => reused' \/ Ordered'
<1>. SUFFICES ASSUME ITyped, Ordered, ReceiveOperation, ~reused' PROVE Ordered'
  OBVIOUS
<1>1. Answered(Operations) /\ card' = card /\ comp' = comp
  BY DEF ReceiveOperation, compilerVars
<1>2. calls[1].kind \in Operations /\ 1 \in 1..Len(calls)
  BY <1>1, AnsweredFirst
<1>3. control.observed \in Revisions
  BY <1>2, Observing DEF Edits, Operations
<1>4. ~Change(calls[1])
  BY <1>2 DEF Change, Operations
<1>5. page' \in Revisions /\ PageAfter(calls[1], page, page')
  <2>1. CASE page' = page
    BY <1>4, <2>1 DEF PageAfter, ITyped, Scalars
  <2>2. ASSUME page.rev < MaxRevision,
               NEW t \in Texts, Replaced([rev |-> page.rev + 1, text |-> t])
        PROVE  page' \in Revisions /\ page.rev < page'.rev
    <3> DEFINE w == [rev |-> page.rev + 1, text |-> t]
    <3>1. w \in Revisions
      BY <2>2, ConstantsAssumption DEF ITyped, Scalars, Revisions
    <3>2. Replaced(w)
      BY <2>2
    <3>. HIDE DEF w
    <3>. QED
      BY <1>3, <3>1, <3>2, ReplacedIsGreater
  <2>3. \/ page' = page
        \/ /\ page.rev < MaxRevision
           /\ \E t \in Texts : Replaced([rev |-> page.rev + 1, text |-> t])
    BY DEF ReceiveOperation
  <2>. QED
    BY <1>4, <2>1, <2>2, <2>3 DEF PageAfter
<1>6. PICK rt : Returns(rt)
  BY DEF ReceiveOperation
<1>. QED
  BY <1>1, <1>5, <1>6, ReturnsTyped, ReceivingOrdered

LEMMA ReceiveApplyOrdered == ITyped /\ Ordered /\ ReceiveApply => reused' \/ Ordered'
<1>. SUFFICES ASSUME ITyped, Ordered, ReceiveApply, ~reused' PROVE Ordered'
  OBVIOUS
<1>1. Answered({"apply"}) /\ comp' = comp
  BY DEF ReceiveApply, compilerVars
<1>2. /\ calls[1] \in Calls /\ WellFormed(calls[1]) /\ Replied(calls[1])
      /\ calls[1].kind = "apply" /\ 1 \in 1..Len(calls)
  BY <1>1, AnsweredFirst
<1>3. page \in Revisions /\ control \in Controllers
  BY DEF ITyped, Scalars
<1>4. CASE /\ ApplyFails
           /\ calls' = Tail(calls)
           /\ UNCHANGED <<pageVars, runtime, control, reused, late>>
  <2>1. page' = page /\ card' = card /\ control' = control /\ calls' = Tail(calls)
    BY <1>4 DEF pageVars
  <2>2. PageAfter(calls[1], page, page')
    BY <1>4, <2>1 DEF PageAfter, Change, Ok, ApplyFails
  <2>. QED
    BY <1>1, <1>3, <2>1, <2>2, ReceivingOrdered
<1>5. CASE CompilationEnds
  <2>1. page' = page /\ card' = None /\ Returns("ready")
    BY <1>5 DEF CompilationEnds
  <2>2. PageAfter(calls[1], page, page')
    BY <1>5, <2>1 DEF PageAfter, Change, CompilationEnds
  <2>. QED
    BY <1>1, <1>3, <2>1, <2>2, ReturnsTyped, ReceivingOrdered
<1>6. CASE ChangeEnds
  <2>1. Ok(calls[1]) /\ Change(calls[1])
    BY <1>2, <1>6 DEF ChangeEnds, Ok, Change
  <2>2. calls[1].reply.value \in Revisions
    BY <1>2, <2>1, ChangeTyped
  <2>3. control.observed \in Revisions
    BY <1>2, <2>1, Observing
  <2>4. page' = calls[1].reply.value /\ page.rev < page'.rev
    BY <1>6, <2>2, <2>3, ReplacedIsGreater DEF ChangeEnds
  <2>5. PageAfter(calls[1], page, page')
    BY <2>4 DEF PageAfter
  <2>6. /\ calls' = Tail(calls) /\ card' = None
        /\ control' = Followed(control, page', phase', runtime)
    BY <1>6 DEF ChangeEnds
  <2>7. /\ control'.observed \in {page', control.observed}
        /\ control'.accepted = control.accepted
    BY <1>3, <2>2, <2>4, <2>6, FollowedTyped
  <2>. QED
    BY <1>1, <2>2, <2>4, <2>5, <2>6, <2>7, ReceivingOrdered
<1>. QED
  BY <1>4, <1>5, <1>6, ReceiveApplyCases

LEMMA ReceiveOpeningOrdered == ITyped /\ Ordered /\ ReceiveOpening => Ordered'
<1>. SUFFICES ASSUME ITyped, Ordered, ReceiveOpening PROVE Ordered'
  OBVIOUS
<1> DEFINE c == calls[1]
           s == Sent(OpenCall(control.observed))
           q == Tail(calls)
<1>1. /\ Answered({"open"})
      /\ control'.observed = control.observed
      /\ control'.accepted = IF c.reply.is = "ok" THEN c.about.rev
                             ELSE control.accepted
      /\ calls' = IF control'.inFlight THEN Append(q, s) ELSE q
  BY OpeningReceived
<1>2. /\ IsQueue(q) /\ c.about \in Revisions /\ c.kind = "open" /\ 1 \in 1..Len(calls)
      /\ Replied(c) /\ calls # <<>>
  BY <1>1, AnsweredFirst
<1>3. control.observed \in Revisions /\ UpTo(control.observed, page)
  BY <1>2, Observing, NothingIsNoRevision DEF Edits, Ordered, Followers
<1>4. /\ s \in Calls /\ ~Ok(s) /\ s.kind = "open" /\ s.about = control.observed
  BY <1>3, CallMade, CallSent DEF OpenCall, Edits
<1>5. /\ page' = page /\ card' = card /\ comp' = comp /\ page \in Revisions
      /\ card \in Actions \cup {None} /\ comp \in Workspaces /\ IsQueue(calls)
  BY DEF ReceiveOpening, compilerVars, ITyped, Scalars
<1>6. PageAfter(c, page, page)
  BY <1>2 DEF PageAfter, Change
<1>7. CallsInOrder(q, page, card, comp) /\ Heard(q, page, comp)
  BY <1>2, <1>5, <1>6, ReceivingInOrder, ReceivingHeard DEF Ordered
<1>8. InOrder(calls, 1, page, card, comp)
  BY <1>2 DEF Ordered, CallsInOrder
<1>9. UpTo(c.about, page) /\ (c.reply.is = "ok" => UpTo(c.about, comp))
  BY <1>2, <1>8 DEF InOrder, Edits, Ok
<1>. HIDE DEF s, q
<1>10. CallsInOrder(calls', page, card, comp) /\ Heard(calls', page, comp)
  <2>1. CallsInOrder(Append(q, s), page, card, comp)
    BY <1>2, <1>3, <1>4, <1>7, SentInOrder
  <2>2. Heard(Append(q, s), page, comp)
    BY <1>2, <1>4, <1>7, SendingHeard
  <2>. QED
    BY <1>1, <1>7, <2>1, <2>2
<1>11. Followers(control', page, comp)
  <2>1. c.about.rev \in Nat /\ page.rev \in Nat
    BY <1>2, <1>5, ConstantsAssumption DEF Revisions
  <2>2. CASE c.reply.is = "ok"
    <3>1. c.about.rev <= page.rev /\ (c.about.rev = page.rev => c.about = page)
      BY <1>9, <2>1 DEF UpTo
    <3>. QED
      BY <1>1, <1>3, <1>9, <2>2, <3>1 DEF Followers
  <2>3. CASE c.reply.is # "ok"
    BY <1>1, <2>3 DEF Ordered, Followers
  <2>. QED
    BY <2>2, <2>3
<1>. QED
  BY <1>5, <1>10, <1>11 DEF Ordered

-----------------------------------------------------------------------------
(* The invariant, and what follows from it.                                *)

\* What a page that has gone back to an earlier revision has done stays done.
LEMMA ReusedStays == [Next]_vars /\ reused => reused'
<1>. SUFFICES ASSUME [Next]_vars, reused PROVE reused'
  OBVIOUS
<1>1. ASSUME NEW w, Replaced(w) PROVE reused'
  BY <1>1, Zenon DEF Replaced
<1>2. CASE User
  <2>1. CASE Edit
    BY <1>1, <2>1 DEF Edit
  <2>2. CASE Operate \/ Ask \/ Turn \/ Accept \/ Discard
    BY <2>2 DEF Operate, Ask, Turn, Accept, Discard, historyVars
  <2>3. CASE EnsureRevision \/ RetryLanguage
    BY <2>3 DEF EnsureRevision, RetryLanguage, Synchronize, historyVars
  <2>4. CASE RetryCompiler
    BY <2>4 DEF RetryCompiler, Recreated, historyVars
  <2>. QED
    BY <1>2, <2>1, <2>2, <2>3, <2>4 DEF User
<1>3. CASE Page
  <2>1. CASE ReceiveOperation
    BY <1>1, <2>1 DEF ReceiveOperation
  <2>2. CASE ReceiveApply
    BY <1>1, <2>2, ReceiveApplyCases DEF CompilationEnds, ChangeEnds
  <2>3. CASE ReceiveOpening \/ ReceiveAnswer \/ ReceiveTurn \/ ReceiveDiscard
    BY <2>3 DEF ReceiveOpening, ReceiveAnswer, ReceiveTurn, ReceiveDiscard, historyVars
  <2>. QED
    BY <1>3, <2>1, <2>2, <2>3 DEF Page
<1>4. CASE Compiler
  BY <1>4 DEF Compiler, Open, Compile, Question, Preview, Typed, Apply, Dismiss,
              Answer, Raise, historyVars
<1>5. CASE Restore \/ Adopt
  BY <1>1, <1>5 DEF Restore, Adopt
<1>6. CASE TimerFires \/ Initialized \/ InitializationFails \/ WorkerFails \/ ComeBack
  BY <1>6 DEF TimerFires, Synchronize, Initialized, InitializationFails, WorkerFails,
              ComeBack, Recreated, historyVars
<1>7. CASE UNCHANGED vars
  BY <1>7 DEF vars, historyVars
<1>. QED
  BY <1>2, <1>3, <1>4, <1>5, <1>6, <1>7 DEF Next

LEMMA OrderedStep ==
    ITyped /\ (reused \/ Ordered) /\ [Next]_vars => reused' \/ Ordered'
<1>. SUFFICES ASSUME ITyped, reused \/ Ordered, [Next]_vars, ~reused' PROVE Ordered'
  OBVIOUS
<1>1. Ordered
  BY ReusedStays
<1>2. CASE User
  BY <1>1, <1>2, EditOrdered, OperateOrdered, AskOrdered, EnsureRevisionOrdered,
     TurnOrdered, AcceptOrdered, DiscardOrdered, RetryLanguageOrdered, RecreatedOrdered
     DEF User, RetryCompiler
<1>3. CASE Page
  BY <1>1, <1>3, ReceiveOpeningOrdered, ReceiveOperationOrdered, ReceiveAnswerOrdered,
     ReceiveTurnOrdered, ReceiveApplyOrdered, ReceiveDiscardOrdered DEF Page
<1>4. CASE Compiler
  BY <1>1, <1>4, OpenOrdered, CompileOrdered, QuestionOrdered, PreviewOrdered,
     TypedOrdered, ApplyOrdered, DismissOrdered, RaiseOrdered DEF Compiler
<1>5. CASE \/ TimerFires \/ Initialized \/ Restore \/ Adopt
           \/ InitializationFails \/ WorkerFails \/ ComeBack
  BY <1>1, <1>5, TimerFiresOrdered, InitializedOrdered, RestoreOrdered, AdoptOrdered,
     InitializationFailsOrdered, WorkerFailsOrdered, RecreatedOrdered DEF ComeBack
<1>6. CASE UNCHANGED vars
  BY <1>1, <1>6, SamePageOrdered DEF vars, pageVars, compilerVars
<1>. QED
  BY <1>2, <1>3, <1>4, <1>5, <1>6 DEF Next

\* The results on the page are about its text.
Shown == {shown.text, artifacts} \subseteq {None, page.text}

\* The steps that change the page's text or its results.
LEMMA ResultsKept ==
    ASSUME [Next]_vars
    PROVE  \/ ReceiveOpening \/ ReceiveOperation \/ ReceiveApply
           \/ shown' = NoReport /\ artifacts' = None /\ late' = late
           \/ page' = page /\ shown' = shown /\ artifacts' = artifacts /\ late' = late
<1>1. CASE User
  BY <1>1 DEF User, Edit, Replaced, Operate, Ask, Turn, Accept, Discard, EnsureRevision,
              RetryLanguage, Synchronize, RetryCompiler, Recreated, pageVars, historyVars
<1>2. CASE Page
  BY <1>2 DEF Page, ReceiveAnswer, ReceiveTurn, ReceiveDiscard, pageVars, historyVars
<1>3. CASE Compiler
  BY <1>3 DEF Compiler, Open, Compile, Question, Preview, Typed, Apply, Dismiss,
              Answer, Replies, Raise, pageVars, historyVars
<1>4. CASE Restore \/ Adopt
  BY <1>4 DEF Restore, Adopt, Replaced
<1>5. CASE TimerFires \/ Initialized \/ InitializationFails \/ WorkerFails \/ ComeBack
  BY <1>5 DEF TimerFires, Synchronize, Initialized, InitializationFails, WorkerFails,
              ComeBack, Recreated, pageVars, historyVars
<1>6. CASE UNCHANGED vars
  BY <1>6 DEF vars, pageVars, historyVars
<1>. QED
  BY <1>1, <1>2, <1>3, <1>4, <1>5, <1>6 DEF Next

\* The first call is about the page's text when it is about the page's revision.
LEMMA LatestIsPage ==
    ASSUME ITyped, Ordered, NEW kinds, Answered(kinds), calls[1].kind \notin Edits, Latest
    PROVE  calls[1].about = page
<1>1. 1 \in 1..Len(calls) /\ calls[1].about \in Revisions /\ page \in Revisions
  BY AnsweredFirst DEF ITyped, Scalars
<1>2. UpTo(calls[1].about, page)
  BY <1>1 DEF Ordered, CallsInOrder, InOrder
<1>. QED
  BY <1>1, <1>2, ConstantsAssumption DEF UpTo, Latest, Revisions

LEMMA ResultsStep ==
    ASSUME ITyped, reused \/ Ordered, ResultsMatchText, [Next]_vars
    PROVE  ResultsMatchText'
<1>. SUFFICES ASSUME ~reused', ~late' PROVE Shown'
  BY DEF ResultsMatchText, Shown
<1>1. ~reused /\ Ordered
  BY ReusedStays
<1>2. ~late => Shown
  BY <1>1 DEF ResultsMatchText, Shown
<1>3. CASE ReceiveOpening
  <2>1. Answered({"open"}) /\ calls[1].kind \notin Edits /\ Shown
    BY <1>2, <1>3 DEF ReceiveOpening, Answered, Edits, historyVars
  <2>2. page' = page /\ artifacts' = artifacts
    BY <1>3 DEF ReceiveOpening
  <2>3. shown' = shown \/ (Latest /\ shown'.text = calls[1].about.text)
    BY <1>3 DEF ReceiveOpening, Full
  <2>. QED
    BY <1>1, <2>1, <2>2, <2>3, LatestIsPage DEF Shown
<1>4. CASE ReceiveOperation
  <2>1. Answered(Operations) /\ calls[1].kind \notin Edits /\ Shown
    BY <1>2, <1>4 DEF ReceiveOperation, Answered, Edits, Operations
  <2>2. CASE \E w : Replaced(w)
    BY <2>2 DEF Replaced, NoReport, Shown
  <2>3. CASE OperationReported
    <3>1. shown' = shown \/ (Latest /\ shown'.text = calls[1].about.text)
      BY <2>3 DEF OperationReported, Full, Partial
    <3>. QED
      BY <1>1, <2>1, <2>3, <3>1, LatestIsPage DEF OperationReported, Shown
  <2>. QED
    BY <1>4, <2>2, <2>3, OperationEnds
<1>5. CASE ReceiveApply
  <2>1. Answered({"apply"})
    BY <1>5 DEF ReceiveApply
  <2>2. CASE ApplyFails /\ UNCHANGED <<pageVars, runtime, control, reused, late>>
    BY <1>2, <2>2 DEF pageVars, Shown
  <2>3. CASE CompilationEnds
    <3>1. 1 \in 1..Len(calls) /\ calls[1].kind = "apply" /\ Ok(calls[1])
      BY <2>1, <2>3, AnsweredFirst DEF CompilationEnds, Ok
    <3>2. calls[1].about = calls[1].arg.at
      BY <1>1, <3>1 DEF Ordered, CallsInOrder, InOrder
    <3>3. page = calls[1].about /\ page' = page
      BY <2>3 DEF CompilationEnds
    <3>4. shown'.text = None /\ artifacts' = page'.text
      BY <2>3, <3>2, <3>3 DEF CompilationEnds, Partial
    <3>. QED
      BY <3>4 DEF Shown
  <2>4. CASE ChangeEnds
    BY <2>4 DEF ChangeEnds, Replaced, NoReport, Shown
  <2>. QED
    BY <1>5, <2>2, <2>3, <2>4, ReceiveApplyCases
<1>6. CASE shown' = NoReport /\ artifacts' = None
  BY <1>6 DEF NoReport, Shown
<1>7. CASE page' = page /\ shown' = shown /\ artifacts' = artifacts /\ late' = late
  BY <1>2, <1>7 DEF Shown
<1>. QED
  BY <1>3, <1>4, <1>5, <1>6, <1>7, ResultsKept

IInv ==
    /\ ITyped
    /\ reused \/ Ordered
    /\ ResultsMatchText

LEMMA IInvInit == Init => IInv
<1>1. Init => ResultsMatchText
  BY DEF Init, NoReport, ResultsMatchText
<1>. QED
  BY <1>1, InitTyped, InitOrdered DEF IInv

LEMMA IInvStep == IInv /\ [Next]_vars => IInv'
BY TypedStep, OrderedStep, ResultsStep DEF IInv

LEMMA IInvInvariant == Spec => []IInv
BY IInvInit, IInvStep, PTL DEF Spec

\* The diagnostics and artifacts that the page presents are about its text, with
\* any number of calls in flight, edits, restored and adopted records and workers
\* lost, as long as the page's revision only grows and no edit overtakes an
\* accepted compilation (app-state.ts, languageSynchronized and operationSucceeded).
THEOREM ResultsAlwaysMatch == Spec => []ResultsMatchText
BY IInvInvariant, PTL DEF IInv

\* What a provider of the editor is handed, when the page's revision is the one
\* observed, is what the compiler says of the page's text
\* (BrowserLanguageServiceController.ts, languageRequest).
THEOREM AnswersAlwaysMatch == Spec => AnswersMatchText
<1>1. ASSUME IInv, ReceiveAnswer, Delivered(calls[1]),
             control.observed.rev = page.rev, ~reused
      PROVE  calls[1].reply.value = page.text
  <2>1. Answered({"ask"}) /\ ITyped /\ Ordered
    BY <1>1 DEF ReceiveAnswer, IInv
  <2>2. 1 \in 1..Len(calls) /\ calls[1].kind = "ask" /\ Ok(calls[1])
    BY <1>1, <2>1, AnsweredFirst DEF Delivered, Ok
  <2>3. calls[1].about = page
    BY <1>1, <2>1, <2>2, LatestIsPage DEF Delivered, Latest, Edits
  <2>. QED
    BY <2>1, <2>2, <2>3 DEF Ordered, CallsInOrder, InOrder
<1>2. IInv /\ [Next]_vars =>
          [/\ ReceiveAnswer
           /\ Delivered(calls[1])
           /\ control.observed.rev = page.rev
           /\ ~reused
           => calls[1].reply.value = page.text]_vars
  BY <1>1
<1>. QED
  BY <1>2, IInvInvariant, PTL DEF Spec, AnswersMatchText

\* What the assistant has previewed is carried out over the text that it was
\* previewed for and that the user had before them (browser/conversation.py, apply,
\* reached from handleAiAccept in App.tsx).
THEOREM AppliedAlwaysPreviewed == Spec => AppliedOverPreviewed
<1>1. ASSUME IInv, Apply, ~reused, calls'[First].reply.is = "ok"
      PROVE  calls[First].about = calls[First].arg.at
  <2>1. ITyped /\ Ordered /\ Working({"apply"})
    BY <1>1 DEF IInv, Apply
  <2>2. /\ First \in 1..Len(calls) /\ calls[First].kind = "apply"
        /\ ~Replied(calls[First]) /\ IsQueue(calls) /\ calls[First].about \in Revisions
    BY <2>1, WorkedOn DEF ITyped
  <2>3. Current(calls[First])
    <3>. SUFFICES ASSUME ~Current(calls[First]) PROVE FALSE
      OBVIOUS
    <3>1. calls' = [calls EXCEPT ![First].reply = Stale]
      BY <1>1 DEF Apply, Answer, Replies
    <3>2. calls'[First].reply = Stale
      BY <2>2, <3>1, StaleTyped, AnsweredElements DEF With
    <3>. QED
      BY <1>1, <3>2, StaleTyped
  <2>. QED
    BY <2>1, <2>2, <2>3, CurrentIsPreviewed
<1>2. IInv /\ [Next]_vars =>
          [\/ ~Apply
           \/ reused
           \/ calls'[First].reply.is # "ok"
           \/ calls[First].about = calls[First].arg.at]_vars
  BY <1>1
<1>. QED
  BY <1>2, IInvInvariant, PTL DEF Spec, AppliedOverPreviewed
=============================================================================
