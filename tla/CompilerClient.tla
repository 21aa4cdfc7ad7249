--------------------------- MODULE CompilerClient ---------------------------
(***************************************************************************)
(* web/src: the page of the playground and the compiler in its worker.     *)
(*                                                                         *)
(* The page (App.tsx, app-state.ts) holds the workspace, a text under a    *)
(* revision number.  The user edits it; a record is restored, or adopted   *)
(* from another tab (PersistentWorkspace).  The language controller opens  *)
(* each revision in the compiler after a pause, one at a time.  Validate,  *)
(* Format and Generate, the questions of the editor's providers, and the   *)
(* assistant's previews and their confirmation are calls to the same       *)
(* compiler, by messages that the worker answers in order.                 *)
(*                                                                         *)
(* The compiler (browser/api.py) knows one workspace, accepts only greater *)
(* revisions and answers STALE_WORKSPACE to a question about another one.  *)
(* A confirmed preview changes the compiler's workspace first, under the   *)
(* next revision number, and the page takes over what it answers; if the   *)
(* user has edited meanwhile, two texts have the same number.              *)
(*                                                                         *)
(* A text stands for the files of a workspace and for the diagnostics and  *)
(* artifacts that follow from it.  A session with the assistant is reduced *)
(* to its pending preview, and a turn to the call that yields it; module   *)
(* Conversation has both in full.                                          *)
(* Left out: the views that ask for graphs and analyses, which keep their  *)
(* last answer; the file that is selected; several cards of the assistant; *)
(* and "/reset", whose call never leaves the page (App.tsx takes the method *)
(* conversationReset off the client, and so it has no `this').  It does    *)
(* end the wait for a turn in flight: turns are not one at a time.         *)
(***************************************************************************)
EXTENDS Naturals, Sequences, SequencesExt

CONSTANTS
    Texts,          \* contents of a workspace
    Demo,           \* the built-in one
    MaxRevision,    \* bound: revisions the page gives or loads
    MaxCalls,       \* bound: calls in flight beside an opening
    MaxFailures,    \* bound: calls that fail, workers that stop, pages reused
    None

\* A text under a revision number; what the compiler previews: at a workspace, a
\* new text or (None) artifacts; what it answers; and the calls of the page.
Workspaces == [rev : 0..MaxRevision, text : Texts \cup {None}]
Actions == [at : Workspaces, to : Texts \cup {None}]
Answers == [is : {"ok", "stale", "refused", "broken"},
            value : {None} \cup Texts \cup Actions \cup Workspaces]
Operations == {"validate", "format", "generate"}

\* The diagnostics on the page: those of a text, or (None) of no text; partial
\* when what an operation said takes their place: the active file only, after
\* Format, or what loading the files reports, after Generate.
Reports == [text : Texts \cup {None}, partial : BOOLEAN]
NoReport == [text |-> None, partial |-> FALSE]
Full(t) == [text |-> t, partial |-> FALSE]
Partial(t) == [text |-> t, partial |-> TRUE]

Calls == [kind : {"open", "ask", "turn", "apply", "discard"} \cup Operations,
          about : Workspaces, arg : Actions \cup {None},
          reply : Answers \cup {None}]

ASSUME ConstantsAssumption ==
    /\ Demo \in Texts
    /\ MaxRevision \in Nat \ {0}
    /\ MaxCalls \in Nat
    /\ MaxFailures \in Nat

ASSUME NoneAssumption == None \notin Texts \cup Actions \cup Answers

VARIABLES
    page,       \* [rev, text]: the workspace of the page (workspaceRef)
    phase,      \* "restoring", "recovery" or "open" (persistentWorkspace.phase)
    loading,    \* the stored record has been asked for
    runtime,    \* "loading", "ready", "working" or "failed"
    shown,      \* the diagnostics on the page
    artifacts,  \* the text that the current artifacts (those whose
                \* artifactRevision is the page's) came from, or None
    card,       \* the assistant's preview that can be accepted, or None
    control,    \* the language controller
    worker,     \* "booting", "up" or "down" (the client is terminal)
    calls,      \* the client's calls, in order; those with a reply are done
    comp,       \* [rev, text]: the compiler's workspace
    pending,    \* the preview that the conversation has pending, or None
    failures,   \* how many failures there have been
    reused,     \* history: the page, observed, took a revision no greater than its
                \* last, or the compiler one that the page does not know of
    late        \* history: an accepted compilation came after an edit

pageVars == <<page, phase, loading, shown, artifacts, card>>
compilerVars == <<comp, pending>>
historyVars == <<reused, late>>
vars == <<pageVars, runtime, control, worker, calls, compilerVars, failures,
          historyVars>>

Nothing == [rev |-> 0, text |-> None]

\* observed: the workspace to synchronize; accepted: the revision that is;
\* inFlight: an openWorkspace is; waiting: the revisions of the loops that
\* wait for it; timer: the pause after an edit runs; refused: the revision whose
\* opening failed, with the offer to try again (languageCanRetry), or 0.
Controllers == [observed : Workspaces, accepted : 0..MaxRevision,
                inFlight : BOOLEAN, waiting : SUBSET (0..MaxRevision),
                timer : BOOLEAN, refused : 0..MaxRevision]
NewController == [observed |-> Nothing, accepted |-> 0, inFlight |-> FALSE,
                  waiting |-> {}, timer |-> FALSE, refused |-> 0]

Init ==
    /\ page = [rev |-> 1, text |-> Demo]
    /\ phase = "restoring"
    /\ loading = TRUE
    /\ runtime = "loading"
    /\ shown = NoReport
    /\ artifacts = None
    /\ card = None
    /\ control = NewController
    /\ worker = "booting"
    /\ calls = <<>>
    /\ comp = Nothing
    /\ pending = None
    /\ failures = 0
    /\ reused = FALSE
    /\ late = FALSE

-----------------------------------------------------------------------------
(* The client (client.ts).                                                 *)

\* An answer, with what it carries.
Reply(is, value) == [is |-> is, value |-> value]
Broken == Reply("broken", None)
Stale == Reply("stale", None)

\* A call about workspace w; what else it carries is in `arg'.
Call(kind, w, arg) == [kind |-> kind, about |-> w, arg |-> arg, reply |-> None]

\* request: a terminal client rejects at once.
Sent(c) == IF worker = "down" THEN [c EXCEPT !.reply = Broken] ELSE c
Send(c) == calls' = Append(calls, Sent(c))

Room == Len(SelectSeq(calls, LAMBDA c : c.kind # "open")) < MaxCalls
\* operationPendingRef.
OperationPending == \E i \in DOMAIN calls : calls[i].kind \in Operations

-----------------------------------------------------------------------------
(* The controller (BrowserLanguageServiceController.ts).                   *)

(* Defects that an edit of this code could introduce, here and below.      *)
(* Each is a variant of the definition its comment names, and is used by   *)
(* nothing.                                                                *)
NobodyWaits(k, rev) ==                        \* Asked: no loop of synchronize
    IF k.observed.rev # rev \/ k.accepted = rev \/ k.inFlight THEN k
    ELSE [k EXCEPT !.inFlight = TRUE]

\* synchronize: open revision rev, or wait for the opening in flight.
Asked(k, rev) ==
    IF k.observed.rev # rev \/ k.accepted = rev THEN k
    ELSE IF k.inFlight THEN [k EXCEPT !.waiting = @ \cup {rev}]
    ELSE [k EXCEPT !.inFlight = TRUE]

\* The controller becomes k; when it opens its workspace the call is made.
Control(k, opens, queue) ==
    /\ control' = k
    /\ calls' = IF opens THEN Append(queue, Sent(Call("open", k.observed, None)))
                ELSE queue

StartsAfresh(k, w) ==                    \* Observed: the opening is forgotten
    [k EXCEPT !.observed = w, !.timer = TRUE, !.inFlight = FALSE]

Observed(k, w) == [k EXCEPT !.observed = w, !.timer = TRUE]

\* The effect of App that follows the workspace, the phase and the runtime.
Followed(k, w, ph, rt) ==
    IF rt = "ready" /\ ph = "open" THEN Observed(k, w) ELSE k

\* synchronize, from the timer, from a provider of the editor that needs the
\* page's revision (ensureRevision), and from retry on the status line.
Synchronize(k) ==
    /\ LET asked == Asked([k EXCEPT !.timer = FALSE], k.observed.rev) IN
       Control(asked, asked.inFlight /\ ~k.inFlight, calls)
    /\ UNCHANGED <<pageVars, runtime, worker, compilerVars, failures, historyVars>>

TimerFires == control.timer /\ Synchronize(control)

EnsureRevision ==
    /\ control.observed.rev = page.rev
    /\ control.accepted # page.rev
    /\ Synchronize(control)

RetryLanguage ==
    /\ control.refused # 0
    /\ runtime # "failed"
    /\ Synchronize([control EXCEPT !.refused = 0])

-----------------------------------------------------------------------------
(* The workspace of the page.                                              *)

\* The page's workspace is replaced (workspaceReplaced, workspaceMutated).
Replaced(w) ==
    /\ page' = w
    /\ shown' = NoReport
    /\ artifacts' = None
    /\ reused' = (reused \/ (control.observed # Nothing /\ w.rev <= page.rev))

\* The user types, renames a file, imports one, or resets to the demo.
Edit ==
    /\ page.rev < MaxRevision
    /\ \E t \in Texts \ {page.text} : Replaced([rev |-> page.rev + 1, text |-> t])
    /\ phase' = "open"
    /\ control' = Followed(control, page', "open", runtime)
    /\ UNCHANGED <<loading, card, runtime, worker, calls, compilerVars,
                   failures, late>>

\* The first load, or one after a failure, ends: a record, no record, a record
\* that cannot be read, or an error of the storage.
Restore ==
    /\ loading
    /\ loading' = FALSE
    /\ \/ /\ \E r \in 1..MaxRevision, t \in Texts :
                Replaced([rev |-> r, text |-> t])
          /\ phase' = "open"
       \/ Replaced([rev |-> 1, text |-> Demo]) /\ phase' = "open"
       \/ /\ phase' \in {"recovery", "open"}
          /\ UNCHANGED <<page, shown, artifacts, reused>>
    /\ control' = Followed(control, page', phase', runtime)
    /\ UNCHANGED <<card, runtime, worker, calls, compilerVars, failures, late>>

\* Another tab has saved a greater revision and this one has nothing unsaved.
Adopt ==
    /\ phase = "open"
    /\ \E r \in page.rev + 1..MaxRevision, t \in Texts :
          Replaced([rev |-> r, text |-> t])
    /\ control' = Followed(control, page', phase, runtime)
    /\ UNCHANGED <<phase, loading, card, runtime, worker, calls, compilerVars,
                   failures, late>>

-----------------------------------------------------------------------------
(* What the user asks for.                                                 *)

\* runOperation.
Operate ==
    /\ runtime = "ready"
    /\ phase = "open"
    /\ ~OperationPending
    /\ Room
    /\ \E kind \in Operations : Send(Call(kind, page, None))
    /\ runtime' = "working"
    /\ UNCHANGED <<pageVars, control, worker, compilerVars, failures, historyVars>>

\* A provider of the editor asks about the observed revision, which was the page's
\* when the provider was called, once it is synchronized (EnsureRevision).  Each
\* provider asks on its own: several questions may be in flight.
Ask ==
    /\ control.observed # Nothing
    /\ control.accepted = control.observed.rev
    /\ Room
    /\ Send(Call("ask", control.observed, None))
    /\ UNCHANGED <<pageVars, runtime, control, worker, compilerVars, failures,
                   historyVars>>

\* A request to the assistant (runConversation).
Turn ==
    /\ runtime = "ready"
    /\ Room
    /\ Send(Call("turn", page, None))
    /\ UNCHANGED <<pageVars, runtime, control, worker, compilerVars, failures,
                   historyVars>>

\* Accept, on the assistant's card.
Accept ==
    /\ card # None
    /\ Room
    /\ Send(Call("apply", page, card))
    /\ UNCHANGED <<pageVars, runtime, control, worker, compilerVars, failures,
                   historyVars>>

\* Discard, on the card; nobody waits for the answer.
Discard ==
    /\ card # None
    /\ Room
    /\ Send(Call("discard", page, card))
    /\ card' = None
    /\ UNCHANGED <<page, phase, loading, shown, artifacts, runtime, control,
                   worker, compilerVars, failures, historyVars>>

-----------------------------------------------------------------------------
(* The compiler (browser/api.py, browser/conversation.py).                 *)

First == SelectInSeq(calls, LAMBDA c : c.reply = None)

\* The worker answers and is left with workspace w and pending preview a.  A
\* session of an earlier revision is of no more use (_session).
Replies(reply, w, a) ==
    /\ calls' = [calls EXCEPT ![First].reply = reply]
    /\ comp' = w
    /\ pending' = IF w.rev = comp.rev THEN a ELSE None
    /\ UNCHANGED <<pageVars, runtime, control, worker, failures, late>>

Answer(reply, w, a) == Replies(reply, w, a) /\ UNCHANGED reused

Working(kinds) == worker = "up" /\ First > 0 /\ calls[First].kind \in kinds

\* open_workspace, and _reopen_current_workspace.
Opened(w) ==
    IF w.rev < comp.rev \/ (w.rev = comp.rev /\ w.text # comp.text)
    THEN "stale" ELSE "ok"

Open ==
    /\ Working({"open", "validate"})
    /\ LET w == calls[First].about IN
       Answer(Reply(Opened(w), None), IF Opened(w) = "ok" THEN w ELSE comp, pending)

\* compile and formatSource take their sources from the call.
Compile ==
    /\ Working({"format", "generate"})
    /\ Answer(Reply("ok", None), comp, pending)

\* _validate_language_request.
Question ==
    /\ Working({"ask"})
    /\ Answer(IF calls[First].about.rev = comp.rev THEN Reply("ok", comp.text)
              ELSE Stale, comp, pending)

\* The workspace once the text of action a is confirmed.
Confirmed(a) == [rev |-> comp.rev + 1, text |-> a.to]

\* A turn, in a session of the compiler's revision, ends in a preview, of a new
\* text or of artifacts, or in a reply that is no concern of the page.
Preview ==
    /\ Working({"turn"})
    /\ \/ Answer(Stale, comp, pending)
       \/ \E to \in Texts \cup {None} :
               LET action == [at |-> comp, to |-> to] IN
               /\ calls[First].about.rev = comp.rev
               /\ to # comp.text
               /\ to = None \/ comp.rev < MaxRevision
               /\ Answer(Reply("ok", action), comp, action)

\* On a turn that says "apply it" or "discard it" the engine carries out, or drops,
\* the pending preview, in an answer that the page takes for an explanation.
Typed ==
    /\ Working({"turn"})
    /\ calls[First].about.rev = comp.rev
    /\ pending # None
    /\ \/ Answer(Stale, comp, None)
       \/ /\ pending.to # None
          /\ Replies(Stale, Confirmed(pending), None)
          /\ reused' = TRUE

RevisionNotChecked(c) ==                 \* Current: the page's is not compared
    pending # None /\ pending = c.arg

\* What _session and apply require: the compiler's revision, a session of that
\* revision, and its pending action.
Current(c) ==
    /\ c.about.rev = comp.rev
    /\ pending = c.arg

\* The confirmed text becomes the compiler's workspace, under the next revision.
Apply ==
    LET c == calls[First] IN
    /\ Working({"apply"})
    /\ IF ~Current(c) THEN Answer(Stale, comp, pending)
       ELSE LET w == IF c.arg.to = None THEN comp
                     ELSE Confirmed(c.arg)
            IN  Answer(Reply("ok", w), w, None)

Dismiss ==
    LET c == calls[First] IN
    /\ Working({"discard"})
    /\ Answer(Reply("ok", None), comp, IF Current(c) THEN None ELSE pending)

\* The Python code raises: COMPILER_FAILED, or for an opening also another error.
Raise ==
    /\ Working({"open", "validate", "format", "generate", "ask", "turn", "apply"})
    /\ failures < MaxFailures
    /\ failures' = failures + 1
    /\ \E r \in {"broken"} \cup
                (IF calls[First].kind \in {"open", "validate"} THEN {"refused"} ELSE {}) :
          calls' = [calls EXCEPT ![First].reply = Reply(r, None)]
    /\ UNCHANGED <<pageVars, runtime, control, worker, compilerVars, historyVars>>

-----------------------------------------------------------------------------
(* The life of the worker.                                                 *)

\* Every call that waits is rejected; one already answered is not.
Rejected == [i \in DOMAIN calls |->
                IF calls[i].reply = None THEN [calls[i] EXCEPT !.reply = Broken]
                ELSE calls[i]]

\* initialize has succeeded: the page synchronizes at once.
Initialized ==
    /\ worker = "booting"
    /\ worker' = "up"
    /\ runtime' = "ready"
    /\ LET k == Asked([Observed(control, page) EXCEPT !.timer = FALSE], page.rev)
       IN  Control(Followed(k, page, phase, "ready"),
                   k.inFlight /\ ~control.inFlight, calls)
    /\ UNCHANGED <<pageVars, compilerVars, failures, historyVars>>

InitializationFails ==
    /\ worker = "booting"
    /\ failures < MaxFailures
    /\ failures' = failures + 1
    /\ worker' = "down"
    /\ runtime' = "failed"
    /\ calls' = Rejected
    /\ UNCHANGED <<pageVars, control, compilerVars, historyVars>>

\* transitionToTerminal: an error of the worker, or an answer of no known form.
WorkerFails ==
    /\ worker = "up"
    /\ failures < MaxFailures
    /\ failures' = failures + 1
    /\ worker' = "down"
    /\ calls' = Rejected
    /\ UNCHANGED <<pageVars, runtime, control, compilerVars, historyVars>>

\* retryCompiler: everything is created again.  The rejection of an operation in
\* flight is reported after the retry is.
Recreated ==
    /\ control' = NewController
    /\ worker' = "booting"
    /\ calls' = <<>>
    /\ comp' = Nothing
    /\ pending' = None
    /\ UNCHANGED <<pageVars, historyVars>>

RetryCompiler ==
    /\ runtime = "failed"
    /\ runtime' = IF OperationPending THEN "failed" ELSE "loading"
    /\ Recreated
    /\ UNCHANGED failures

\* A page that comes back from the cache of the browser (pagehide, pageshow).
ComeBack ==
    /\ failures < MaxFailures
    /\ failures' = failures + 1
    /\ runtime' = "loading"
    /\ Recreated

-----------------------------------------------------------------------------
(* What the page does with the first answer.                               *)

Answered(kinds) ==
    /\ calls # <<>>
    /\ calls[1].kind \in kinds
    /\ calls[1].reply # None

AnyRevision == TRUE                      \* Latest: the answer is taken as it is

Latest == page.rev = calls[1].about.rev

\* The runtime becomes rt; an effect of App follows it when it changes.
Returns(rt) ==
    /\ runtime' = rt
    /\ control' = IF rt # runtime THEN Followed(control, page', phase, rt)
                  ELSE control
    /\ calls' = Tail(calls)

\* openWorkspace, and the loops that waited for it.  Only one of those that wait
\* for the same revision opens it.
ReceiveOpening ==
    /\ Answered({"open"})
    /\ LET c == calls[1]
           ours == control.observed.rev = c.about.rev
           free == [control EXCEPT
                       !.inFlight = FALSE,
                       !.accepted = IF c.reply.is = "ok" THEN c.about.rev ELSE @,
                       !.refused =
                          IF ~ours THEN @
                          ELSE CASE c.reply.is = "refused" -> c.about.rev
                                 [] c.reply.is = "stale"   -> @
                                 [] c.reply.is = "broken"  -> 0
                                 [] c.reply.is = "ok"      -> IF Latest THEN 0 ELSE @,
                       !.waiting = {}]
           k == IF control.observed.rev \in control.waiting
                THEN Asked(free, control.observed.rev) ELSE free
       IN  /\ \E w \in {{}, {control.observed.rev} \cap control.waiting} :
                 Control([k EXCEPT !.waiting = IF k.inFlight THEN w ELSE {}],
                         k.inFlight, Tail(calls))
           /\ shown' = IF c.reply.is = "ok" /\ ours /\ Latest
                       THEN Full(c.about.text) ELSE shown
           /\ runtime' = IF c.reply.is = "broken" /\ ours THEN "failed" ELSE runtime
    /\ UNCHANGED <<page, phase, loading, artifacts, card, worker, compilerVars,
                   failures, historyVars>>

\* The end of runOperation; a formatted text is one more edit.  Generate may yield
\* no artifacts.
ReceiveOperation ==
    /\ Answered(Operations)
    /\ LET c == calls[1] IN
       \/ /\ c.kind = "format" /\ c.reply.is = "ok" /\ page = c.about
          /\ page.rev < MaxRevision
          /\ \E t \in Texts \ {page.text} : Replaced([rev |-> page.rev + 1, text |-> t])
       \/ /\ shown' =
                IF c.reply.is # "ok" \/ ~Latest THEN shown
                ELSE IF c.kind = "validate" THEN Full(c.about.text)
                ELSE Partial(c.about.text)
          /\ \/ c.kind # "generate" /\ artifacts' = artifacts
             \/ c.kind = "generate" /\ ~Latest /\ artifacts' = artifacts
             \/ c.kind = "generate" /\ Latest /\ artifacts' = None
             \/ /\ c.kind = "generate" /\ Latest /\ c.reply.is = "ok"
                /\ artifacts' = c.about.text
          /\ UNCHANGED <<page, reused>>
    /\ Returns(IF calls[1].reply.is = "broken" THEN "failed" ELSE "ready")
    /\ UNCHANGED <<phase, loading, card, worker, compilerVars, failures, late>>

DeliveredLate(c) == c.reply.is = "ok"    \* Delivered: whatever is observed by now

\* languageRequest: the answer to a question is shown, or dropped.
Delivered(c) == c.reply.is = "ok" /\ control.observed.rev = c.about.rev

ReceiveAnswer ==
    /\ Answered({"ask"})
    /\ runtime' = IF calls[1].reply.is = "broken" /\ control.observed.rev = calls[1].about.rev
                  THEN "failed" ELSE runtime
    /\ calls' = Tail(calls)
    /\ UNCHANGED <<pageVars, control, worker, compilerVars, failures, historyVars>>

\* runConversation: a preview becomes a card.
ReceiveTurn ==
    /\ Answered({"turn"})
    /\ card' = IF calls[1].reply.is = "ok" THEN calls[1].reply.value ELSE card
    /\ calls' = Tail(calls)
    /\ UNCHANGED <<page, phase, loading, shown, artifacts, runtime, control, worker,
                   compilerVars, failures, historyVars>>

\* handleAiAccept: a compilation is the page's artifacts, with no diagnostics; other
\* changes replace the page's workspace.
ReceiveApply ==
    /\ Answered({"apply"})
    /\ LET c == calls[1] IN
       \/ /\ c.reply.is # "ok"
          /\ calls' = Tail(calls)
          /\ UNCHANGED <<pageVars, runtime, control, reused, late>>
       \/ /\ c.reply.is = "ok"
          /\ c.arg.to = None
          /\ artifacts' = c.arg.at.text
          /\ shown' = Partial(None)
          /\ card' = None
          /\ late' = (late \/ page # c.about)
          /\ UNCHANGED <<page, phase, loading, reused>>
          /\ Returns("ready")
       \/ /\ c.reply.is = "ok"
          /\ c.arg.to # None
          /\ Replaced(c.reply.value)
          /\ phase' = "open"
          /\ card' = None
          /\ control' = Followed(control, page', phase', runtime)
          /\ calls' = Tail(calls)
          /\ UNCHANGED <<loading, runtime, late>>
    /\ UNCHANGED <<worker, compilerVars, failures>>

ReceiveDiscard ==
    /\ Answered({"discard"})
    /\ calls' = Tail(calls)
    /\ UNCHANGED <<pageVars, runtime, control, worker, compilerVars, failures,
                   historyVars>>

-----------------------------------------------------------------------------
User == \/ Edit \/ Operate \/ Ask \/ EnsureRevision \/ Turn \/ Accept \/ Discard
        \/ RetryLanguage \/ RetryCompiler

Page == \/ ReceiveOpening \/ ReceiveOperation \/ ReceiveAnswer \/ ReceiveTurn
        \/ ReceiveApply \/ ReceiveDiscard

Compiler == Open \/ Compile \/ Question \/ Preview \/ Typed \/ Apply \/ Dismiss \/ Raise

Next == \/ User \/ Page \/ Compiler \/ TimerFires \/ Initialized \/ Restore \/ Adopt
        \/ InitializationFails \/ WorkerFails \/ ComeBack

Spec == Init /\ [][Next]_vars

\* Page and worker do not both sit on their messages for ever, and the timer
\* fires; the user need do nothing.
FairSpec ==
    /\ Spec
    /\ WF_vars(Page \/ Compiler \/ Initialized \/ InitializationFails)
    /\ WF_vars(TimerFires)

-----------------------------------------------------------------------------
(* Properties.                                                             *)

\* Every variable has its type, and at most one opening and one operation are in
\* flight, whatever has been retried, failed or been edited meanwhile.
TypeOK ==
    /\ page \in Workspaces
    /\ phase \in {"restoring", "recovery", "open"}
    /\ loading \in BOOLEAN
    /\ runtime \in {"loading", "ready", "working", "failed"}
    /\ shown \in Reports
    /\ artifacts \in Texts \cup {None}
    /\ card \in Actions \cup {None}
    /\ control \in Controllers
    /\ worker \in {"booting", "up", "down"}
    /\ calls \in Seq(Calls)
    /\ comp \in Workspaces
    /\ pending \in Actions \cup {None}
    /\ failures \in 0..MaxFailures
    /\ reused \in BOOLEAN
    /\ late \in BOOLEAN
    /\ \A i, j \in DOMAIN calls :
          \/ calls[i].kind = "open" /\ calls[j].kind = "open"
          \/ {calls[i].kind, calls[j].kind} \subseteq Operations
          => i = j

\* The diagnostics on the page, and the artifacts it marks as current, are about
\* the text on the page, whatever was in flight when it was edited, restored,
\* adopted or accepted, unless the page has gone back to an earlier revision, or
\* an edit overtook an accepted compilation.
ResultsMatchText == reused \/ late \/ {shown.text, artifacts} \subseteq {None, page.text}

\* A provider of the editor shows only what the compiler says of the text on the
\* page, though the compiler's workspace and the page may each have changed since
\* the question; except that an edit during an operation is not observed before
\* the operation ends, when only the editor's own cancellation drops the answer.
AnswersMatchText ==
    [][/\ ReceiveAnswer
       /\ Delivered(calls[1])
       /\ control.observed.rev = page.rev
       /\ ~reused
       => calls[1].reply.value = page.text]_vars

\* A confirmed preview is carried out over the text that it was made from, and
\* that was on the page when the user accepted it.
AppliedOverPreviewed ==
    [][\/ ~Apply
       \/ reused
       \/ calls'[First].reply.is # "ok"
       \/ calls[First].about = calls[First].arg.at]_vars

\* The compiler's workspace cannot take the page's: it has had that revision.
Overtaken == comp.rev > page.rev \/ (comp.rev = page.rev /\ comp.text # page.text)

\* Whatever happens, the page comes back to a state in which no operation runs
\* and, unless something has failed and the page says so, the compiler has the
\* page's text and the page shows its diagnostics, or what an operation on that
\* text has put in their place.
Synchronizes ==
    []<>(/\ runtime # "working"
         /\ \/ runtime = "failed"
            \/ phase # "open"
            \/ control.refused = page.rev
            \/ Overtaken
            \/ control.accepted = page.rev /\ comp = page
               /\ (reused \/ late \/ shown.partial \/ shown.text = page.text))

-----------------------------------------------------------------------------
(* What the documentation says and the code does not do; see README.md.    *)

\* "Silent overwrites are prohibited." (docs/playground-design.md, line 280): the
\* answer to a confirmation replaces only the text that was confirmed.
EditNotOverwritten ==
    [][ReceiveApply /\ page' # page /\ ~loading => page = calls[1].about]_vars
=============================================================================
